--------------------------- MODULE GenerateForOneVM ---------------------------
(***************************************************************************)
(* generate_for_one_vm of launch_cfg_gen.py: the walk over one             *)
(* post-launched VM of the scenario XML that fills a LaunchScript.         *)
(*                                                                         *)
(* The VM's part of the scenario is a record vm, fixed for the run, whose  *)
(* fields are what the function's XPath queries return:                    *)
(*   name          ./name, None if absent;                                 *)
(*   osType, vmType, memory, vbootloader, vuart0, consoleVuart, ptm,       *)
(*   lapicPt, ssram                                                        *)
(*                 the text of that element, None if absent;               *)
(*   cpus          the set of pcpu_id texts of cpu_affinity;               *)
(*   usb, input, console                                                   *)
(*                 the lists of usb_xhci and virtio_devices entries;       *)
(*   network       each virtio network entry as text.split(",", 1);        *)
(*   block         each virtio block entry as text.split(":", 1);          *)
(*   pciDevs       each pci_devs entry as [bus, dev, fun, lower]: the      *)
(*                 numbers its hex digits spell and whether they are       *)
(*                 lower case, or NotBDF for text of another shape.        *)
(* pc is the statement the function is at; i indexes the list a for loop  *)
(* is walking.  "done" is the return, "raised" an exception leaving it.    *)
(***************************************************************************)
EXTENDS LaunchScript

CONSTANTS
    Scenarios,        \* the VM records the run starts from
    DefaultVmName,    \* "ACRN Post-Launched VM"
    Scheduler,        \* //hv//SCHEDULER of the scenario, or None
    CpuApic,          \* board: pcpu id -> hex digits of its thread's apic_id
    IvshmemRegions,   \* //IVSHMEM_REGION of the scenario: [provider, vms, name, size]
    VuartConnections, \* //hv//vuart_connection: [vms, type]
    Basename,         \* os.path.basename of a block device path
    AbsoluteImages,   \* image paths that begin with "/"
    NotBDF            \* a pci_devs entry the BDF regex does not match

VARIABLES pc, vm, script, i

vars == <<pc, vm, script, i>>

VmName(v) == IF v.name = None THEN DefaultVmName ELSE v.name

\* An lxml element compared with == to a str is never equal.
ElementEqualsText == FALSE

(***************************************************************************)
(* A for loop at label lab over list: one action per iteration, body      *)
(* being the script after the loop body ran on list[i], then leaving to    *)
(* next with i reset.                                                      *)
(***************************************************************************)
ForEach(lab, list, body, next) ==
    /\ \/ /\ i <= Len(list)
          /\ script' = body
          /\ pc' = IF script'.exc = NoExc THEN lab ELSE "raised"
          /\ i' = i + 1
       \/ /\ i > Len(list)
          /\ pc' = next
          /\ i' = 1
          /\ UNCHANGED script
    /\ UNCHANGED vm

\* A block of straight-line statements: an exception any of them raised
\* leaves the function.
Step(s2, next) ==
    /\ script' = s2
    /\ pc' = IF s2.exc = NoExc THEN next ELSE "raised"
    /\ UNCHANGED <<vm, i>>

\* `if cond:` around statements that turn s into t.
When(cond, s, t) == IF cond THEN t ELSE s

Init ==
    /\ vm \in Scenarios
    /\ script = NewLaunchScript(VmName(vm), vm.vmType, vm.ptm)
    /\ pc = "vm_types"
    /\ i = 1

\* probe_modules, --windows, and the vm_type and scheduler descriptors.
VmTypes ==
    /\ pc = "vm_types"
    /\ LET s1 == AddInitCommand(script, Cmd("probe_modules", None, None))
           s2 == When(vm.osType = "Windows OS", s1,
                      AddPlainDmParameter(s1, "--windows", << >>))
           s3 == AddVmDescriptor(s2, "vm_type",
                     IF vm.vmType = None THEN "STANDARD_VM" ELSE vm.vmType)
       IN  Step(AddVmDescriptor(s3, "scheduler", Scheduler), "resources")

\* Faulty variant of int(text, 16): the digits read least significant first.
RECURSIVE HexValueLittleEndian(_)
HexValueLittleEndian(d) ==
    IF d = << >> THEN 0 ELSE 16 * HexValueLittleEndian(Tail(d)) + Head(d)

\* int(text, 16) of an apic_id text, given as its hex digits' values, most
\* significant first: Horner's rule.
RECURSIVE HexValue(_)
HexValue(d) ==
    IF d = << >> THEN 0 ELSE 16 * HexValue(SubSeq(d, 1, Len(d) - 1)) + d[Len(d)]

\* cpu_id_to_lapic_id: the apic ids of the pcpus the board defines; the
\* others are dropped with a warning.
LapicIds(cpus) ==
    LET known == SetToSeq({c \in cpus : c \in DOMAIN CpuApic})
    IN  [k \in DOMAIN known |-> HexValue(CpuApic[known[k]])]

\* add_cpus with the sorted apic ids, -m, and --ssram (whose guard compares
\* the SSRAM_ENABLED element itself with "y").
Resources ==
    /\ pc = "resources"
    /\ LET lapic == SortSeq(LapicIds(vm.cpus), <)
           s1 == When(lapic # << >>, script,
                      AddDynamicDmParameter(script, "add_cpus", NoVBDF, "", lapic))
           s2 == AddPlainDmParameter(s1, "-m", <<vm.memory>>)
           ssramNodeIsY == vm.ssram # None /\ ElementEqualsText
           s3 == When(ssramNodeIsY /\ vm.vmType = "RTVM", s2,
                      AddPlainDmParameter(s2, "--ssram", << >>))
       IN  Step(s3, "bios")

GuestBios ==
    /\ pc = "bios"
    /\ Step(When(vm.vbootloader = "Enable", script,
                AddPlainDmParameter(script, "--ovmf /usr/share/acrn/bios/OVMF.fd", << >>)),
            "platform")

\* The LPC at 1:0 for a non-RTVM, the stdio console, the host bridge at 0:0.
PlatformDevices ==
    /\ pc = "platform"
    /\ LET s1 == When(vm.vmType # "RTVM", script,
                      AddVirtualDevice(script, "lpc", VBDFs!VBDFWithFn(1, 0), << >>))
           s2 == When(vm.vuart0 = "Enable", s1,
                      AddPlainDmParameter(s1, "-l com1,stdio", << >>))
       IN  Step(AddVirtualDevice(s2, "hostbridge", VBDFs!VBDFWithFn(0, 0), << >>),
                "ivshmem")

\* The XPath compares VM_NAME with the string literal 'vm_name'.
MatchingRegions ==
    SelectSeq(IvshmemRegions,
              LAMBDA r : r.provider = "Device model" /\ "vm_name" \in r.vms)

Ivshmem ==
    /\ pc = "ivshmem"
    /\ ForEach("ivshmem", MatchingRegions,
               AddVirtualDevice(script, "ivshmem", None,
                                <<MatchingRegions[i].name, MatchingRegions[i].size>>),
               "console_vuart")

ConsoleVuart ==
    /\ pc = "console_vuart"
    /\ Step(When(vm.consoleVuart = "PCI", script,
                AddVirtualDevice(script, "uart", None, <<"vuart_idx:0">>)),
            "vuart_connections")

\* The connections with an endpoint on this VM; ./type is an element, so
\* the test against "pci" fails, and the option text is not an f-string.
VuartConnectionsOfVm == SelectSeq(VuartConnections, LAMBDA c : VmName(vm) \in c.vms)

VuartConnection ==
    /\ pc = "vuart_connections"
    /\ ForEach("vuart_connections", VuartConnectionsOfVm,
               When(VuartConnectionsOfVm[i].type # None /\ ElementEqualsText, script,
                    AddVirtualDevice(script, "uart", None, <<"vuart_idx:{idx}">>)),
               "xhci")

UsbXhci ==
    /\ pc = "xhci"
    /\ ForEach("xhci", vm.usb, AddVirtualDevice(script, "xhci", None, <<vm.usb[i]>>),
               "virtio_input")

VirtioInput ==
    /\ pc = "virtio_input"
    /\ ForEach("virtio_input", vm.input,
               AddVirtualDevice(script, "virtio-input", None, <<vm.input[i]>>),
               "virtio_console")

VirtioConsole ==
    /\ pc = "virtio_console"
    /\ ForEach("virtio_console", vm.console,
               AddVirtualDevice(script, "virtio-console", None, <<vm.console[i]>>),
               "virtio_network")

\* mac_seed=${mac:0:17}-<vm name>
MacSeed(name) == [macSeedOf |-> name]
MacCommand == Cmd("mac=$(cat /sys/class/net/e*/address)", None, None)

\* tap=<first segment>, the rest as given, then the MAC seed.
VirtioNetwork ==
    /\ pc = "virtio_network"
    /\ ForEach("virtio_network", vm.network,
               AddVirtualDevice(AddInitCommand(script, MacCommand), "virtio-net", None,
                                vm.network[i] \o <<MacSeed(VmName(vm))>>),
               "virtio_block")

\* os.path.join("${dir_<basename>}", image), which drops the directory
\* when the image path is absolute.
ImagePath(var, img) == IF img \in AbsoluteImages THEN <<img>> ELSE <<var, img>>

\* Faulty variant: the deinit command unmounts the block device path
\* instead of the directory variable the mount set.
BlockWithImageUnmountDevice(s, dev, img) ==
    LET var == Basename[dev]
        s1 == AddInitCommand(s, Cmd("mount_partition", dev, var))
        s2 == AddVirtualDevice(s1, "virtio-blk", None, ImagePath(var, img))
    IN  IF s2.exc # NoExc THEN s2
        ELSE AddDeinitCommand(s2, Cmd("unmount_partition", None, dev))

BlockWithImage(s, dev, img) ==
    LET var == Basename[dev]
        s1 == AddInitCommand(s, Cmd("mount_partition", dev, var))
        s2 == AddVirtualDevice(s1, "virtio-blk", None, ImagePath(var, img))
    IN  IF s2.exc # NoExc THEN s2
        ELSE AddDeinitCommand(s2, Cmd("unmount_partition", None, var))

VirtioBlock ==
    /\ pc = "virtio_block"
    /\ ForEach("virtio_block", vm.block,
               LET params == vm.block[i] IN
               IF Len(params) = 1
               THEN AddVirtualDevice(script, "virtio-blk", None, params)
               ELSE BlockWithImage(script, params[1], params[2]),
               "passthru")

(***************************************************************************)
(* Passthrough devices.  bdf_regex.match keeps entries of two lower-case   *)
(* hex digits, a [0-1] digit and a hex digit, any character, and a [0-7]   *)
(* digit.  The board lookup the loop does itself puts the literal text     *)
(* 'hex((dev << 16) | func)' in the address test, so it finds no device;   *)
(* were it to find one, the unbalanced "resource[@type='memory'" XPath     *)
(* would raise.                                                            *)
(***************************************************************************)
MatchesBDFRegex(e) == e # NotBDF /\ e.lower /\ e.bus < 256 /\ e.dev < 32 /\ e.fun < 8

DeviceNodeByLiteralAddress(bdf) == None

PassthruEntry(s, e) ==
    LET bdf == <<e.bus, e.dev, e.fun>>
        node == DeviceNodeByLiteralAddress(bdf)
    IN  CASE ~MatchesBDFRegex(e) -> s
          [] node # None /\ node.class = VBDFs!VGAClass -> Raise(s, "XPathEvalError")
          [] OTHER -> AddPassthruDevice(s, bdf, << >>)

Passthru ==
    /\ pc = "passthru"
    /\ ForEach("passthru", vm.pciDevs, PassthruEntry(script, vm.pciDevs[i]), "misc")

\* --rtvm, --lapic_pt, and the logger settings.
Miscellaneous ==
    /\ pc = "misc"
    /\ LET s1 == When(vm.vmType = "RTVM", script,
                      AddPlainDmParameter(script, "--rtvm", << >>))
           s2 == When(vm.vmType = "RTVM" /\ vm.lapicPt = "y", s1,
                      AddPlainDmParameter(s1, "--lapic_pt", << >>))
       IN  Step(AddDynamicDmParameter(s2, "add_logger_settings", NoVBDF,
                                              "console=4 kmsg=3 disk=5", << >>),
                "vm_name")

\* The VM name concludes the device-model parameters.
ConcludeWithVmName ==
    /\ pc = "vm_name"
    /\ Step(AddPlainDmParameter(script, VmName(vm), << >>), "done")

Next ==
    \/ VmTypes \/ Resources \/ GuestBios \/ PlatformDevices
    \/ Ivshmem \/ ConsoleVuart \/ VuartConnection
    \/ UsbXhci \/ VirtioInput \/ VirtioConsole \/ VirtioNetwork \/ VirtioBlock
    \/ Passthru \/ Miscellaneous \/ ConcludeWithVmName

\* generate_for_one_vm runs to its end on its single thread.
Spec == Init /\ [][Next]_vars /\ WF_vars(Next)

Finished == pc \in {"done", "raised"}

-----------------------------------------------------------------------------
(***************************************************************************)
(* Properties                                                              *)
(***************************************************************************)
Params == script.params
DeviceCmds == {"add_virtual_device", "add_passthrough_device"}
IsDevice(p) == p.cmd \in DeviceCmds
IsPoolDevice(p) == IsDevice(p) /\ p.vbdf.fn = VBDFs!NoFn /\ p.vbdf.slot \in VBDFs!PoolSlots
IndexesOf(Test(_)) == {k \in DOMAIN Params : Test(Params[k])}

TypeOK ==
    /\ pc \in {"vm_types", "resources", "bios", "platform", "ivshmem", "console_vuart",
              "vuart_connections", "xhci", "virtio_input", "virtio_console",
              "virtio_network", "virtio_block", "passthru", "misc", "vm_name",
              "done", "raised"}
    /\ vm \in Scenarios
    /\ i \in Nat \ {0}
    /\ script.free \in Seq(VBDFs!PoolSlots)
    /\ script.exc \in {NoExc, "IndexError", "TypeError", "XPathEvalError"}

\* Reference value of a hex text: the number whose base-16 digits they are.
HexRef(d) ==
    CHOOSE n \in 0 .. (16 ^ Len(d) - 1) :
        \A k \in 1 .. Len(d) : (n \div 16 ^ (Len(d) - k)) % 16 = d[k]

(***************************************************************************)
(* add_cpus (cpu_id_to_lapic_id, int(apic_id, 16), then sorted) lists the  *)
(* numeric apic id of every pcpu of the VM that the board defines, each    *)
(* once and in increasing order, and is left out when the board defines    *)
(* none of them.                                                           *)
(***************************************************************************)
AddCpusListsApicIds ==
    pc \notin {"vm_types", "resources"} =>
        LET ids  == {HexRef(CpuApic[c]) : c \in vm.cpus \cap DOMAIN CpuApic}
            adds == {m \in DOMAIN script.params : script.params[m].cmd = "add_cpus"}
        IN  IF ids = {} THEN adds = {}
            ELSE \E m \in adds :
                    LET o == script.params[m].opts
                    IN  /\ {o[a] : a \in DOMAIN o} = ids
                        /\ \A a \in 1 .. Len(o) - 1 : o[a] < o[a + 1]

(***************************************************************************)
(* The allocator and the document agree on the pool: the slots of the      *)
(* pool-allocated devices, in the order their parameters were added, are   *)
(* 3, 4, 5, ... and what is still free is exactly the rest of 3..29, in    *)
(* order.  A pop from the wrong end, a slot handed out twice or a device   *)
(* whose parameter was suppressed as a duplicate breaks it.                *)
(***************************************************************************)
PoolSlotsAccounted ==
    LET used == SelectSeq(Params, IsPoolDevice)
    IN  /\ \A k \in DOMAIN used : used[k].vbdf.slot = k + 2
        /\ script.free = [k \in 1 .. 27 - Len(used) |-> k + 2 + Len(used)]

(***************************************************************************)
(* No two devices of the script share a virtual slot (spec section 3).     *)
(***************************************************************************)
DistinctVirtualSlots ==
    \A j, k \in IndexesOf(IsDevice) :
        j # k => Params[j].vbdf.slot # Params[k].vbdf.slot

(***************************************************************************)
(* add_passthru_device: the interrupt storm monitor is in the parameters,  *)
(* exactly once, iff some passthrough device got a slot other than the GPU *)
(* slot 2, and it follows the first such device.                           *)
(***************************************************************************)
IsStormMonitor(p) == p.cmd = "add_interrupt_storm_monitor"
IsNonGpuPassthru(p) == p.cmd = "add_passthrough_device" /\ p.vbdf.slot # VBDFs!GpuSlot

StormMonitorIffNonGpuPassthru ==
    /\ IndexesOf(IsStormMonitor) # {} <=> IndexesOf(IsNonGpuPassthru) # {}
    /\ \A j, k \in IndexesOf(IsStormMonitor) : j = k
    /\ \A m \in IndexesOf(IsStormMonitor) : \E d \in IndexesOf(IsNonGpuPassthru) : d < m

(***************************************************************************)
(* add_virtual_device: an RTVM with a virtio device has the polling-mode   *)
(* flag, once, before its first virtio device; other VMs never have it.    *)
(***************************************************************************)
IsVirtioPoll(p) == p = Plain("--virtio_poll 1000000", << >>)
IsVirtio(p) == p.cmd = "add_virtual_device" /\ p.what \in VirtioKinds

VirtioPollPrecedesVirtio ==
    IF vm.vmType = "RTVM"
    THEN \A d \in IndexesOf(IsVirtio) : \E q \in IndexesOf(IsVirtioPoll) : q < d
    ELSE IndexesOf(IsVirtioPoll) = {}

(***************************************************************************)
(* Every partition the init commands mount, the deinit commands unmount:   *)
(* once generation is done, there is one unmount per mount command, on the *)
(* variable that mount set.                                                *)
(***************************************************************************)
Mounts == {c \in ToSet(script.init) : c.op = "mount_partition"}
Unmounts == {c \in ToSet(script.deinit) : c.op = "unmount_partition"}

MountsUnmounted ==
    pc = "done" =>
        /\ {c.var : c \in Mounts} = {c.var : c \in Unmounts}
        /\ Cardinality(Mounts) = Cardinality(Unmounts)

(***************************************************************************)
(* The only exception generation may raise is the exhaustion of the slot   *)
(* pool (spec section 7): a full pool, not any other input.                *)
(***************************************************************************)
OnlyPoolExhaustionRaises ==
    pc = "raised" => script.exc = "IndexError" /\ script.free = << >>

(***************************************************************************)
(* Spec 4.4 item 6: every shared-memory region the device model provides   *)
(* to this VM becomes an ivshmem device of its script.                     *)
(***************************************************************************)
IvshmemRegionsAttached ==
    pc = "done" =>
        \A k \in DOMAIN IvshmemRegions :
            LET r == IvshmemRegions[k] IN
            r.provider = "Device model" /\ VmName(vm) \in r.vms =>
                \E j \in DOMAIN Params : /\ Params[j].what = "ivshmem"
                                        /\ Params[j].opts = <<r.name, r.size>>

(***************************************************************************)
(* Spec 4.4 item 6: every pci vuart connection declared for this VM in the *)
(* hypervisor scenario adds a uart device besides the console one.         *)
(***************************************************************************)
PciVuartConnectionsAttached ==
    pc = "done" =>
        LET conns == SelectSeq(VuartConnectionsOfVm, LAMBDA c : c.type = "pci")
            uarts == IndexesOf(LAMBDA p : p.what = "uart")
            console == IF vm.consoleVuart = "PCI" THEN 1 ELSE 0
        IN  Cardinality(uarts) = console + Len(conns)

(***************************************************************************)
(* Spec 4.4 item 9: a VGA controller without a memory resource is passed   *)
(* through with the igd-vf option.                                         *)
(***************************************************************************)
IgdVfForGpuWithoutMemory ==
    \A k \in IndexesOf(LAMBDA p : p.cmd = "add_passthrough_device") :
        LET d == BoardDevice(Params[k].what) IN
        d # None /\ d.class = VBDFs!VGAClass /\ ~d.memory =>
            Params[k].opts = <<"igd-vf">>

(***************************************************************************)
(* Spec 4.4 item 8: the image of a mounted partition is read from inside   *)
(* it: every variable a mount command sets is used by a virtio-blk device. *)
(***************************************************************************)
MountedPartitionsUsed ==
    pc = "done" =>
        \A c \in Mounts :
            \E k \in IndexesOf(LAMBDA p : p.what = "virtio-blk") : Contains(Params[k].opts, c.var)

=============================================================================
