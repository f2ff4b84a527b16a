----------------------------- MODULE LaunchScript -----------------------------
(***************************************************************************)
(* The LaunchScript class of launch_cfg_gen.py: the document one launch    *)
(* script is accumulated in, with its own virtual BDF allocator and        *)
(* passthrough option table.                                               *)
(*                                                                         *)
(* A script is a record:                                                   *)
(*   vmName, vmType   what the methods read of the VM (self._vm_name and   *)
(*                    .//vm_type of self._vm_scenario_etree);              *)
(*   descriptors      self._vm_descriptors, a dict kept as its items;      *)
(*   init, deinit     self._init_commands, self._deinit_commands;          *)
(*   params           self._dm_parameters;                                 *)
(*   free             self._vbdf_allocator._free_slots;                    *)
(*   ptopts           self._passthru_options._options;                     *)
(*   exc              the exception a method raised, NoExc if none.        *)
(*                                                                         *)
(* Commands and parameters are shell text; equal texts are equal records.  *)
(* A command is [op, dev, var]; a parameter is [cmd, vbdf, what, opts]:    *)
(* a plain parameter "\"what opts\"" has cmd "", a dynamic one is the      *)
(* command substitution of "cmd vbdf what opts".  The padding of cmd to 40 *)
(* columns and the quoting are left out: they map equal inputs to equal    *)
(* texts and different ones to different texts.                            *)
(***************************************************************************)
EXTENDS Integers, Sequences, SequencesExt

CONSTANTS
    None, NoExc,
    Board       \* the PCI devices of the board XML: physical BDF -> device

VBDFs == INSTANCE VBDFAllocator
PTOpts == INSTANCE PassthruOptions

NoVBDF == [slot |-> -1, fn |-> -1]

Cmd(op, dev, var) == [op |-> op, dev |-> dev, var |-> var]
Plain(what, opts) == [cmd |-> "", vbdf |-> NoVBDF, what |-> what, opts |-> opts]
Dynamic(cmd, vbdf, what, opts) == [cmd |-> cmd, vbdf |-> vbdf, what |-> what, opts |-> opts]

\* "virtio" in kind
VirtioKinds == {"virtio-input", "virtio-console", "virtio-net", "virtio-blk"}

Raise(s, e) == [s EXCEPT !.exc = e]

\* LaunchScript.__init__: empty document, fresh allocator and option table.
NewLaunchScript(vmName, vmType, ptm) ==
    [vmName |-> vmName, vmType |-> vmType,
     descriptors |-> << >>, init |-> << >>, params |-> << >>, deinit |-> << >>,
     free |-> VBDFs!FreeSlotsInit, ptopts |-> PTOpts!InitPassthruOptions(ptm),
     exc |-> NoExc]

\* add_vm_descriptor: self._vm_descriptors[name] = value.
AddVmDescriptor(s, name, value) ==
    [s EXCEPT !.descriptors =
        IF \E k \in DOMAIN @ : @[k][1] = name
        THEN [k \in DOMAIN @ |-> IF @[k][1] = name THEN <<name, value>> ELSE @[k]]
        ELSE Append(@, <<name, value>>)]

\* Append x to a list unless it is already in it.
AppendIfAbsent(list, x) == IF Contains(list, x) THEN list ELSE Append(list, x)

AddInitCommand(s, c) == [s EXCEPT !.init = AppendIfAbsent(@, c)]
AddDeinitCommand(s, c) == [s EXCEPT !.deinit = AppendIfAbsent(@, c)]
\* Faulty variant of add_plain_dm_parameter: insert(0, ...) instead of append.
AddPlainDmParameterPrepend(s, what, opts) ==
    [s EXCEPT !.params = IF Contains(@, Plain(what, opts)) THEN @
                         ELSE <<Plain(what, opts)>> \o @]
AddPlainDmParameter(s, what, opts) ==
    [s EXCEPT !.params = AppendIfAbsent(@, Plain(what, opts))]
AddDynamicDmParameter(s, cmd, vbdf, what, opts) ==
    [s EXCEPT !.params = AppendIfAbsent(@, Dynamic(cmd, vbdf, what, opts))]

\* Faulty variant of add_virtual_device: the polling flag added after the
\* device instead of before it.
AddVirtualDevicePollAfter(s, kind, vbdf, options) ==
    LET r  == VBDFs!GetVirtualBDF(s.free, None, << >>)
        s1 == IF vbdf # None
              THEN AddDynamicDmParameter(s, "add_virtual_device", vbdf, kind, options)
              ELSE IF r.exc # NoExc
              THEN Raise(s, r.exc)
              ELSE AddDynamicDmParameter([s EXCEPT !.free = r.free],
                       "add_virtual_device", VBDFs!VBDF(r.vbdf), kind, options)
    IN  IF kind \in VirtioKinds /\ s.vmType = "RTVM" /\ s1.exc = NoExc
        THEN AddPlainDmParameter(s1, "--virtio_poll 1000000", << >>)
        ELSE s1

(***************************************************************************)
(* add_virtual_device(kind, vbdf, options): a virtio device of an RTVM     *)
(* first adds the polling-mode flag; a device without a fixed vbdf takes   *)
(* the next pool slot, and an exhausted pool raises IndexError.            *)
(***************************************************************************)
AddVirtualDevice(s, kind, vbdf, options) ==
    LET s1 == IF kind \in VirtioKinds /\ s.vmType = "RTVM"
              THEN AddPlainDmParameter(s, "--virtio_poll 1000000", << >>)
              ELSE s
        r  == VBDFs!GetVirtualBDF(s1.free, None, << >>)
    IN  IF vbdf # None
        THEN AddDynamicDmParameter(s1, "add_virtual_device", vbdf, kind, options)
        ELSE IF r.exc # NoExc
        THEN Raise(s1, r.exc)
        ELSE AddDynamicDmParameter([s1 EXCEPT !.free = r.free],
                 "add_virtual_device", VBDFs!VBDF(r.vbdf), kind, options)

\* The device node of the board at a physical BDF, as add_passthru_device
\* finds it, or None.
BoardDevice(bdf) == IF bdf \in DOMAIN Board THEN Board[bdf] ELSE None

\* Faulty variant of add_passthru_device: the storm monitor added for every
\* passthrough device, the GPU included.
AddPassthruDeviceAlwaysMonitor(s, bdf, options) ==
    LET device == BoardDevice(bdf)
        o == IF options = << >>
             THEN PTOpts!GetOption(s.ptopts, device)
             ELSE [exc |-> NoExc, val |-> options]
        r == VBDFs!GetVirtualBDF(s.free, device, o.val)
        s1 == AddDynamicDmParameter([s EXCEPT !.free = r.free],
                  "add_passthrough_device", VBDFs!VBDF(r.vbdf), bdf, o.val)
    IN  CASE o.exc # NoExc -> Raise(s, o.exc)
          [] r.exc # NoExc -> Raise(s, r.exc)
          [] OTHER ->
                AddDynamicDmParameter(s1, "add_interrupt_storm_monitor", NoVBDF,
                                      "10000 10 1 100", << >>)

(***************************************************************************)
(* add_passthru_device(bus, dev, fun, options): options from the table     *)
(* when none are given, a vbdf from the allocator, the passthrough         *)
(* parameter, and the interrupt storm monitor unless the vbdf is the GPU   *)
(* slot 2.                                                                 *)
(***************************************************************************)
AddPassthruDevice(s, bdf, options) ==
    LET device == BoardDevice(bdf)
        o == IF options = << >>
             THEN PTOpts!GetOption(s.ptopts, device)
             ELSE [exc |-> NoExc, val |-> options]
        r == VBDFs!GetVirtualBDF(s.free, device, o.val)
        s1 == AddDynamicDmParameter([s EXCEPT !.free = r.free],
                  "add_passthrough_device", VBDFs!VBDF(r.vbdf), bdf, o.val)
    IN  CASE o.exc # NoExc -> Raise(s, o.exc)
          [] r.exc # NoExc -> Raise(s, r.exc)
          [] r.vbdf # VBDFs!GpuSlot ->
                AddDynamicDmParameter(s1, "add_interrupt_storm_monitor", NoVBDF,
                                      "10000 10 1 100", << >>)
          [] OTHER -> s1

(***************************************************************************)
(* to_string: the document as the lines of the written file.  A line is    *)
(* [sec, item]: the template body and the generated-section banner, one    *)
(* "NAME=value" line per descriptor, the init commands, the dm_params=(    *)
(* array with one parameter per line, its closing ")", the echo and the    *)
(* acrn-dm invocation, then the deinit commands.  Comments and blank lines *)
(* are layout and left out.                                                *)
(***************************************************************************)
Line(sec, item) == [sec |-> sec, item |-> item]
Lines(sec, list) == [k \in DOMAIN list |-> Line(sec, list[k])]

Render(s) ==
    <<Line("template", None), Line("banner", None)>>
    \o Lines("descriptor", s.descriptors)
    \o Lines("init", s.init)
    \o <<Line("dm_params_open", None)>>
    \o Lines("param", s.params)
    \o <<Line("dm_params_close", None), Line("echo", None), Line("invoke", None)>>
    \o Lines("deinit", s.deinit)
=============================================================================
