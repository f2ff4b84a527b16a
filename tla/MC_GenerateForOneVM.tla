------------------------- MODULE MC_GenerateForOneVM -------------------------
(***************************************************************************)
(* Model of generate_for_one_vm over a board with a GPU, an Ethernet       *)
(* controller and a USB controller, and VMs that use every device kind.    *)
(***************************************************************************)
EXTENDS GenerateForOneVM

CONSTANTS
    vm1,                     \* a VM name
    u1, in1, con1,           \* usb_xhci, virtio input and console entries
    tap0, macOpt,            \* network segments: tap name, "mac=..." rest
    sda3, mapperSda3,         \* block devices
    img1, img2, absImg, raw1 \* images; absImg is an absolute path

\* Board: 00:02.0 GPU with memory resource, 01:00.0 Ethernet, 00:14.0 USB.
GpuBDF == <<0, 2, 0>>
NicBDF == <<1, 0, 0>>
UsbBDF == <<0, 20, 0>>
\* "00:1A.0": written with an upper-case hex digit, which the regex rejects.
UpperCaseBDF == <<0, 26, 0>>
MCBoard ==
    [b \in {GpuBDF, NicBDF, UsbBDF} |->
        CASE b = GpuBDF -> [class |-> <<3, 0, 0>>, memory |-> TRUE]
          [] b = NicBDF -> [class |-> <<2, 0, 0>>, memory |-> TRUE]
          [] OTHER     -> [class |-> <<12, 3, 48>>, memory |-> TRUE]]

Entry(bdf, lower) == [bus |-> bdf[1], dev |-> bdf[2], fun |-> bdf[3], lower |-> lower]

\* A Device-model region listing the name "vm_name", and a pci vuart to vm1.
MCIvshmemRegions == << [provider |-> "Device model", vms |-> {"vm_name"},
                        name |-> "shm1", size |-> "2"] >>
NoIvshmemRegions == << >>
MCVuartConnections == << [vms |-> {vm1}, type |-> "pci"] >>

\* apic_id texts "9" and "0x12": 18 sorts after 9 as a number, not as text.
MCCpuApic == (0 :> <<9>>) @@ (1 :> <<1, 2>>)
MCBasename == (sda3 :> "sda3")

\* Lists of at most n elements of S.
ListsUpTo(S, n) == UNION {[1 .. k -> S] : k \in 0 .. n}

MCScenarios ==
    [name : {vm1},
     osType : {"Windows OS"},
     vmType : {"STANDARD_VM", "RTVM", None},
     cpus : {{}, {0, 1, 5}},
     memory : {"2048"},
     ssram : {None},
     vbootloader : {"Enable", None},
     vuart0 : {"Enable"},
     consoleVuart : {"PCI", None},
     ptm : {"n"},
     lapicPt : {"y"},
     usb : {<<u1>>},
     input : {<< >>, <<in1>>},
     console : {<<con1>>},
     network : {<< >>, << <<tap0, macOpt>>, <<tap0>> >>},
     block : {<< >>, << <<raw1>> >>, << <<sda3, img1>>, <<sda3, img2>> >>},
     pciDevs : ListsUpTo({Entry(GpuBDF, TRUE), Entry(NicBDF, TRUE), Entry(UpperCaseBDF, FALSE),
                          NotBDF}, 2)]

-----------------------------------------------------------------------------
(***************************************************************************)
(* Single scenarios for the runs that each ask one question of the code.   *)
(***************************************************************************)
BaseVm ==
    [name |-> vm1, osType |-> None, vmType |-> "STANDARD_VM", cpus |-> {0, 1},
     memory |-> "2048", ssram |-> None, vbootloader |-> "Enable", vuart0 |-> None,
     consoleVuart |-> "PCI", ptm |-> "n", lapicPt |-> None, usb |-> << >>,
     input |-> << >>, console |-> << >>, network |-> << >>, block |-> << >>,
     pciDevs |-> << >>]

\* PTM enabled, with and without the Ethernet controller passed through.
PtmScenarios ==
    {[BaseVm EXCEPT !.ptm = "y", !.pciDevs = p] :
        p \in {<< >>, <<Entry(NicBDF, TRUE)>>, <<Entry(UsbBDF, TRUE), Entry(NicBDF, TRUE)>>}}

\* Both GPUs of a board with an integrated and a discrete one.
DiscreteGpuBDF == <<3, 0, 0>>
TwoGpuBoard == MCBoard @@ (DiscreteGpuBDF :> [class |-> <<3, 0, 0>>, memory |-> TRUE])
TwoGpuScenarios ==
    {[BaseVm EXCEPT !.pciDevs = p] :
        p \in {<<Entry(GpuBDF, TRUE)>>, <<Entry(GpuBDF, TRUE), Entry(DiscreteGpuBDF, TRUE)>>}}

\* A GPU virtual function: VGA class, no memory resource.
VfBoard == [MCBoard EXCEPT ![GpuBDF].memory = FALSE]
VfScenarios == {[BaseVm EXCEPT !.pciDevs = p] : p \in {<< >>, <<Entry(GpuBDF, TRUE)>>}}

\* A Device-model region for vm1.
RegionsForVm1 == << [provider |-> "Device model", vms |-> {vm1}, name |-> "shm1", size |-> "2"] >>
NamedScenarios == {BaseVm, [BaseVm EXCEPT !.name = None]}

\* Two block devices whose paths share a basename (/dev/sda3, /dev/mapper/sda3),
\* and an image given by an absolute path.
CollidingBasename == (sda3 :> "sda3") @@ (mapperSda3 :> "sda3")
MountScenarios ==
    {[BaseVm EXCEPT !.block = b] :
        b \in {<< <<sda3, img1>> >>, << <<sda3, img1>>, <<mapperSda3, img2>> >>}}
AbsoluteImageScenarios ==
    {[BaseVm EXCEPT !.block = b] : b \in {<< <<sda3, img1>> >>, << <<sda3, absImg>> >>}}

\* 26 to 28 devices that need a pool slot.
PoolScenarios ==
    {[BaseVm EXCEPT !.usb = [k \in 1 .. n |-> u1], !.pciDevs = p] :
        n \in 25 .. 27, p \in {<< >>, <<Entry(NicBDF, TRUE)>>, <<Entry(GpuBDF, TRUE)>>}}

\* The generation run: the device mix, and the pool at its limit.
GenerationScenarios == MCScenarios \cup PoolScenarios
=============================================================================
