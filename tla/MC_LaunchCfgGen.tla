--------------------------- MODULE MC_LaunchCfgGen ---------------------------
(***************************************************************************)
(* Model of main over scenarios with up to two post-launched VMs, a        *)
(* service VM at id 0 or 1 or none, every --user_vmid kind and every       *)
(* state of the output path.                                               *)
(***************************************************************************)
EXTENDS LaunchCfgGen, MC_GenerateForOneVM

CONSTANTS vm2

\* A VM with a USB controller and the Ethernet controller passed through,
\* one with the GPU and a virtio console, and one whose 28 USB
\* controllers exhaust the slot pool.
NicVm == [BaseVm EXCEPT !.usb = <<u1>>, !.pciDevs = <<Entry(NicBDF, TRUE)>>]
GpuVm == [BaseVm EXCEPT !.name = vm2, !.console = <<con1>>, !.pciDevs = <<Entry(GpuBDF, TRUE)>>]
UnnamedVm == [BaseVm EXCEPT !.name = None, !.usb = <<u1>>]
ExhaustingVm == [BaseVm EXCEPT !.name = vm2, !.usb = [n \in 1 .. 28 |-> u1]]

Post(id, v) == [id |-> id, vm |-> v]

\* Post-launched VMs at ids 2 to 4, after a service VM at 0 or 1.
MCPostVmLists ==
    { << >>, <<Post(2, NicVm)>>, <<Post(2, NicVm), Post(3, GpuVm)>>,
      <<Post(3, UnnamedVm), Post(2, NicVm)>>,
      <<Post(2, NicVm), Post(3, GpuVm), Post(4, UnnamedVm)>>, <<Post(2, ExhaustingVm), Post(3, NicVm)>> }

MCDriverScenarios == {NicVm, GpuVm, UnnamedVm, ExhaustingVm}

\* The pool-exhausting VM ahead of a VM that generates cleanly.
ExhaustingFirst == {<<Post(2, ExhaustingVm), Post(3, NicVm)>>}
NoPostVms == {<< >>}
=============================================================================
