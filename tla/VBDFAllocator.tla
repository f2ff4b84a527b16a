---------------------------- MODULE VBDFAllocator ----------------------------
(***************************************************************************)
(* LaunchScript.VirtualBDFAllocator of launch_cfg_gen.py: the pool of      *)
(* virtual PCI slots handed to the devices of one post-launched VM.        *)
(*                                                                         *)
(* A virtual BDF appears in a device-model parameter either as a bare      *)
(* slot number (what get_virtual_bdf returns) or as the "slot:function"    *)
(* text written by hand for the LPC ("1:0") and the host bridge ("0:0").   *)
(* Both are a record [slot, fn], fn = NoFn for the bare form, so the two   *)
(* spellings stay apart exactly as their texts do.                         *)
(*                                                                         *)
(* A device is None or a record whose class is the PCI class code of the   *)
(* board XML, a string "0xCCSSPP" kept as the tuple of its three bytes.    *)
(* The options text is the comma-joined list of option tokens, kept as     *)
(* the list itself.                                                        *)
(***************************************************************************)
EXTENDS Integers, Sequences

CONSTANTS
    None,     \* Python's None
    NoExc     \* no exception raised

NoFn == -1

\* A virtual BDF as it is written into a device-model parameter.
VBDF(slot) == [slot |-> slot, fn |-> NoFn]
VBDFWithFn(slot, fn) == [slot |-> slot, fn |-> fn]

\* Class code "0x030000": VGA-compatible controller (integrated or discrete GPU).
VGAClass == <<3, 0, 0>>

\* Reserved slots: 0 host bridge, 1 LPC, 2 passthrough GPU, 31 LPC bridge of
\* the GPU.  The free pool is list(range(3, 30)).
GpuSlot == 2
\* Faulty variant of the pool: list(range(3, 32)) taking in the reserved
\* 30 and 31.
FreeSlotsInitThrough31 == [k \in 1 .. 29 |-> k + 2]
FreeSlotsInit == [k \in 1 .. 27 |-> k + 2]
PoolSlots == 3 .. 29

\* `"igd" in options`: a substring test on the joined options text.  The
\* only option token that contains "igd" is "igd-vf", and no "igd" can
\* straddle a comma.
IgdTokens == {"igd-vf"}
OptionsMentionIgd(options) == \E k \in DOMAIN options : options[k] \in IgdTokens

\* Faulty variants of get_virtual_bdf: _free_slots.pop() taking the last
\* slot, _free_slots[0] without removing it, and a pool declared empty
\* while one slot is left.
GetVirtualBDFPopLast(free, device, options) ==
    CASE device # None /\ device.class = VGAClass
            -> [exc |-> NoExc, vbdf |-> GpuSlot, free |-> free]
      [] OptionsMentionIgd(options)
            -> [exc |-> NoExc, vbdf |-> GpuSlot, free |-> free]
      [] free = << >>
            -> [exc |-> "IndexError", vbdf |-> -1, free |-> free]
      [] OTHER
            -> [exc |-> NoExc, vbdf |-> free[Len(free)], free |-> SubSeq(free, 1, Len(free) - 1)]

GetVirtualBDFPeek(free, device, options) ==
    CASE device # None /\ device.class = VGAClass
            -> [exc |-> NoExc, vbdf |-> GpuSlot, free |-> free]
      [] OptionsMentionIgd(options)
            -> [exc |-> NoExc, vbdf |-> GpuSlot, free |-> free]
      [] free = << >>
            -> [exc |-> "IndexError", vbdf |-> -1, free |-> free]
      [] OTHER
            -> [exc |-> NoExc, vbdf |-> Head(free), free |-> free]

GetVirtualBDFOffByOne(free, device, options) ==
    CASE device # None /\ device.class = VGAClass
            -> [exc |-> NoExc, vbdf |-> GpuSlot, free |-> free]
      [] OptionsMentionIgd(options)
            -> [exc |-> NoExc, vbdf |-> GpuSlot, free |-> free]
      [] Len(free) <= 1
            -> [exc |-> "IndexError", vbdf |-> -1, free |-> free]
      [] OTHER
            -> [exc |-> NoExc, vbdf |-> Head(free), free |-> Tail(free)]

(***************************************************************************)
(* get_virtual_bdf(device_etree, options): the fixed GPU slot for a VGA    *)
(* device or an "igd" option, otherwise _free_slots.pop(0), which raises   *)
(* IndexError on an exhausted pool.                                        *)
(***************************************************************************)
GetVirtualBDF(free, device, options) ==
    CASE device # None /\ device.class = VGAClass
            -> [exc |-> NoExc, vbdf |-> GpuSlot, free |-> free]
      [] OptionsMentionIgd(options)
            -> [exc |-> NoExc, vbdf |-> GpuSlot, free |-> free]
      [] free = << >>
            -> [exc |-> "IndexError", vbdf |-> -1, free |-> free]
      [] OTHER
            -> [exc |-> NoExc, vbdf |-> Head(free), free |-> Tail(free)]
=============================================================================
