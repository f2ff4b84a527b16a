--------------------------- MODULE PassthruOptions ---------------------------
(***************************************************************************)
(* LaunchScript.PassThruDeviceOptions of launch_cfg_gen.py: the table from *)
(* PCI class-code prefixes to extra acrn-dm options of passthrough         *)
(* devices, built once per VM.                                             *)
(*                                                                         *)
(* The table is a Python dict; it is kept as the sequence of its           *)
(* <<prefix, value>> items in insertion order, which is the order          *)
(* get_option walks them in.  A value is a list of option tokens, or None: *)
(* _add_option stores the result of list.append, which is None.            *)
(***************************************************************************)
EXTENDS Integers, Sequences, SequencesExt

CONSTANTS None, NoExc

\* Class-code prefix "0x0200": Ethernet controller.
EthernetPrefix == <<2, 0>>

\* The class attribute passthru_device_options: its only entry is commented out.
PassthruDeviceOptionsSeed == << >>

\* self._options[class_code] = v on the item sequence of a dict.
SetOption(opts, key, v) ==
    IF \E k \in DOMAIN opts : opts[k][1] = key
    THEN [k \in DOMAIN opts |-> IF opts[k][1] = key THEN <<key, v>> ELSE opts[k]]
    ELSE Append(opts, <<key, v>>)

(***************************************************************************)
(* _add_option(class_code, option): setdefault, then the item is           *)
(* overwritten with what current_option.append returns, None.  The option  *)
(* argument is never used.                                                 *)
(***************************************************************************)
AddOption(opts, classCode, option) == SetOption(opts, classCode, None)

\* __init__: a copy of the seed, plus the PTM entry when <PTM> is "y".
InitPassthruOptions(ptm) ==
    IF ptm = "y"
    THEN AddOption(PassthruDeviceOptionsSeed, EthernetPrefix, "enable_ptm")
    ELSE PassthruDeviceOptionsSeed

(***************************************************************************)
(* get_option(device_etree): the options of every prefix the class code    *)
(* starts with, in table order.  passthru_options.extend(None) raises      *)
(* TypeError.  The result is [exc, val] with val the list of tokens that   *)
(* ",".join turns into the options text.                                   *)
(***************************************************************************)
ExtendMatching(classCode, acc, item) ==
    IF acc.exc = NoExc /\ IsPrefix(item[1], classCode)
    THEN IF item[2] = None
         THEN [exc |-> "TypeError", val |-> acc.val]
         ELSE [exc |-> NoExc, val |-> acc.val \o item[2]]
    ELSE acc

GetOption(opts, device) ==
    IF device = None
    THEN [exc |-> NoExc, val |-> << >>]
    ELSE FoldLeft(LAMBDA acc, item : ExtendMatching(device.class, acc, item),
                  [exc |-> NoExc, val |-> << >>], opts)
=============================================================================
