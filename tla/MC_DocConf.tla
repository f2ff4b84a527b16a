------------------------------ MODULE MC_DocConf ------------------------------
(***************************************************************************)
(* Inputs of conf.py for TLC: VERSION files of up to MaxLines lines drawn *)
(* from line shapes that exercise comment stripping, the "=" count, empty *)
(* values, repeated keys and the early break; $RELEASE unset, empty or a   *)
(* release name; sphinx_rtd_theme present or not.                          *)
(***************************************************************************)
EXTENDS DocConf

VLine(eqs, key, val, commentEqs) ==
    [eqs |-> eqs, key |-> key, val |-> val, commentEqs |-> commentEqs]

LineShapes == {
    VLine(1, "MAJOR_VERSION", "3", 0),           \* MAJOR_VERSION=3
    VLine(1, "MAJOR_VERSION", "1", 0),           \* MAJOR_VERSION = 1
    VLine(1, "MAJOR_VERSION", "", 0),            \* MAJOR_VERSION=
    VLine(1, "MINOR_VERSION", "1", 1),           \* MINOR_VERSION=1  # was=0
    VLine(1, "EXTRA_VERSION", "-unstable", 0),   \* EXTRA_VERSION=-unstable
    VLine(1, "EXTRA_VERSION", "", 0),            \* EXTRA_VERSION=
    VLine(2, "EXTRA_VERSION", "-rc", 0),         \* EXTRA_VERSION=-rc=1
    VLine(0, "", "", 1),                         \* # MINOR_VERSION=2
    VLine(1, "PATCH", "0", 0)}                   \* PATCH=0

MaxLines == 4

MCVersionFiles == {Missing} \cup UNION {[1..n -> LineShapes] : n \in 0..MaxLines}

MCReleaseEnvs == {None, "", "v2.0"}
=============================================================================
