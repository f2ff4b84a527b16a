------------------------------- MODULE DocConf -------------------------------
(***************************************************************************)
(* The statements of doc/conf.py that compute state: RELEASE from the      *)
(* environment, the version parsed from the hypervisor's VERSION file, the *)
(* HTML theme, and the version published for a release or a daily build.  *)
(*                                                                         *)
(* A line of the VERSION file is a record describing its text:            *)
(*   eqs         the number of "=" before the first "#";                   *)
(*   key, val    the stripped text left and right of that "=";             *)
(*   commentEqs  the number of "=" after the first "#".                    *)
(* The file is a sequence of lines, or Missing when it cannot be opened.  *)
(* Unset Python variables are None; a string is true when not empty.      *)
(***************************************************************************)
EXTENDS Integers, Sequences

CONSTANTS
    None,
    NoExc,
    Missing,          \* the VERSION file does not exist
    VersionFiles,     \* the possible VERSION files
    ReleaseEnvs,      \* the possible values of $RELEASE, None when unset
    RtdInstalled      \* whether import sphinx_rtd_theme succeeds

VARIABLES
    cpc,              \* the statement conf.py is at
    file, env, tagRelease, rtd,              \* inputs, fixed by Init
    releaseName,      \* RELEASE
    idx,              \* the line the for loop is at
    major, minor, rc, \* version_major, version_minor, version_rc
    version, release, currentVersion, theme,
    exc               \* the exception raised inside try, NoExc if none

confVars == <<cpc, file, env, tagRelease, rtd, releaseName, idx, major, minor, rc,
              version, release, currentVersion, theme, exc>>

Truthy(v) == v # None /\ v # ""

ConfInit ==
    /\ file \in VersionFiles
    /\ env \in ReleaseEnvs
    /\ tagRelease \in BOOLEAN
    /\ rtd \in RtdInstalled
    /\ cpc = "env"
    /\ releaseName = None /\ idx = 1
    /\ major = None /\ minor = None /\ rc = None
    /\ version = None /\ release = None /\ currentVersion = None /\ theme = None
    /\ exc = NoExc

Goto(l) == cpc' = l

\* Faulty variant: RELEASE = os.environ.get("RELEASE"), None when unset.
ReadReleaseEnvGet ==
    /\ cpc = "env"
    /\ releaseName' = env
    /\ Goto("open")
    /\ UNCHANGED <<file, env, tagRelease, rtd, idx, major, minor, rc,
                   version, release, currentVersion, theme, exc>>

\* RELEASE = "", overridden by os.environ["RELEASE"] when set.
ReadReleaseEnv ==
    /\ cpc = "env"
    /\ releaseName' = IF env = None THEN "" ELSE env
    /\ Goto("open")
    /\ UNCHANGED <<file, env, tagRelease, rtd, idx, major, minor, rc,
                   version, release, currentVersion, theme, exc>>

\* open(os.path.realpath("../../../VERSION")) inside try: a missing file
\* raises, and control goes to finally with the exception pending.
OpenVersionFile ==
    /\ cpc = "open"
    /\ \/ /\ file = Missing
          /\ exc' = "FileNotFoundError" /\ Goto("finally")
       \/ /\ file # Missing
          /\ Goto("loop") /\ UNCHANGED exc
    /\ UNCHANGED <<file, env, tagRelease, rtd, releaseName, idx, major, minor, rc,
                   version, release, currentVersion, theme>>

\* Faulty variant: "=" counted before the comment is cut off.
IsAssignmentRaw(l) == l.eqs + l.commentEqs = 1

\* line.split('#', 1)[0].rstrip(), then line.count("=") == 1.
IsAssignment(l) == l.eqs = 1

\* Faulty variant: the loop reads the whole file, without the break.
AllKnownNever(ma, mi, r) == FALSE

\* if version_major and version_minor and version_rc: break
AllKnown(ma, mi, r) == Truthy(ma) /\ Truthy(mi) /\ Truthy(r)

(***************************************************************************)
(* One iteration of the for loop over the file's lines: an assignment to   *)
(* MAJOR_VERSION, MINOR_VERSION or EXTRA_VERSION is recorded, and the loop *)
(* breaks once all three are true; past the last line it ends.             *)
(***************************************************************************)
ReadVersionLine ==
    /\ cpc = "loop"
    /\ \/ /\ idx <= Len(file)
          /\ LET l == file[idx]
                 set(key, old) == IF IsAssignment(l) /\ l.key = key THEN l.val ELSE old
                 ma == set("MAJOR_VERSION", major)
                 mi == set("MINOR_VERSION", minor)
                 r  == set("EXTRA_VERSION", rc)
             IN  /\ major' = ma /\ minor' = mi /\ rc' = r
                 /\ IF AllKnown(ma, mi, r) THEN Goto("finally") ELSE Goto("loop")
          /\ idx' = idx + 1
       \/ /\ idx > Len(file)
          /\ Goto("finally")
          /\ UNCHANGED <<idx, major, minor, rc>>
    /\ UNCHANGED <<file, env, tagRelease, rtd, releaseName, version, release,
                   currentVersion, theme, exc>>

\* "v " + major + "." + minor, then + rc when rc is true.
VersionText(ma, mi, r) == "v " \o ma \o "." \o mi \o (IF Truthy(r) THEN r ELSE "")

\* finally: version and release from the parsed values, or "unknown" with
\* a warning; a pending exception is then re-raised and conf.py fails.
Finally ==
    /\ cpc = "finally"
    /\ version' = IF Truthy(major) /\ Truthy(minor) THEN VersionText(major, minor, rc)
                  ELSE "unknown"
    /\ release' = version'
    /\ Goto(IF exc = NoExc THEN "theme" ELSE "failed")
    /\ UNCHANGED <<file, env, tagRelease, rtd, releaseName, idx, major, minor, rc,
                   currentVersion, theme, exc>>

\* sphinx_rtd_theme when it imports, alabaster otherwise.
SelectTheme ==
    /\ cpc = "theme"
    /\ theme' = IF rtd THEN "sphinx_rtd_theme" ELSE "alabaster"
    /\ Goto("release")
    /\ UNCHANGED <<file, env, tagRelease, rtd, releaseName, idx, major, minor, rc,
                   version, release, currentVersion, exc>>

\* tags.has('release'): the parsed version, or RELEASE when set; a daily
\* build is "latest".  html_context takes current_version.
PublishedVersion ==
    /\ cpc = "release"
    /\ \/ /\ tagRelease
          /\ currentVersion' = IF Truthy(releaseName) THEN releaseName ELSE version
          /\ version' = currentVersion'
       \/ /\ ~tagRelease
          /\ version' = "latest" /\ currentVersion' = "latest"
    /\ Goto("done")
    /\ UNCHANGED <<file, env, tagRelease, rtd, releaseName, idx, major, minor, rc,
                   release, theme, exc>>

ConfNext ==
    \/ ReadReleaseEnv \/ OpenVersionFile \/ ReadVersionLine \/ Finally
    \/ SelectTheme \/ PublishedVersion

\* conf.py is executed top to bottom once, by one thread.
ConfSpec == ConfInit /\ [][ConfNext]_confVars /\ WF_confVars(ConfNext)

Loaded == cpc = "done"

VersionKeys == {"MAJOR_VERSION", "MINOR_VERSION", "EXTRA_VERSION"}

\* Type invariant: once RELEASE is read it is a string, and every version
\* conf.py publishes is a string.
ConfTypeOK ==
    /\ cpc \in {"env", "open", "loop", "finally", "theme", "release", "done", "failed"}
    /\ cpc # "env" => releaseName \in STRING
    /\ idx \in 1..(IF file = Missing THEN 1 ELSE Len(file) + 1)
    /\ cpc \in {"theme", "release", "done"} => version \in STRING /\ release \in STRING
    /\ Loaded => currentVersion \in STRING /\ theme \in STRING

(***************************************************************************)
(* Reference definition of the version a VERSION file names, without the   *)
(* loop.  An assignment is a line whose text before "#" holds exactly one  *)
(* "="; a key's value up to line n is that of its last assignment among    *)
(* lines 1..n, "" when there is none.  The file is read up to the first    *)
(* line by which all three keys have a non-empty value, or to its end.     *)
(***************************************************************************)
Assignments(f, key) == {m \in DOMAIN f : f[m].eqs = 1 /\ f[m].key = key}

AssignedUpTo(f, key, n) ==
    LET ms == {m \in Assignments(f, key) : m <= n}
    IN  IF ms = {} THEN "" ELSE f[CHOOSE m \in ms : \A o \in ms : o <= m].val

StopLine(f) ==
    LET full == {n \in DOMAIN f : \A key \in VersionKeys : AssignedUpTo(f, key, n) # ""}
    IN  IF full = {} THEN Len(f) ELSE CHOOSE n \in full : \A o \in full : n <= o

RefRelease(f) ==
    LET val(key) == AssignedUpTo(f, key, StopLine(f))
    IN  IF val("MAJOR_VERSION") = "" \/ val("MINOR_VERSION") = "" THEN "unknown"
        ELSE "v " \o val("MAJOR_VERSION") \o "." \o val("MINOR_VERSION")
                 \o val("EXTRA_VERSION")

(***************************************************************************)
(* Whatever the VERSION file holds, repeated keys included, the loop with   *)
(* its comment stripping, "=" counting and early break yields the          *)
(* reference version as release: a repeated key keeps its last value read  *)
(* before the break, so a line after the break is ignored.  The published  *)
(* current_version is that version in a release build without $RELEASE,   *)
(* $RELEASE when set, and "latest" in a daily build.                       *)
(***************************************************************************)
VersionFromVersionFile ==
    Loaded =>
        /\ release = RefRelease(file)
        /\ currentVersion = IF ~tagRelease THEN "latest"
                            ELSE IF env \notin {None, ""} THEN env
                            ELSE RefRelease(file)

=============================================================================
