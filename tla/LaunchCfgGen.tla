---------------------------- MODULE LaunchCfgGen ----------------------------
(***************************************************************************)
(* main of launch_cfg_gen.py: the driver that checks the scenario for a    *)
(* service VM, creates the output directory, and generates and writes the  *)
(* launch script of every selected post-launched VM in turn, composed with *)
(* the generation of GenerateForOneVM, whose steps run while dpc = "gen".  *)
(*                                                                         *)
(* The inputs of one invocation are chosen by Init and never change:       *)
(*   posts   //vm[load_order = 'POST_LAUNCHED_VM'] as [id, vm] records,    *)
(*           in document order;                                            *)
(*   sid     the @id of the service VM, None if there is none;             *)
(*   user    --user_vmid, 0 meaning every post-launched VM.                *)
(* dir is the output path: "absent", "dir", "readonly" (a directory the    *)
(* tool cannot write in), "file", or "uncreatable" (mkdir fails otherwise).*)
(* files maps the N of launch_user_vm_id<N>.sh to the lines written.      *)
(* outcome is "running", the value main returns, or the exception that    *)
(* ends the process.                                                       *)
(***************************************************************************)
EXTENDS GenerateForOneVM

CONSTANTS
    PostVmLists,     \* the possible //vm[load_order = 'POST_LAUNCHED_VM'] lists
    ServiceVmIds,    \* the possible service VM ids, None among them
    UserVmIds,       \* the possible --user_vmid arguments
    OutDirs          \* the possible states of the --out path

VARIABLES dpc, posts, sid, user, dir, selected, k, files, attempted, outcome

drvVars == <<dpc, posts, sid, user, dir, selected, k, files, attempted, outcome>>
allVars == <<drvVars, vars>>

DriverInit ==
    /\ posts \in PostVmLists
    /\ sid \in ServiceVmIds
    /\ user \in UserVmIds
    /\ dir \in OutDirs
    /\ dpc = "service_vm"
    /\ selected = {}
    /\ k = 1
    /\ files = << >>
    /\ attempted = {}
    /\ outcome = "running"
    /\ pc = "idle" /\ vm = None /\ script = None /\ i = 1

Stop(o) == /\ outcome' = o /\ dpc' = "exit"

\* No service VM: return 1 when there are post-launched VMs, otherwise
\* int(None) raises TypeError.
ServiceVmCheck ==
    /\ dpc = "service_vm"
    /\ \/ /\ sid = None /\ Len(posts) > 0
          /\ Stop("return 1")
       \/ /\ sid = None /\ Len(posts) = 0
          /\ Stop("TypeError")
       \/ /\ sid # None
          /\ dpc' = "mkdir" /\ UNCHANGED outcome
    /\ UNCHANGED <<posts, sid, user, dir, selected, k, files, attempted>>
    /\ UNCHANGED vars

\* Faulty variant of the FileExistsError handler: os.path.isfile not asked.
PathIsFileNeverAsked == FALSE

\* os.path.isfile(out_dir) after FileExistsError.
PathIsFile == dir = "file"

\* os.mkdir(out_dir): FileExistsError goes on unless the path is a file;
\* any other error returns 1.
MakeOutDir ==
    /\ dpc = "mkdir"
    /\ \/ /\ dir = "absent"
          /\ dir' = "dir" /\ dpc' = "select" /\ UNCHANGED outcome
       \/ /\ dir \in {"dir", "readonly", "file"} /\ ~PathIsFile
          /\ dpc' = "select" /\ UNCHANGED <<dir, outcome>>
       \/ /\ dir \in {"dir", "readonly", "file"} /\ PathIsFile
          /\ Stop("return 1") /\ UNCHANGED dir
       \/ /\ dir = "uncreatable"
          /\ Stop("return 1") /\ UNCHANGED dir
    /\ UNCHANGED <<posts, sid, user, selected, k, files, attempted>>
    /\ UNCHANGED vars

\* post_vm_ids: every post-launched id, or user_vm_id + service_vm_id.
SelectVms ==
    /\ dpc = "select"
    /\ selected' = IF user = 0 THEN {posts[j].id : j \in DOMAIN posts} ELSE {user + sid}
    /\ dpc' = "loop"
    /\ UNCHANGED <<posts, sid, user, dir, k, files, attempted, outcome>>
    /\ UNCHANGED vars

\* Faulty variants of the loop's parts: the filter inverted (continue on a
\* selected id), the loop left one VM early, and
\* the allocator of the previous VM's script carried into the next.
IsSelectedInverted(j) == posts[j].id \notin selected
LoopDoneAtLast == k >= Len(posts)
FreshScriptSharedPool(v) ==
    [NewLaunchScript(VmName(v), v.vmType, v.ptm) EXCEPT
        !.free = IF script = None THEN @ ELSE script.free]

\* if post_vm_id not in post_vm_ids: continue
IsSelected(j) == posts[j].id \in selected
LoopDone == k > Len(posts)
Advance == k' = k + 1
\* generate_for_one_vm builds a new LaunchScript for every VM.
FreshScript(v) == NewLaunchScript(VmName(v), v.vmType, v.ptm)

\* The for loop over post_vms: skip an unselected VM, start generating a
\* selected one, or return 0 after the last.
NextPostVm ==
    /\ dpc = "loop"
    /\ \/ /\ LoopDone
          /\ Stop("return 0")
          /\ UNCHANGED <<k, attempted>> /\ UNCHANGED vars
       \/ /\ k <= Len(posts) /\ ~IsSelected(k)
          /\ Advance
          /\ UNCHANGED <<dpc, outcome, attempted>> /\ UNCHANGED vars
       \/ /\ k <= Len(posts) /\ IsSelected(k)
          /\ dpc' = "gen"
          /\ attempted' = attempted \cup {posts[k].id}
          /\ vm' = posts[k].vm
          /\ script' = FreshScript(posts[k].vm)
          /\ pc' = "vm_types" /\ i' = 1
          /\ UNCHANGED <<k, outcome>>
    /\ UNCHANGED <<posts, sid, user, dir, selected, files>>

\* One statement of generate_for_one_vm.
Generate ==
    /\ dpc = "gen"
    /\ Next
    /\ UNCHANGED drvVars

\* The N of launch_user_vm_id<N>.sh for the k-th post-launched VM.
\* Faulty variant: the file named after the scenario id itself.
ScriptIndexWithoutServiceId == posts[k].id

\* launch_user_vm_id{post_vm_id - service_vm_id}.sh
ScriptIndex == posts[k].id - sid

\* LaunchScript.write_to_file: open(path, "w") creates or truncates the file
\* at index n, which then holds to_string of the script.
WriteToFile(fs, n, s) == (n :> Render(s)) @@ fs

\* generate_for_one_vm returned: write_to_file, which a read-only
\* directory makes raise PermissionError.
WriteScript ==
    /\ dpc = "gen" /\ pc = "done"
    /\ \/ /\ dir = "dir"
          /\ files' = WriteToFile(files, ScriptIndex, script)
          /\ Advance /\ dpc' = "loop"
          /\ UNCHANGED outcome
       \/ /\ dir = "readonly"
          /\ Stop("PermissionError")
          /\ UNCHANGED <<files, k>>
    /\ pc' = "idle"
    /\ UNCHANGED <<posts, sid, user, dir, selected, attempted, vm, script, i>>

\* An exception left generate_for_one_vm: nothing catches it in main.
Crash ==
    /\ dpc = "gen" /\ pc = "raised"
    /\ Stop(script.exc)
    /\ pc' = "idle"
    /\ UNCHANGED <<posts, sid, user, dir, selected, k, files, attempted, vm, script, i>>

DriverNext ==
    \/ ServiceVmCheck \/ MakeOutDir \/ SelectVms \/ NextPostVm
    \/ Generate \/ WriteScript \/ Crash

\* main runs to its end on its single thread.
DriverSpec == DriverInit /\ [][DriverNext]_allVars /\ WF_allVars(DriverNext)

Exited == dpc = "exit"

-----------------------------------------------------------------------------
(***************************************************************************)
(* Properties                                                              *)
(***************************************************************************)
DriverTypeOK ==
    /\ dpc \in {"service_vm", "mkdir", "select", "loop", "gen", "exit"}
    /\ posts \in PostVmLists
    /\ dir \in {"absent", "dir", "readonly", "file", "uncreatable"}
    /\ k \in 1 .. Len(posts) + 1
    /\ attempted \subseteq selected
    /\ outcome \in {"running", "return 0", "return 1", "TypeError", "PermissionError",
                    "IndexError", "XPathEvalError"}

\* The post-launched VMs main is asked to generate.
SelectedPosts == {j \in DOMAIN posts : posts[j].id \in selected}

(***************************************************************************)
(* Spec section 7: a scenario without a service VM but with post-launched  *)
(* VMs, and an output path that is a file or cannot be created, abort the  *)
(* whole batch with a non-zero status before any VM is generated.          *)
(***************************************************************************)
FatalConfigurationWritesNothing ==
    (sid = None /\ Len(posts) > 0) \/ dir \in {"file", "uncreatable"} =>
        /\ attempted = {}
        /\ files = << >>
        /\ Exited => outcome # "return 0"

(***************************************************************************)
(* Spec section 6: a service VM is required only when post-launched VMs    *)
(* exist; a scenario without either leaves main with status 0.            *)
(***************************************************************************)
NoPostVmsNeedNoServiceVm ==
    Exited /\ Len(posts) = 0 => outcome = "return 0"

(***************************************************************************)
(* Spec section 7 makes pool exhaustion fatal for that VM only, and        *)
(* section 5 makes the VMs' generations independent: unless the batch is  *)
(* aborted before any VM, every selected VM is generated.                  *)
(***************************************************************************)
EverySelectedVmGenerated ==
    Exited /\ outcome # "return 1" =>
        \A j \in SelectedPosts : posts[j].id \in attempted

\* The device-model parameters of a written file, in the order of its
\* dm_params array.
ParamsOf(f) == [m \in 1 .. Len(SelectSeq(f, LAMBDA l : l.sec = "param")) |->
                   SelectSeq(f, LAMBDA l : l.sec = "param")[m].item]

\* The line just before the closing ")" of the dm_params array.
LastArrayLine(f) ==
    LET close == CHOOSE m \in DOMAIN f : f[m].sec = "dm_params_close"
    IN  f[close - 1]

(***************************************************************************)
(* Spec 4.4 item 12: acrn-dm takes the last bare token of its parameters   *)
(* as the VM's name.  Every file written is launch_user_vm_id<id - service *)
(* id>.sh of a selected VM, and its dm_params array ends with that VM's    *)
(* name, after every device and option parameter.                          *)
(***************************************************************************)
ScriptsOfSelectedVms ==
    \A n \in DOMAIN files :
        \E j \in SelectedPosts :
            /\ n = posts[j].id - sid
            /\ LastArrayLine(files[n]).sec = "param"
            /\ LastArrayLine(files[n]).item = Plain(VmName(posts[j].vm), << >>)

(***************************************************************************)
(* Spec section 5: each VM owns its allocator and document.  The pool      *)
(* devices of every written script have slots 3, 4, ... from a fresh pool, *)
(* and no script carries the name of another VM.                           *)
(***************************************************************************)
ScriptsIndependent ==
    \A n \in DOMAIN files :
        LET params == ParamsOf(files[n])
            used == SelectSeq(params, IsPoolDevice)
        IN  /\ \A m \in DOMAIN used : used[m].vbdf.slot = m + 2
            /\ \A j, l \in DOMAIN posts :
                  /\ VmName(posts[j].vm) # VmName(posts[l].vm)
                  /\ Contains(params, Plain(VmName(posts[j].vm), << >>))
                  => ~Contains(params, Plain(VmName(posts[l].vm), << >>))

(***************************************************************************)
(* Refinement: main implements Batch.  The checks phase lasts until the    *)
(* VMs are selected; the targets are the file indices of the selected VMs  *)
(* in scenario order; those of the VMs before the loop index have been     *)
(* written; the disk is the set of files; status 0 is success and any     *)
(* other end a failure.                                                    *)
(***************************************************************************)
SelectedInOrder == SelectSeq([j \in DOMAIN posts |-> j], LAMBDA j : posts[j].id \in selected)
Targets == [m \in DOMAIN SelectedInOrder |-> posts[SelectedInOrder[m]].id - sid]

BatchRun == INSTANCE Batch WITH
    phase <- CASE dpc \in {"service_vm", "mkdir", "select"} -> "check"
               [] dpc \in {"loop", "gen"} -> "writing"
               [] outcome = "return 0" -> "succeeded"
               [] OTHER -> "failed",
    targets <- Targets,
    written <- SubSeq(Targets, 1, Cardinality({m \in DOMAIN SelectedInOrder : SelectedInOrder[m] < k})),
    disk <- DOMAIN files

\* main writes the selected VMs' scripts in order and succeeds only when all are written.
ImplementsBatch == BatchRun!BatchSpec

(***************************************************************************)
(* --user_vmid n asks for the script of user VM n: main selects the VM      *)
(* whose scenario id is n + service_vm_id and names its file               *)
(* launch_user_vm_id<id - service_vm_id>.sh.  When that VM exists and main *)
(* returns 0, launch_user_vm_id<n>.sh holds that VM's script, the one      *)
(* ending with its name.                                                   *)
(***************************************************************************)
RequestedScriptWritten ==
    (/\ Exited /\ outcome = "return 0" /\ user # 0
     /\ \E m \in DOMAIN posts : posts[m].id = user + sid)
    => /\ user \in DOMAIN files
       /\ \E m \in DOMAIN posts :
            /\ posts[m].id = user + sid
            /\ LastArrayLine(files[user]).sec = "param"
            /\ LastArrayLine(files[user]).item = Plain(VmName(posts[m].vm), << >>)
=============================================================================
