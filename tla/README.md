# TLA+ models of the ACRN launch-script generator

The models cover `src/misc/config_tools/launch_config/launch_cfg_gen.py`.
This tool reads a board XML and a scenario XML. For every post-launched VM it
writes a shell script (`launch_user_vm_id<N>.sh`) that starts the VM with the
`acrn-dm` device model. They also cover the parts of `src/doc/conf.py`, the
Sphinx configuration of the documentation, that compute values: the version
parsed from the hypervisor's `VERSION` file and the version the site publishes.

## The system

| Part | Code (lines) | State | Operations |
|---|---|---|---|
| Virtual BDF allocator | `VirtualBDFAllocator` (24-48) | `_free_slots`, the list 3..29 | `get_virtual_bdf`: slot 2 for a VGA device or an `igd` option, otherwise `pop(0)`, which raises `IndexError` when the list is empty |
| Passthrough option resolver | `PassThruDeviceOptions` (50-71) | `_options`: class-code prefix → option list | `__init__` (adds `enable_ptm` for Ethernet when PTM is `y`), `_add_option`, `get_option` |
| Launch script document | `LaunchScript` (73-177) | descriptors, init and deinit commands, device-model parameters, one allocator and one resolver | `add_vm_descriptor`, `add_init_command`, `add_deinit_command`, `add_plain_dm_parameter`, `add_dynamic_dm_parameter` (each list deduplicates), `add_virtual_device`, `add_passthru_device`, `has_dm_parameter` (never called), `to_string`, `write_to_file` |
| Per-VM generation | `generate_for_one_vm` (191-311), `cpu_id_to_lapic_id` (179-189) | one `LaunchScript` | a fixed sequence of blocks and `for` loops over the VM's scenario entries |
| Driver | `main` (313-348) | the output directory and its files | checks for a service VM, creates the directory, and generates and writes one script per selected VM |
| Documentation configuration | `doc/conf.py` (23-25, 88-114, 145-170, 179-187) | `RELEASE`, `version`, `release`, `html_theme`, `current_version` | reads `$RELEASE`, parses `VERSION` inside `try`/`finally`, picks the theme, and chooses the published version from `tags.has('release')` |

How the parts interact: `main` calls `generate_for_one_vm` once per VM. Each
call builds a fresh `LaunchScript`, so a script owns its own allocator and its
own resolver. `add_virtual_device` and `add_passthru_device` take slots from
the allocator, and `add_passthru_device` takes options from the resolver.
Every exception propagates up to `main` and ends the whole run.

What makes this code hard to get right:

- Many steps share one slot pool, and it can run out.
- The lists deduplicate, so unrelated entries can suppress each other.
- Some emitted commands come in pairs: mount with unmount, and the polling
  flag before the first virtio device.
- Several XPath queries and comparisons silently never match.

## Modules

| Module | Models | How state and actions correspond |
|---|---|---|
| `VBDFAllocator` | `VirtualBDFAllocator` | `GetVirtualBDF(free, device, options)` returns `[exc, vbdf, free]`. `FreeSlotsInit` is the pool `__init__` builds. |
| `PassthruOptions` | `PassThruDeviceOptions` | The dict is held as its items. `AddOption` stores `None` where the code stores the result of `list.append`. `GetOption` folds over the prefixes and returns `TypeError` when it would `extend(None)`. |
| `LaunchScript` | the `LaunchScript` class | A script is a record with one field per attribute plus `exc`, the exception a method raised. Every mutating method is an operator on that record. Parameter text is abstracted to records `[cmd, vbdf, what, opts]`: two texts are equal exactly when their records are equal. `Render` is `to_string`: the output lines in order, each abstracted to its section (template, banner, descriptor, init, the `dm_params=(` line, param, `)`, echo, invoke, deinit) and its item. |
| `GenerateForOneVM` | `generate_for_one_vm` | The variables are `pc` (the current block), `vm` (the XPath results for the VM, fixed for the run), `script`, and `i` (the index of a loop). There is one action per block (`VmTypes`, `Resources`, `GuestBios`, `PlatformDevices`, `ConsoleVuart`, `Miscellaneous`, `ConcludeWithVmName`) and one per loop iteration (`Ivshmem`, `VuartConnection`, `UsbXhci`, `VirtioInput`, `VirtioConsole`, `VirtioNetwork`, `VirtioBlock`, `Passthru`). `Step` performs a block of statements: an exception any of them raised moves `pc` to `"raised"` (the function is left), and the return moves it to `"done"`. |
| `Batch` | what `main` promises (spec 6 and 7) | An abstract specification over `phase` (check, writing, succeeded, failed), `targets`, `written` and `disk`: abort with nothing written, or write the targets one by one in order, each once, and succeed only when all are written. |
| `LaunchCfgGen` | `main` | The inputs of one invocation are chosen by `DriverInit` and stay fixed: `posts` (the post-launched VMs as `[id, vm]`), `sid` (the service VM id or `None`) and `user` (`--user_vmid`). The state is `dir` (the output path: absent, a directory, a read-only directory, a file, or uncreatable), `selected` (`post_vm_ids`), `k` (the loop index), `files` (N of `launch_user_vm_id<N>.sh` → `Render` of the document written), `attempted`, and `outcome` (what `main` returns or the exception that ends it). The actions are `ServiceVmCheck`, `MakeOutDir`, `SelectVms`, `NextPostVm`, `WriteScript` and `Crash`; `WriteScript` stores the file through `WriteToFile`, which is `write_to_file`. `Generate` runs one step of `GenerateForOneVM` while `dpc = "gen"`, so this module composes the two. |
| `DocConf` | `doc/conf.py` | `cpc` is the statement reached. `file`, `env`, `tagRelease` and `rtd` are the inputs, fixed by `ConfInit`. A `VERSION` line is a record `[eqs, key, val, commentEqs]`: the number of `=` before the first `#`, the stripped text around it, and the number of `=` after the `#`. The file is a sequence of such records, or `Missing`. The actions are `ReadReleaseEnv`, `OpenVersionFile`, `ReadVersionLine` (one loop iteration, including the early `break`), `Finally`, `SelectTheme` and `PublishedVersion`. Versions are TLA+ strings built with `\o` as the code builds them with `+`. |
| `MC_GenerateForOneVM` | model for TLC | A board with a GPU at 00:02.0, an Ethernet controller at 01:00.0 and a USB controller at 00:14.0. The entry `00:1A.0` is written with an upper-case hex digit. It defines the scenario sets of the runs. |

Data abstractions: names, paths and images are model values. `os.path.basename`
is the constant `Basename`, and absolute image paths are the set
`AbsoluteImages`. A `pci_devs` entry is either the numbers its hex digits spell
together with a lower-case flag, or the value `NotBDF`. An `apic_id` text is
the sequence of its hex digits' values, most significant first. Any `lxml` element
compared with a `str` is unequal (`ElementEqualsText == FALSE`), because that
is what the Python comparison does.

## Runs

The driver runs use `MC_LaunchCfgGen`, `docs_version` uses `MC_DocConf`, and
the others use `MC_GenerateForOneVM`. Every run sets `CHECK_DEADLOCK FALSE`
because the program really does stop: generation at `done` or `raised`, `main`
at `exit`, and `conf.py` at `done` or `failed`.

- **generation** (pass). Scenarios: VM type standard, RTVM or absent; with and
  without CPUs, bootloader, console vuart, input, network and block devices
  (including two images on one partition); and up to two `pci_devs` entries
  taken from GPU, NIC, upper-case `00:1A.0` and malformed. Checks:
  - `TypeOK`
  - `AddCpusListsApicIds`: `add_cpus` lists the apic id of every pcpu of the
    VM that the board defines, once each and in increasing numeric order.
    The board's apic ids are hex texts (`9` and `0x12`); `HexValue` is
    `int(text, 16)` by Horner's rule, and the property compares with
    `HexRef`, the number whose base-16 digits the text spells.
  - `PoolSlotsAccounted`: the slots of the pool devices are 3, 4, … in order,
    and `_free_slots` holds exactly the rest.
  - `DistinctVirtualSlots`
  - `StormMonitorIffNonGpuPassthru`
  - `VirtioPollPrecedesVirtio`
  - `MountsUnmounted`
  - `OnlyPoolExhaustionRaises`: `IndexError` happens exactly when the pool is
    empty. The scenarios include 25 to 27 `usb_xhci` entries plus nothing, a
    NIC or the GPU, with one ivshmem region and the console, so 26 to 28
    devices need a pool slot and the pool runs out at exactly the 28th.
- **driver** (pass, `MC_LaunchCfgGen`). Inputs:
  - zero to three post-launched VMs, in either id order, one of which
    exhausts the pool;
  - a service VM at id 0 or 1, or none;
  - `--user_vmid` of 0, 1, 2 or 5 (5 selects nothing);
  - every state of the output path.

  Checks:
  - `FatalConfigurationWritesNothing`: spec 7's batch-fatal cases generate no
    VM and do not end with status 0.
  - `ScriptsOfSelectedVms`: each file is the rendered script of a selected VM,
    named `id - service id`, and the last line of its `dm_params` array is
    that VM's name.
  - `ScriptsIndependent`: each file's pool starts at slot 3 and carries no other
    VM's name.
  - `RequestedScriptWritten`: with `--user_vmid n` and a VM whose id is
    `n + service_vm_id`, a successful `main` writes `launch_user_vm_idn.sh`,
    and its last `dm_params` line is that VM's name. The offset is added when
    selecting and subtracted when naming the file; dropping either breaks it.
  - `ImplementsBatch`: `main` refines `Batch`. The mapping sends the service-VM,
    mkdir and selection steps to `check`, the loop to `writing`, status 0 to
    `succeeded` and every other end to `failed`; `targets` to the indices of the
    selected VMs in scenario order, `written` to the prefix of them the loop
    has passed, and `disk` to the files present. It covers status 0 meaning
    every selected VM was written.
- **docs_version** (pass, `MC_DocConf`). Inputs: every `VERSION` file of up to
  four lines drawn from nine line shapes (each key with a value, an empty
  value, a comment holding `=`, a commented-out assignment, a line with two
  `=`, another key, and a repeated `MAJOR_VERSION`), or no file; `$RELEASE`
  unset, empty or set; both build kinds; the theme present or not. Checks:
  - `ConfTypeOK`
  - `VersionFromVersionFile`: for every file, the loop's result equals
    `RefRelease`, a definition of the version written without the loop: the
    file is read up to `StopLine`, the first line by which all three keys
    have a non-empty value, and each key takes its last assignment up to
    there. A repeated key after the break is therefore ignored, and one
    before it overrides. The published `current_version` is then that
    version, or `$RELEASE` in a release build where it is set, or `latest`.
- Violation runs: each checks one property that the spec states and that the
  code breaks. They are listed under "findings" in PROJECT.json.
  - `ptm_ethernet`: `TypeError` from `_add_option` storing `None`.
  - `two_gpus`: two VGA devices both on slot 2.
  - `gpu_vf`: the dead `igd-vf` branch.
  - `ivshmem`: the XPath matches the literal `'vm_name'`.
  - `vuart_connections`: an element is compared with `"pci"`.
  - `mount_basename`: two devices with one basename share one mount variable.
  - `absolute_image`: `os.path.join` drops the mount directory.
  - `no_service_vm`: `int(None)` crashes when there is neither a service VM
    nor a post-launched VM.
  - `batch_abort`: pool exhaustion in one VM ends the process before later VMs
    are generated.

Why the bounds are enough:

- The pool's only edge is at 27 allocations. The `generation` run reaches it from
  both sides (26 and 27 slots used, then exhaustion).
- Every deduplication interaction needs only two equal entries, and the
  scenario lists reach length 2.
- The GPU rule (slot 2 and no storm monitor) needs one VGA device and one other
  device, both of which are in the `generation` run.
- The `VERSION` loop's early `break` needs three assignments followed by one
  more line, which four lines allow. The comment and `=` rules each need one
  line.

Fairness: `generate_for_one_vm`, `main` and `conf.py` each run on one thread
with no waits, so the specifications carry weak fairness on their next-state
relations. No liveness property is checked: each program is a bounded
sequence of statements and loops over finite lists, so its termination says
nothing a reviewer would doubt; the runs check safety and the `Batch`
refinement.

## Not modelled, and the plan

- **A missing `VERSION` file (conf.py line 93).** `open` raises inside a `try`
  that has no `except`. `finally` then sets `version` to `"unknown"` and prints
  the warning, and the exception propagates, so loading the configuration
  fails and the fallback is never used. The model takes this path (`cpc`
  ends at `"failed"`), but no run states the opposite: the runs are spent on
  the launch generator's findings.
- **The rest of `conf.py`.** Constant settings that Sphinx reads, such as
  `html_sidebars`, the theme options and `html_context['versions']`. They have
  no behaviour.
- **The resolver's shallow copy (line 60).** It is harmless here. The seed
  table is empty, and `_add_option` replaces a value rather than mutating it.
- **Next:**
  - `ivshmem` and `vuart` scenarios in the driver, across several VMs.
- **Two more divergences, seen while modelling and left without a run:**
  - `-m` is emitted even when `memory/whole` is absent, as `-m NoneM`
    (line 214).
  - The SSRAM guard compares an element with `"y"`, so `--ssram` is never
    emitted (line 216).

  The model keeps both behaviours (`Resources`). Each is a single-guard slip
  that one unit test shows.
- **Not planned:** the command-line parsing and the `lxml` facade, whose
  results are the scenario records.
