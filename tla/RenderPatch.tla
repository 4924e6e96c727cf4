----------------------------- MODULE RenderPatch -----------------------------
(***************************************************************************)
(* libero_mjx/render_kernel_patch.py and render_cube_patch.py: every       *)
(* process that imports libero_mjx edits the installed mujoco_warp sources *)
(* in place, file by file, with a marker, a .orig backup and no lock, and  *)
(* only then imports mujoco_warp.  The scripts patch as well, by a copy of *)
(* the module they load by path: before libero_mjx is imported where it    *)
(* can only be found later, after it where it is installed.                *)
(* Processes may run together, be killed anywhere, and mujoco_warp may be  *)
(* reinstalled between two runs.                                           *)
(*                                                                         *)
(* A file is the set of edits it has, or Torn: truncated by open(.., "w")  *)
(* and not (or not coherently) written, so that no anchor is in it.        *)
(***************************************************************************)
EXTENDS Naturals, Sequences

CONSTANTS
  Procs,          \* processes that import libero_mjx
  NotLoaded,      \* mujoco_warp is not imported yet
  Versions,       \* versions of the mujoco_warp sources that may be installed
  Torn,           \* an unusable text
  NoFile,         \* a backup that does not exist
  Outdated,       \* a backup of another version's source
  MaxCrashes,     \* bound: processes killed
  CrashInWrite,   \* a process may be killed between truncate and write
  MaxReinstalls   \* bound: reinstallations of mujoco_warp

\* "io" is the file that builds RenderContext: render_util.py or io.py.
Files == {"types", "io", "render"}
Edits == {"shadow", "haze", "cube"}
Counts == 0 .. 3

\* A legacy version has no shadow_light_fraction, and the anchor of every edit;
\* of the current ones only the anchors of the cube edits are known.
ASSUME VersionAssumption ==
  /\ Versions \subseteq [legacy : BOOLEAN, offers : SUBSET Edits]
  /\ \A v \in Versions :
       "cube" \in v.offers /\ (v.legacy => v.offers = Edits)

ASSUME RenderAssumption ==
  /\ CrashInWrite \in BOOLEAN
  /\ MaxCrashes \in Nat /\ MaxReinstalls \in Nat
  /\ Torn \notin [Edits -> Counts]
  /\ NoFile \notin [Edits -> Counts] \cup {Torn}
  /\ Outdated \notin [Edits -> Counts] \cup {Torn, NoFile}

VARIABLES
  version,     \* the installed one of Versions
  file,        \* the installed sources
  bak,         \* their .orig backups
  pc,          \* where each process is
  step,        \* the entry of Plan it is at
  text,        \* the text it is about to write
  copy,        \* the text it is about to back up
  result,      \* how patch_render_kernel ended: "none", "ok" or "raised"
  program,     \* what the process runs
  pass,        \* which call of patch_render_kernel it is at
  loaded,      \* the sources as it imported them
  cut,         \* history: the files whose backup was cut short by a kill
  crashes, reinstalls

runVars == <<program, pass, loaded>>
procVars == <<pc, step, text, copy, result, runVars>>
vars == <<version, file, bak, procVars, cut, crashes, reinstalls>>

\* How often each edit is in a text; 3 stands for more often than twice.
Texts == [Edits -> Counts] \cup {Torn}
Pristine == [e \in Edits |-> 0]

Has(x, e) == x # Torn /\ x[e] > 0
\* The edit is not in the text and its anchor is.
Anchored(x, e) == x # Torn /\ x[e] = 0 /\ e \in version.offers

\* A text with the edit applied once more.
Apply(x, e) ==
  IF x = Torn THEN Torn ELSE [x EXCEPT ![e] = IF @ < 3 THEN @ + 1 ELSE 3]

\* The reads of patch_render_kernel, in order: the file, the edit, and what
\* the code requires of the text it read.
\*   branch       leave the legacy edits out of a version that has the parameter
\*   ifAnchored   edit, or go on quietly when the edit or the damage is there
\*   gate         go on into the haze edits, or leave them all out
\*   always       edit any text that has the anchor, marked or not, or raise
\*   mustAnchor   edit a text without the edit, or raise
\*   rewrite      replace and write back without a test
\*   find         the file to edit is found by its anchor, or raise
\*   unlessMarked skip a marked text, edit another, or raise
Entry(do, f, e) == [do |-> do, file |-> f, edit |-> e]

Branch     == Entry("branch",     "io",     "shadow")
ShadowEdit == Entry("ifAnchored", "render", "shadow")
HazeGate   == Entry("gate",       "render", "haze")
HazeTypes  == Entry("always",     "types",  "haze")
HazeIo     == Entry("mustAnchor", "io",     "haze")
HazeRender == Entry("rewrite",    "render", "haze")
CubeFind   == Entry("find",         "io",     "cube")
CubeTypes  == Entry("unlessMarked", "types",  "cube")
CubeIo     == Entry("unlessMarked", "io",     "cube")
CubeRender == Entry("unlessMarked", "render", "cube")

\* Mistaken variants: the marked file written first, a file edited without a
\* look at its marker.
LegacyPlan_MarkerFirst ==
  <<Branch, ShadowEdit, HazeGate, HazeRender, HazeTypes, HazeIo>>
CubePlan_Unmarked ==
  <<CubeFind, CubeTypes, Entry("always", "io", "cube"), CubeRender>>

LegacyPlan == <<Branch, ShadowEdit, HazeGate, HazeTypes, HazeIo, HazeRender>>
CubePlan == <<CubeFind, CubeTypes, CubeIo, CubeRender>>

Plan == LegacyPlan \o CubePlan
AfterHaze == Len(LegacyPlan) + 1

Now(p) == Plan[step[p]]

\* Within a call, and within the writes of an entry.
Active == {"read", "exists", "bakread", "baktruncate", "bakwrite", "truncate",
           "write"}
Writing == Active \ {"read"}

\* The calls of patch_render_kernel a program makes, in order.  Where one
\* raises, libero_mjx/__init__ warns, and a script ends; a mistaken variant
\* has the scripts warn as well.
Passes_AllWarn == [library       |-> <<"warns">>,
                   path_first    |-> <<"warns", "warns">>,
                   package_first |-> <<"warns", "warns">>]
Passes == [library       |-> <<"warns">>,
           path_first    |-> <<"ends", "warns">>,
           package_first |-> <<"warns", "ends">>]

TypeOK ==
  /\ version \in Versions
  /\ file \in [Files -> Texts]
  /\ bak \in [Files -> Texts \cup {NoFile, Outdated}]
  /\ pc \in [Procs -> Active \cup {"idle", "patched", "run"}]
  /\ \A p \in Procs : pc[p] # "idle" => step[p] \in 1 .. Len(Plan) + 1
  /\ text \in [Procs -> Texts] /\ copy \in [Procs -> Texts]
  /\ \A p \in Procs :
       pc[p] \in Writing /\ Now(p).do # "rewrite" => text[p] # Torn
  /\ result \in [Procs -> {"none", "ok", "raised"}]
  /\ program \in [Procs -> DOMAIN Passes]
  /\ \A p \in Procs : pass[p] \in 1 .. Len(Passes[program[p]])
  /\ loaded \in [Procs -> [Files -> Texts] \cup {NotLoaded}]
  /\ cut \in SUBSET Files
  /\ crashes \in 0 .. MaxCrashes /\ reinstalls \in 0 .. MaxReinstalls

Init ==
  /\ version \in Versions
  /\ file = [f \in Files |-> Pristine]
  /\ bak = [f \in Files |-> NoFile]
  /\ pc = [p \in Procs |-> "idle"]
  /\ step = [p \in Procs |-> 1]
  /\ text = [p \in Procs |-> Pristine]
  /\ copy = [p \in Procs |-> Pristine]
  /\ result = [p \in Procs |-> "none"]
  /\ program = [p \in Procs |-> "library"]
  /\ pass = [p \in Procs |-> 1]
  /\ loaded = [p \in Procs |-> NotLoaded]
  /\ cut = {} /\ crashes = 0 /\ reinstalls = 0

-----------------------------------------------------------------------------
\* A call of patch_render_kernel.
Call(p, n) ==
  /\ pass' = [pass EXCEPT ![p] = n]
  /\ pc' = [pc EXCEPT ![p] = "read"]
  /\ step' = [step EXCEPT ![p] = 1]
  /\ result' = [result EXCEPT ![p] = "none"]

Start(p) ==
  /\ pc[p] = "idle"
  /\ \E g \in DOMAIN Passes : program' = [program EXCEPT ![p] = g]
  /\ Call(p, 1)
  /\ UNCHANGED <<version, file, bak, text, copy, loaded, cut, crashes,
                 reinstalls>>

\* What the code does with the text x it read at entry s of the plan.
Findable_Once(x) == Anchored(x, "cube")
Findable(x) == x # Torn

\* _has_shadow_light_fraction finds the parameter in the text as it is now.
HasParameter(x) == ~version.legacy /\ x # Torn

\* Where the anchor is missing a ValueError leaves patch_render_kernel.
EditOrRaise_Edit(x, e) == "edit"
EditOrRaise(x, e) == IF Anchored(x, e) THEN "edit" ELSE "raise"

Decision(s, x) ==
  CASE s.do = "branch"     -> IF HasParameter(x) THEN "nohaze" ELSE "next"
    [] s.do = "ifAnchored" -> IF Anchored(x, s.edit) THEN "edit" ELSE "next"
    [] s.do = "gate"       -> IF Anchored(x, s.edit) THEN "next" ELSE "nohaze"
    [] s.do = "always"     -> IF x # Torn /\ s.edit \in version.offers
                              THEN "edit" ELSE "raise"
    [] s.do = "mustAnchor" -> EditOrRaise(x, s.edit)
    [] s.do = "rewrite"    -> "edit"
    [] s.do = "find"       -> IF Findable(x) THEN "next" ELSE "raise"
    [] s.do = "unlessMarked" /\ Has(x, s.edit) -> "next"
    [] s.do = "unlessMarked" /\ ~Has(x, s.edit) -> EditOrRaise(x, s.edit)

\* Go to entry n of the plan, or end without an exception.
GoTo(p, n) ==
  /\ step' = [step EXCEPT ![p] = n]
  /\ pc' = [pc EXCEPT ![p] = IF n > Len(Plan) THEN "patched" ELSE "read"]
  /\ result' = [result EXCEPT ![p] = IF n > Len(Plan) THEN "ok" ELSE @]

\* Most edits destroy their own anchor, and replace() without an anchor
\* changes nothing; the haze fields and the cube argument leave theirs there.
\* (The marker that HazeRender appends to such a text, torn or marked already,
\* changes nothing a later read tells apart.)
Survives(s) == <<s.edit, s.file>> \in {<<"haze", "types">>, <<"cube", "io">>}
Edited(s, x) ==
  IF Survives(s) \/ Anchored(x, s.edit) THEN Apply(x, s.edit) ELSE x

ReadAndEdit(p) ==
  /\ pc[p] = "read"
  /\ Decision(Now(p), file[Now(p).file]) = "edit"
  /\ text' = [text EXCEPT ![p] = Edited(Now(p), file[Now(p).file])]
  /\ pc' = [pc EXCEPT ![p] = "exists"]
  /\ UNCHANGED <<version, file, bak, step, copy, result, runVars, cut,
                 crashes, reinstalls>>

ReadAndSkip(p) ==
  LET d == Decision(Now(p), file[Now(p).file]) IN
  /\ pc[p] = "read"
  /\ d \in {"next", "nohaze"}
  /\ GoTo(p, IF d = "next" THEN step[p] + 1 ELSE AfterHaze)
  /\ UNCHANGED <<version, file, bak, text, copy, runVars, cut, crashes,
                 reinstalls>>

\* The ValueError leaves patch_render_kernel.
ReadAndRaise(p) ==
  /\ pc[p] = "read"
  /\ Decision(Now(p), file[Now(p).file]) = "raise"
  /\ pc' = [pc EXCEPT ![p] = "patched"]
  /\ result' = [result EXCEPT ![p] = "raised"]
  /\ UNCHANGED <<version, file, bak, step, text, copy, runVars, cut, crashes,
                 reinstalls>>

\* _write: back the file up unless a backup exists, then overwrite it.
NeedsBackup_Always(f) == TRUE
NeedsBackup(f) == bak[f] = NoFile

BackupExists(p) ==
  /\ pc[p] = "exists"
  /\ pc' = [pc EXCEPT ![p] =
              IF NeedsBackup(Now(p).file) THEN "bakread" ELSE "truncate"]
  /\ UNCHANGED <<version, file, bak, step, text, copy, result, runVars, cut,
                 crashes, reinstalls>>

BackupRead(p) ==
  /\ pc[p] = "bakread"
  /\ copy' = [copy EXCEPT ![p] = file[Now(p).file]]
  /\ pc' = [pc EXCEPT ![p] = "baktruncate"]
  /\ UNCHANGED <<version, file, bak, step, text, result, runVars, cut,
                 crashes, reinstalls>>

BackupTruncate(p) ==
  /\ pc[p] = "baktruncate"
  /\ bak' = [bak EXCEPT ![Now(p).file] = Torn]
  /\ pc' = [pc EXCEPT ![p] = "bakwrite"]
  /\ UNCHANGED <<version, file, step, text, copy, result, runVars, cut,
                 crashes, reinstalls>>

\* Two writers of one file overlay their texts.
Written(old, new) == IF old = Torn THEN {new} ELSE {new, Torn}

BackupWrite(p) ==
  /\ pc[p] = "bakwrite"
  /\ \E x \in Written(bak[Now(p).file], copy[p]) :
       bak' = [bak EXCEPT ![Now(p).file] = x]
  /\ pc' = [pc EXCEPT ![p] = "truncate"]
  /\ UNCHANGED <<version, file, step, text, copy, result, runVars, cut,
                 crashes, reinstalls>>

Truncate(p) ==
  /\ pc[p] = "truncate"
  /\ file' = [file EXCEPT ![Now(p).file] = Torn]
  /\ pc' = [pc EXCEPT ![p] = "write"]
  /\ UNCHANGED <<version, bak, step, text, copy, result, runVars, cut,
                 crashes, reinstalls>>

Write(p) ==
  /\ pc[p] = "write"
  /\ \E x \in Written(file[Now(p).file], text[p]) :
       file' = [file EXCEPT ![Now(p).file] = x]
  /\ GoTo(p, step[p] + 1)
  /\ UNCHANGED <<version, bak, text, copy, runVars, cut, crashes, reinstalls>>

\* Between the calls, or after the only one, mujoco_warp is imported from the
\* files; after the last the program runs.
Import(p) ==
  LET passes == Passes[program[p]] IN
  /\ pc[p] = "patched"
  /\ result[p] = "raised" => passes[pass[p]] = "warns"
  /\ loaded' = [loaded EXCEPT ![p] = IF @ = NotLoaded THEN file ELSE @]
  /\ IF pass[p] < Len(passes)
     THEN Call(p, pass[p] + 1)
     ELSE pc' = [pc EXCEPT ![p] = "run"] /\ UNCHANGED <<step, result, pass>>
  /\ UNCHANGED <<version, file, bak, text, copy, program, cut, crashes,
                 reinstalls>>

\* The program ends, or the exception of a script's own call ends it.
Exit(p) ==
  /\ \/ pc[p] = "run"
     \/ /\ pc[p] = "patched" /\ result[p] = "raised"
        /\ Passes[program[p]][pass[p]] = "ends"
  /\ pc' = [pc EXCEPT ![p] = "idle"]
  /\ loaded' = [loaded EXCEPT ![p] = NotLoaded]
  /\ UNCHANGED <<version, file, bak, step, text, copy, result, program, pass,
                 cut, crashes, reinstalls>>

Crash(p) ==
  /\ crashes < MaxCrashes
  /\ pc[p] \in Active
  /\ pc[p] \in {"write", "bakwrite"} => CrashInWrite
  /\ crashes' = crashes + 1
  /\ cut' = IF pc[p] = "bakwrite" THEN cut \cup {Now(p).file} ELSE cut
  /\ pc' = [pc EXCEPT ![p] = "idle"]
  /\ loaded' = [loaded EXCEPT ![p] = NotLoaded]
  /\ UNCHANGED <<version, file, bak, step, text, copy, result, program, pass,
                 reinstalls>>

\* pip installs some version of the sources and leaves the backups.
Reinstall ==
  /\ reinstalls < MaxReinstalls
  /\ \A p \in Procs : pc[p] = "idle"
  /\ reinstalls' = reinstalls + 1
  /\ version' \in Versions
  /\ file' = [f \in Files |-> Pristine]
  /\ bak' = [f \in Files |-> IF bak[f] = NoFile THEN NoFile ELSE Outdated]
  /\ UNCHANGED <<procVars, cut, crashes>>

ProcStep(p) ==
  \/ Start(p)
  \/ ReadAndEdit(p) \/ ReadAndSkip(p) \/ ReadAndRaise(p)
  \/ BackupExists(p) \/ BackupRead(p) \/ BackupTruncate(p) \/ BackupWrite(p)
  \/ Truncate(p) \/ Write(p)
  \/ Import(p) \/ Exit(p) \/ Crash(p)

Next == Reinstall \/ \E p \in Procs : ProcStep(p)

Spec == Init /\ [][Next]_vars

-----------------------------------------------------------------------------
(* Properties *)

\* Every edit the version needs is in its file: those behind the branch, or
\* those of the cube textures only.
Needed == (IF version.legacy THEN 2 ELSE AfterHaze) .. Len(Plan)
Complete == \A i \in Needed : Has(file[Plan[i].file], Plan[i].edit)

\* A call that ends without an exception leaves sources that carry every edit,
\* whatever earlier runs were killed in the middle of: the marker that makes a
\* run skip is written only when the rest is already there.
SilentRunIsComplete ==
  \A p \in Procs : pc[p] = "patched" /\ result[p] = "ok" => Complete

\* No run finds the sources in a state it cannot complete: not when no run was
\* killed, and on the current layout not after kills either, unless one of
\* them left a source truncated.
EveryRunCompletes ==
  \A p \in Procs :
    /\ pc[p] = "patched"
    /\ crashes = 0 \/ (~version.legacy /\ \A f \in Files : file[f] # Torn)
    => result[p] = "ok" /\ Complete

\* No edit is ever applied to a file that already has it.
Twice(x) == x # Torn /\ \E e \in Edits : x[e] > 1
AppliedOnce == \A f \in Files : ~Twice(file[f])

\* The same where runs are killed on the current layout, whose edits look for a
\* marker in the very file they change; unless a kill truncated the file that
\* tells the layout, which sends the runs after it through the legacy edits.
AppliedOnceUnlessKilled ==
  crashes = 0 \/ (~version.legacy /\ file["io"] # Torn) => AppliedOnce

\* A file that is patched, or being overwritten, can be restored from its
\* backup, also after runs that were killed, except one that was killed while it
\* wrote that backup; a reinstalled version has only the backup of the one
\* before it.
AlwaysRestorable ==
  reinstalls = 0 =>
    \A f \in Files : file[f] # Pristine => bak[f] = Pristine \/ f \in cut

\* The sources a running program has imported are those on disk, so that what
\* Warp extracts from the files later are the lines of its functions: no call
\* changes anything after the import, and no script goes on from a call that
\* might.
LoadedIsOnDisk == \A p \in Procs : pc[p] = "run" => loaded[p] = file
=============================================================================
