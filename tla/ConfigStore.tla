----------------------------- MODULE ConfigStore -----------------------------
(***************************************************************************)
(* Changing the settings of a running process: EvolutionConfigService      *)
(* (config/services.py) keeps the training settings in one override file,  *)
(* ControlPlaneConfigService (config/control_plane.py) keeps the models    *)
(* and providers in a public file and the keys in a local one.             *)
(*                                                                         *)
(* Each request is served by a thread of the web server: it reads the      *)
(* files, merges its patch, copies the files aside, writes them, records   *)
(* the change, and takes the copies back when a step raises.  No lock is   *)
(* held, and the copies have one name per file.                            *)
(*                                                                         *)
(* Abstracted: a file that is emptied and not yet written reads as no      *)
(* settings; the validation of a patch comes before every step and leaves  *)
(* nothing behind, so only valid patches are made.                         *)
(***************************************************************************)
EXTENDS Naturals, Sequences, FiniteSets, Functions

CONSTANTS Workers,     \* threads of the web server
          Training,    \* keys of EDITABLE_KEYS
          Public,      \* keys of the control plane that are no secrets
          Secret,      \* keys of _SECRET_KEYS
          Values,      \* values other than the empty one
          Overlap,     \* TRUE: requests may be served at the same time
          MaxPatches,  \* bound: requests
          MaxRaises    \* bound: steps that raise

ASSUME ConfigAssumption ==
  /\ Overlap \in BOOLEAN /\ MaxPatches \in Nat /\ MaxRaises \in Nat
  /\ Training \intersect (Public \union Secret) = {} /\ Public \intersect Secret = {}
  /\ "absent" \notin Training \union Public \union Secret   \* no file looks like Missing

Empty == "empty"        \* "", [], {} or None, which no file keeps
Preset == "preset"      \* what is in force without a file
Files == {"override", "public", "local"}

VARIABLES file,     \* file name -> the settings in it, or Missing
          copy,     \* the same for the .bak files
          live,     \* the live config: Training -> values
          cached,   \* load_control_plane's cache, or Missing
          request,      \* thread -> the request it serves
          stored,   \* key -> the value of the last request recorded, until a
                    \* rollback that raises loses it
          patches, raises

configVars == <<file, copy, live, cached, request, stored, patches, raises>>

Missing == [absent |-> TRUE]
Nothing == <<>>
Waiting == [pc |-> "idle", svc |-> "none", patch |-> <<>>, merged |-> <<>>, left |-> <<>>,
            mine |-> {}, before |-> <<>>]

Keys == Training \union Public \union Secret
In(f) == IF file[f] = Missing THEN Nothing ELSE file[f]

\* The files of a service, in the order they are written.
FilesOf(svc) == IF svc = "evolution" THEN <<"override">> ELSE <<"public", "local">>

Over(base, top) == [k \in DOMAIN base \union DOMAIN top |-> IF k \in DOMAIN top THEN top[k] ELSE base[k]]

\* load_control_plane: the default payload under the public and the local file.
LoadPlane == Over(Over([k \in Public \union Secret |-> Preset], In("public")), In("local"))

\* The keys a file holds.
Own(f) == CASE f = "override" -> Training [] f = "public" -> Public [] OTHER -> Secret

\* What a file keeps of the merged settings: _split_secret_tree drops the empty
\* values that are no secrets.
Kept(f, merged) ==
  Restrict(merged, {k \in Own(f) \intersect DOMAIN merged : f # "public" \/ merged[k] # Empty})

\* The settings a new process would run with.
AfterRestart == Over([k \in Training |-> Preset], In("override"))

-----------------------------------------------------------------------------
ConfigInit ==
  /\ file \in [Files -> {Missing, Nothing}]
  /\ file["local"] = Missing
  /\ copy = [f \in Files |-> Missing]
  /\ live = [k \in Training |-> Preset]
  /\ cached = Missing
  /\ request = [w \in Workers |-> Waiting]
  /\ stored = Nothing
  /\ patches = 0 /\ raises = 0

Resting(w) == request[w].pc = "idle"
Unserved == Overlap \/ \A w \in Workers : Resting(w)

PatchEvolution_Anew(w, patch) ==
  /\ Resting(w) /\ Unserved /\ patches < MaxPatches
  /\ patches' = patches + 1
  /\ live' = Over(live, patch)
  /\ request' = [request EXCEPT ![w] = [Waiting EXCEPT !.pc = "copy", !.svc = "evolution", !.patch = patch,
                                               !.merged = patch, !.before = file,
                                               !.left = FilesOf("evolution")]]
  /\ UNCHANGED <<file, copy, cached, stored, raises>>

\* apply_patch of the training settings: the live config is changed first,
\* then the override file is read.
PatchEvolution(w, patch) ==
  /\ Resting(w) /\ Unserved /\ patches < MaxPatches
  /\ patches' = patches + 1
  /\ live' = Over(live, patch)
  /\ request' = [request EXCEPT ![w] = [Waiting EXCEPT !.pc = "copy", !.svc = "evolution", !.patch = patch,
                                               !.merged = Over(In("override"), patch), !.before = file,
                                               !.left = FilesOf("evolution")]]
  /\ UNCHANGED <<file, copy, cached, stored, raises>>

\* apply_patch of the control plane: get_payload clears the cache and loads it.
PatchPlane(w, patch) ==
  /\ Resting(w) /\ Unserved /\ patches < MaxPatches
  /\ patches' = patches + 1
  /\ cached' = LoadPlane
  /\ request' = [request EXCEPT ![w] = [Waiting EXCEPT !.pc = "copy", !.svc = "control", !.patch = patch,
                                               !.merged = Over(LoadPlane, patch), !.before = file,
                                               !.left = FilesOf("control")]]
  /\ UNCHANGED <<file, copy, live, stored, raises>>

\* A component asks for its model: the cache is filled when it is empty.
ReadPlane ==
  /\ cached = Missing
  /\ cached' = LoadPlane
  /\ UNCHANGED <<file, copy, live, request, stored, patches, raises>>

\* Goes on to the next file, or to the next phase when there is none.
Onward(j, next) == [j EXCEPT !.pc = IF Len(j.left) = 1 THEN next ELSE @,
                             !.left = IF Len(j.left) = 1 THEN FilesOf(j.svc) ELSE Tail(@)]

\* shutil.copy2 of a file that exists to its .bak.
CopyAside(w) ==
  LET j == request[w]  f == Head(j.left)
  IN /\ j.pc = "copy"
     /\ copy' = IF file[f] = Missing THEN copy ELSE [copy EXCEPT ![f] = file[f]]
     /\ request' = [request EXCEPT ![w] = [Onward(j, "open") EXCEPT !.mine = IF file[f] = Missing THEN @ ELSE @ \union {f}]]
     /\ UNCHANGED <<file, live, cached, stored, patches, raises>>

\* write_text empties the file first.  (The local file always has a key: the
\* default payload has one.)
OpenFile(w) ==
  /\ request[w].pc = "open"
  /\ file' = [file EXCEPT ![Head(request[w].left)] = Nothing]
  /\ request' = [request EXCEPT ![w].pc = "fill"]
  /\ UNCHANGED <<copy, live, cached, stored, patches, raises>>

FillFile(w) ==
  LET j == request[w]  f == Head(j.left)
  IN /\ j.pc = "fill"
     /\ file' = [file EXCEPT ![f] = Kept(f, j.merged)]
     /\ request' = [request EXCEPT ![w] = [Onward(j, "record") EXCEPT !.pc = IF Len(j.left) = 1 THEN "record" ELSE "open"]]
     /\ UNCHANGED <<copy, live, cached, stored, patches, raises>>

\* The snapshot and the audit line are written; the control plane's cache is
\* cleared.  The request will be answered with success.
RecordChange(w) ==
  LET j == request[w]
  IN /\ j.pc = "record"
     /\ request' = [request EXCEPT ![w].pc = "clean"]
     /\ cached' = IF j.svc = "control" THEN Missing ELSE cached
     /\ stored' = Over(stored, j.patch)
     /\ UNCHANGED <<file, copy, live, patches, raises>>

\* A copy cannot be made: the request ends before it wrote anything, and the
\* copies made so far, the torn one among them, are left.
CopyRaises(w) ==
  LET f == Head(request[w].left)
  IN /\ request[w].pc = "copy" /\ file[f] # Missing
     /\ raises < MaxRaises
     /\ raises' = raises + 1
     /\ \E torn \in {copy[f], Nothing, file[f]} : copy' = [copy EXCEPT ![f] = torn]
     /\ request' = [request EXCEPT ![w] = Waiting]
     /\ UNCHANGED <<file, live, cached, stored, patches>>

\* A write, the snapshot or the audit line raises.
StepRaises(w) ==
  /\ request[w].pc \in {"open", "fill", "record"}
  /\ raises < MaxRaises
  /\ raises' = raises + 1
  /\ request' = [request EXCEPT ![w].pc = "restore", ![w].left = FilesOf(request[w].svc)]
  /\ UNCHANGED <<file, copy, live, cached, stored, patches>>

Restore_FirstOnly(w) ==
  LET j == request[w]  f == FilesOf(j.svc)[1]
  IN /\ j.pc = "restore"
     /\ file' = IF f \in j.mine /\ copy[f] # Missing THEN [file EXCEPT ![f] = copy[f]] ELSE file
     /\ request' = [request EXCEPT ![w].pc = "cleanfail"]
     /\ UNCHANGED <<copy, live, cached, stored, patches, raises>>

\* The except clause: a copy this request made, and that is still there, is
\* taken back.
Restore(w) ==
  LET j == request[w]  f == Head(j.left)
  IN /\ j.pc = "restore"
     /\ file' = IF f \in j.mine /\ copy[f] # Missing THEN [file EXCEPT ![f] = copy[f]] ELSE file
     /\ request' = [request EXCEPT ![w] = Onward(j, "cleanfail")]
     /\ UNCHANGED <<copy, live, cached, stored, patches, raises>>

\* Taking a copy back raises: the file stays as it was, is torn or is back, and
\* the copies after it are not taken back.  The acknowledged settings of the
\* files that differ from what the request found are lost.
RestoreRaises(w) ==
  LET j == request[w]  f == Head(j.left)
      lost == {g \in Range(j.left) : j.before[g] # Missing /\ file'[g] # j.before[g]}
  IN /\ j.pc = "restore" /\ f \in j.mine /\ copy[f] # Missing
     /\ raises < MaxRaises
     /\ raises' = raises + 1
     /\ \E torn \in {file[f], Nothing, copy[f]} : file' = [file EXCEPT ![f] = torn]
     /\ stored' = Restrict(stored, {k \in DOMAIN stored : \A g \in lost : k \notin Own(g)})
     /\ request' = [request EXCEPT ![w].pc = "cleanspoilt", ![w].left = FilesOf(j.svc)]
     /\ UNCHANGED <<copy, live, cached, patches>>

Cleaning == {"clean", "cleanfail", "cleanspoilt"}

\* The finally clause: the copies are unlinked, and the request is answered.
CleanUp(w) ==
  LET j == request[w]  f == Head(j.left)
  IN /\ j.pc \in Cleaning
     /\ copy' = IF f \in j.mine THEN [copy EXCEPT ![f] = Missing] ELSE copy
     /\ request' = [request EXCEPT ![w] = IF Len(j.left) = 1 THEN Waiting ELSE [j EXCEPT !.left = Tail(@)]]
     /\ UNCHANGED <<file, live, cached, stored, patches, raises>>

\* Unlinking a copy raises: it and the copies after it are left, and the request
\* is answered with an error, the change of a "clean" one being made all the same.
CleanUpRaises(w) ==
  /\ request[w].pc \in Cleaning /\ Head(request[w].left) \in request[w].mine
  /\ raises < MaxRaises
  /\ raises' = raises + 1
  /\ request' = [request EXCEPT ![w] = Waiting]
  /\ UNCHANGED <<file, copy, live, cached, stored, patches>>

JobStep(w) ==
  \/ CopyAside(w) \/ OpenFile(w) \/ FillFile(w) \/ RecordChange(w)
  \/ StepRaises(w) \/ Restore(w) \/ CleanUp(w)
  \/ CopyRaises(w) \/ RestoreRaises(w) \/ CleanUpRaises(w)

Patches(keys) == UNION {[ks -> Values \union {Empty}] : ks \in SUBSET keys \ {{}}}

ConfigNext ==
  \/ \E w \in Workers, p \in Patches(Training) : PatchEvolution(w, p)
  \/ \E w \in Workers, p \in Patches(Public \union Secret) : PatchPlane(w, p)
  \/ ReadPlane
  \/ \E w \in Workers : JobStep(w)

ConfigSpec == ConfigInit /\ [][ConfigNext]_configVars
-----------------------------------------------------------------------------
(* Properties *)

Quiet == \A w \in Workers : Resting(w)

\* A patch answered with success is in the file, whatever other requests did since,
\* failed ones included, unless one could not take its copy back: "evolution_config
\* 修改后会更新 live config，并写入 runtime/state/evolution.runtime.yaml"
\* (docs/CONFIG_GOVERNANCE.md:90).  So with the control plane, for values it can keep: an
\* empty one is dropped, and the default comes back.
AcknowledgedIsStored ==
  Quiet => /\ \A k \in DOMAIN stored \intersect Training : AfterRestart[k] = stored[k]
           /\ \A k \in DOMAIN stored \ Training : stored[k] # Empty => LoadPlane[k] = stored[k]

\* A request that failed leaves each file that was there as it found it, unless a
\* copy could not be taken back either: the copies are made before the first write,
\* taken back before they are unlinked, and no file of the two is forgotten.
FailedLeavesFiles ==
  \A w \in Workers : request[w].pc = "cleanfail" =>
    \A f \in Range(FilesOf(request[w].svc)) :
      request[w].before[f] # Missing => file[f] = request[w].before[f]
=============================================================================
