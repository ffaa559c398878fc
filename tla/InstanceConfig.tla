--------------------------- MODULE InstanceConfig ---------------------------
(***************************************************************************)
(* The operator's overrides of an instance (instance_config/snapshot.py,   *)
(* effective.py, admin/economics_service.py): which provider is chosen,    *)
(* whether the second one is offered, and their keys.  A patch decides on  *)
(* rows it has read without a lock, one statement after the other, writes  *)
(* its own row, commits, and reloads the snapshot of its process; a loop   *)
(* in every process reloads the snapshots of the others.                   *)
(***************************************************************************)
EXTENDS Naturals

CONSTANTS
  Processes,
  Operators,     \* requests in flight, one patch at a time each
  Wishes,        \* what operators ask for: items with values
  Starts,        \* what earlier patches have left in the tables
  EnvProvider, EnvKeys, EnvNamed,   \* LLM_PROVIDER, the keys of .env, LLM_PROVIDERS
  MaxSeconds,    \* bound: the last second of the clock
  MaxPatches,    \* bound: patches begun
  MaxFailures,   \* bound: failed reloads and restarts
  Unset

Providers == {"openai", "anthropic"}
Other(q) == IF q = "openai" THEN "anthropic" ELSE "openai"

\* A credential is named by its provider here.
Settings == {"provider", "dual"}
Items == Settings \cup Providers

ValuesOf(i) ==
  CASE i = "provider" -> Providers
    [] i = "dual" -> {"on", "off"}
    [] OTHER -> {"key", "blank", Unset}

VARIABLES
  overlay,     \* committed admin_settings and admin_credentials
  patch,       \* what each request has in hand
  snapshot,    \* the snapshot a process serves from
  reload,      \* the refresher of a process
  serving,     \* processes past their initial load
  second,      \* the clock, to the precision of updated_at
  begun, failures,
  commits,     \* history: patches accepted so far, which numbers them
  promised,    \* history: the last patch of an item a process has answered and reloaded for
  raced,       \* history: a patch was written after a row it had decided on changed
  uninformed,  \* history: patches that replaced what their operator had not seen
  torn,        \* history: processes whose snapshot was read across a commit
  outrun       \* history: processes whose snapshot was reloaded across another reload

configVars == <<overlay, patch, snapshot, reload, serving, second, begun, failures, commits, promised,
                raced, uninformed, torn, outrun>>

-----------------------------------------------------------------------------
(* What the overrides mean.                                                *)

\* at is updated_at; by, history, the number of the patch that wrote or
\* removed the row last.
EnvRow == [value |-> Unset, at |-> 0, by |-> 0]
Env == [i \in Items |-> EnvRow]

OverrideRow == [value : Providers \cup {"on", "off", "key", "blank", Unset}, at : Nat, by : Nat]
Overlays == [Items -> OverrideRow]
Fitting(o) == \A i \in Items : o[i].value \in ValuesOf(i) \cup {Unset}

Chosen(o) == IF o["provider"].value = Unset THEN EnvProvider ELSE o["provider"].value
BothOffered(o) ==
  IF o["dual"].value = Unset THEN Other(Chosen(o)) \in EnvNamed ELSE o["dual"].value = "on"
HasKey(o, q) == IF o[q].value = Unset THEN q \in EnvKeys ELSE o[q].value = "key"
Required(o) == {Chosen(o)} \cup (IF BothOffered(o) THEN {Other(Chosen(o))} ELSE {})
Servable(o) == \A q \in Required(o) : HasKey(o, q)

ASSUME ConfigAssumption ==
  /\ EnvProvider \in Providers /\ EnvKeys \subseteq Providers /\ EnvNamed \subseteq Providers
  /\ EnvProvider \in EnvKeys /\ EnvNamed \subseteq EnvKeys
  /\ \A o \in Starts : o \in Overlays /\ Fitting(o) /\ Servable(o) /\ \A i \in Items : o[i].by = 0
  /\ \A w \in Wishes : w.item \in Items /\ w.value \in ValuesOf(w.item)
  /\ MaxSeconds \in Nat \ {0, 1} /\ MaxPatches \in Nat /\ MaxFailures \in Nat
  /\ Unset \notin Processes \cup Providers \cup {"on", "off", "key", "blank"}

\* _check_infra_invariant and _check_credential_invariant, of the rows with the patch applied.
Allowed(i, o) ==
  CASE i = "provider" -> HasKey(o, Chosen(o))
    [] i = "dual" -> o["dual"].value = "on" => HasKey(o, Other(Chosen(o)))
    [] OTHER -> i \in Required(o) => HasKey(o, i)

-----------------------------------------------------------------------------

\* page is the row of the operator's page where the patch names its version; mine is the row as
\* the patch writes it.
NoPatch == [stage |-> "none", proc |-> Unset, item |-> "provider", page |-> EnvRow, own |-> EnvRow,
            view |-> Env, mine |-> EnvRow, crossed |-> FALSE]
Rested == [busy |-> FALSE, keys |-> Env, crossed |-> FALSE]

PatchInHand ==
  [stage : {"none", "own", "settings", "keys", "write", "refresh", "reread"},
   proc : Processes \cup {Unset}, item : Items, page : OverrideRow, own : OverrideRow,
   view : Overlays, mine : OverrideRow, crossed : BOOLEAN]
ReloadUnderWay == [busy : BOOLEAN, keys : Overlays, crossed : BOOLEAN]

\* What is in the tables is of an earlier second.
ConfigInit ==
  /\ overlay \in Starts
  /\ patch = [r \in Operators |-> NoPatch]
  /\ snapshot = [p \in Processes |-> overlay]
  /\ reload = [p \in Processes |-> Rested]
  /\ serving = Processes
  /\ second = 2 /\ begun = 0 /\ failures = 0 /\ commits = 0
  /\ promised = [p \in Processes |-> [i \in Items |-> 0]]
  /\ raced = FALSE /\ uninformed = {} /\ torn = {} /\ outrun = {}

Untouched == UNCHANGED <<snapshot, reload, serving, second, begun, failures, promised, torn, outrun>>
Uncommitted == UNCHANGED <<overlay, commits, raced, uninformed>>

\* A refused patch changes nothing, nor does one that says what the row says already.
Ends(r) == patch' = [patch EXCEPT ![r] = NoPatch]

\* SELECT of some rows: what the others say is as read before.
Reading(r, items) == [i \in Items |-> IF i \in items THEN overlay[i] ELSE patch[r].view[i]]

-----------------------------------------------------------------------------
(* A patch.                                                                *)

\* The operator's page is the list of any process; a page without a date makes no condition.
BeginPatch(r, p, w, q, conditional) ==
  LET page == snapshot[q][w.item] IN
  /\ patch[r].stage = "none" /\ p \in serving /\ q \in serving /\ begun < MaxPatches
  /\ conditional => w.item \in Settings /\ page.at # 0
  /\ patch' = [patch EXCEPT ![r] =
       [NoPatch EXCEPT !.stage = IF w.item \in Settings THEN "own" ELSE "settings", !.proc = p,
                       !.item = w.item, !.mine = [value |-> w.value, at |-> 0, by |-> 0],
                       !.page = IF conditional THEN page ELSE EnvRow]]
  /\ begun' = begun + 1
  /\ Uncommitted /\ UNCHANGED <<snapshot, reload, serving, second, failures, promised, torn, outrun>>

\* The date that decides is that of the row read, not of the process's snapshot.
VersionOf(r) == overlay[patch[r].item].at

ReadSetting(r) ==
  LET i == patch[r].item IN
  /\ patch[r].stage = "own" /\ i \in Settings
  /\ IF patch[r].page.at \notin {0, VersionOf(r)}
     THEN Ends(r)
     ELSE patch' = [patch EXCEPT ![r] = [@ EXCEPT !.stage = "settings", !.own = overlay[i]]]
  /\ Uncommitted /\ Untouched

ReadSettings(r) ==
  /\ patch[r].stage = "settings"
  /\ patch' = [patch EXCEPT ![r] = [@ EXCEPT !.stage = "keys", !.view = Reading(r, Settings)]]
  /\ Uncommitted /\ Untouched

\* Variant: the snapshot of the process.
DecidedOnSnapshot(r, view) == snapshot[patch[r].proc]

\* What a patch decides on: the rows as read.
Decided(r, view) == view

Patched(o, i, v) == [o EXCEPT ![i].value = v]

\* The last read before the decision.
ReadKeys(r) ==
  LET i == patch[r].item
      v == patch[r].mine.value
      view == Reading(r, Providers) IN
  /\ patch[r].stage = "keys"
  /\ IF ~Allowed(i, Patched(Decided(r, view), i, v)) \/ (i \in Settings /\ patch[r].own.value = v)
     THEN Ends(r)
     ELSE patch' = [patch EXCEPT ![r] =
            [@ EXCEPT !.stage = IF i \in Settings THEN "write" ELSE "own",
                      !.view = view, !.mine.at = IF i \in Settings THEN second ELSE 0]]
  /\ Uncommitted /\ Untouched

\* Of a credential the own row is read after the decision.
ReadCredential(r) ==
  LET i == patch[r].item IN
  /\ patch[r].stage = "own" /\ i \in Providers
  /\ IF overlay[i].value = patch[r].mine.value
     THEN Ends(r)
     ELSE patch' = [patch EXCEPT ![r] = [@ EXCEPT !.stage = "write", !.own = overlay[i]]]
  /\ Uncommitted /\ Untouched

Inserts(r) == patch[r].own.value = Unset
Removes(r) == patch[r].mine.value = Unset

\* What a patch that names a version replaces without its operator having seen it: not in the
\* same second, and not between its read and its write.
Blind(r) ==
  LET was == overlay[patch[r].item] IN
  patch[r].page.at # 0 /\ was = patch[r].own /\ was.by # patch[r].page.by /\ was.at # patch[r].page.at

\* An INSERT meets a row that has come since (409), an UPDATE one that has gone (500); the
\* DELETE of a row that has gone is none.
Collides(r) == ~Removes(r) /\ (Inserts(r) <=> overlay[patch[r].item].value # Unset)

Collide(r) ==
  /\ patch[r].stage = "write" /\ Collides(r)
  /\ Ends(r)
  /\ Uncommitted /\ Untouched

\* Flush, audit and commit: who waits for the row lock of the flush goes on after the commit.
\* A date that is the one loaded is left out of the UPDATE.
CommitPatch(r) ==
  LET i == patch[r].item
      row == [patch[r].mine EXCEPT !.by = commits + 1] IN
  /\ patch[r].stage = "write" /\ ~Collides(r)
  /\ overlay' = [overlay EXCEPT ![i] = [row EXCEPT !.at = IF @ = patch[r].own.at THEN overlay[i].at ELSE @]]
  /\ commits' = commits + 1
  /\ raced' = (raced \/ \E j \in Items \ {i} : patch[r].view[j] # overlay[j])
  /\ uninformed' = IF Blind(r) THEN uninformed \cup {commits + 1} ELSE uninformed
  /\ patch' = [patch EXCEPT ![r] =
       [NoPatch EXCEPT !.stage = "refresh", !.proc = patch[r].proc, !.item = i, !.mine = row,
                       !.own = patch[r].own]]
  /\ Untouched

-----------------------------------------------------------------------------
(* The snapshot of a process.                                              *)

\* From here on whatever reload of p is under way is an older one.
Crossed(p, f) ==
  [r \in Operators |-> IF f[r].proc = p /\ f[r].stage \in {"refresh", "reread"}
                     THEN [f[r] EXCEPT !.crossed = TRUE] ELSE f[r]]

Install(p, rows, crossed) ==
  /\ snapshot' = [snapshot EXCEPT ![p] = rows]
  /\ torn' = IF rows = overlay THEN torn \ {p} ELSE torn \cup {p}
  /\ outrun' = IF crossed THEN outrun \cup {p} ELSE outrun \ {p}

\* The request reloads the snapshot of its own process, in its own session.
RefreshKeys(r) ==
  /\ patch[r].stage = "refresh"
  /\ patch' = [patch EXCEPT ![r] = [@ EXCEPT !.stage = "reread", !.view = Reading(r, Providers)]]
  /\ Uncommitted /\ Untouched

\* A row it has updated it still holds and is not loaded again; the others are.
Kept(r, rows) ==
  LET i == patch[r].item IN
  IF rows[i].value # Unset /\ ~Removes(r) /\ ~Inserts(r) THEN [rows EXCEPT ![i] = patch[r].mine] ELSE rows

RefreshSettings(r) ==
  LET p == patch[r].proc IN
  /\ patch[r].stage = "reread"
  /\ Install(p, Kept(r, Reading(r, Settings)), patch[r].crossed)
  /\ promised' = [promised EXCEPT ![p][patch[r].item] = IF @ < patch[r].mine.by THEN patch[r].mine.by ELSE @]
  /\ patch' = Crossed(p, [patch EXCEPT ![r] = NoPatch])
  /\ reload' = [reload EXCEPT ![p].crossed = reload[p].busy]
  /\ Uncommitted /\ UNCHANGED <<serving, second, begun, failures>>

\* A failed refresh leaves the snapshot as it is; the patch is answered as accepted.
RefreshFails(r) ==
  /\ patch[r].stage \in {"refresh", "reread"} /\ failures < MaxFailures
  /\ failures' = failures + 1
  /\ Ends(r)
  /\ Uncommitted /\ UNCHANGED <<snapshot, reload, serving, second, begun, promised, torn, outrun>>

KeyRows == [i \in Items |-> IF i \in Providers THEN overlay[i] ELSE EnvRow]

\* Variant: the start of the process only.
LoadKeysOnce(p) ==
  /\ ~reload[p].busy /\ p \notin serving
  /\ reload' = [reload EXCEPT ![p] = [Rested EXCEPT !.busy = TRUE, !.keys = KeyRows]]
  /\ Uncommitted /\ UNCHANGED <<patch, snapshot, serving, second, begun, failures, promised, torn, outrun>>

\* refresh_snapshot_from_pool, at the start of the process and then in its loop.
LoadKeys(p) ==
  /\ ~reload[p].busy
  /\ reload' = [reload EXCEPT ![p] = [Rested EXCEPT !.busy = TRUE, !.keys = KeyRows]]
  /\ Uncommitted /\ UNCHANGED <<patch, snapshot, serving, second, begun, failures, promised, torn, outrun>>

LoadSettings(p) ==
  /\ reload[p].busy
  /\ Install(p, [i \in Items |-> IF i \in Settings THEN overlay[i] ELSE reload[p].keys[i]], reload[p].crossed)
  /\ patch' = Crossed(p, patch)
  /\ reload' = [reload EXCEPT ![p] = Rested]
  /\ serving' = serving \cup {p}
  /\ Uncommitted /\ UNCHANGED <<second, begun, failures, promised>>

LoadFails(p) ==
  /\ reload[p].busy /\ failures < MaxFailures
  /\ failures' = failures + 1
  /\ reload' = [reload EXCEPT ![p] = Rested]
  /\ serving' = serving \cup {p}
  /\ Uncommitted /\ UNCHANGED <<patch, snapshot, second, begun, promised, torn, outrun>>

\* A process dies with its requests and starts with an empty snapshot; it does not serve
\* before its first load has ended.
Restart(p) ==
  /\ p \in serving /\ failures < MaxFailures
  /\ failures' = failures + 1
  /\ snapshot' = [snapshot EXCEPT ![p] = Env]
  /\ reload' = [reload EXCEPT ![p] = Rested]
  /\ serving' = serving \ {p}
  /\ patch' = [r \in Operators |-> IF patch[r].proc = p THEN NoPatch ELSE patch[r]]
  /\ promised' = [promised EXCEPT ![p] = [i \in Items |-> 0]]
  /\ torn' = torn \ {p} /\ outrun' = outrun \ {p}
  /\ Uncommitted /\ UNCHANGED <<second, begun>>

Elapse ==
  /\ second < MaxSeconds /\ second' = second + 1
  /\ Uncommitted /\ UNCHANGED <<patch, snapshot, reload, serving, begun, failures, promised, torn, outrun>>

-----------------------------------------------------------------------------

Handle(r) ==
  \/ ReadSetting(r) \/ ReadSettings(r) \/ ReadKeys(r) \/ ReadCredential(r) \/ Collide(r) \/ CommitPatch(r)
  \/ RefreshKeys(r) \/ RefreshSettings(r)

Refresh(p) == LoadKeys(p) \/ LoadSettings(p)

ConfigNext ==
  \/ \E r \in Operators :
       \/ \E p, q \in Processes, w \in Wishes, conditional \in BOOLEAN : BeginPatch(r, p, w, q, conditional)
       \/ Handle(r) \/ RefreshFails(r)
  \/ \E p \in Processes : Refresh(p) \/ LoadFails(p) \/ Restart(p)
  \/ Elapse

\* The loop of a process does not stop (overrides_refresh_loop suppresses every exception).
ConfigFairness == \A p \in Processes : WF_configVars(Refresh(p))

ConfigSpec == ConfigInit /\ [][ConfigNext]_configVars /\ ConfigFairness

-----------------------------------------------------------------------------
(* Properties *)

ConfigTypeOK ==
  /\ overlay \in Overlays /\ Fitting(overlay) /\ snapshot \in [Processes -> Overlays]
  /\ patch \in [Operators -> PatchInHand] /\ reload \in [Processes -> ReloadUnderWay]
  /\ serving \subseteq Processes /\ torn \subseteq Processes /\ outrun \subseteq Processes
  /\ second \in 2..MaxSeconds /\ begun \in 0..MaxPatches /\ failures \in 0..MaxFailures
  /\ commits \in Nat /\ promised \in [Processes -> [Items -> Nat]]
  /\ raced \in BOOLEAN /\ uninformed \subseteq Nat

\* Patches that do not overlap, in whichever processes, leave a chosen provider with its key
\* (ADR-116, _check_infra_invariant and _check_credential_invariant), and no process serves from
\* a mixture without one, unless it was read across a commit.
ProvidersHaveKeys ==
  ~raced => Servable(overlay) /\ \A p \in Processes \ torn : Servable(snapshot[p])

\* An operator whose patch was answered sees it, or a later one, in that process
\* (_commit_and_refresh), whatever loops and other requests reload there one after the other.
OwnPatchIsSeen ==
  \A p \in Processes \ outrun : \A i \in Items : snapshot[p][i].by >= promised[p][i]

\* A patch that names a version replaces what its operator saw, unless two were accepted in one
\* second or the other came between its read and its write (_check_version).
PatchesAreInformed == uninformed = {}

\* The three together.
ConfigIsKept == ConfigTypeOK /\ ProvidersHaveKeys /\ OwnPatchIsSeen /\ PatchesAreInformed

\* Once the operators rest and reloads succeed, every process serves from the tables
\* (overrides_refresh_loop: the others take a patch up within the window).
ProcessesCatchUp == <>[](\A p \in Processes : snapshot[p] = overlay)
=============================================================================
