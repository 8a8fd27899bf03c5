------------------------------ MODULE DataChanges ------------------------------
(***************************************************************************)
(* Data-change scripts: runDataChanges in packages/db/src/data-change.ts.  *)
(* Runners, of two releases perhaps, work through the scripts in order     *)
(* under a session lock; a script changes its rows batch by batch, each    *)
(* batch in a transaction with the cursor it leaves; runners fail and die  *)
(* between any two statements.                                             *)
(***************************************************************************)
EXTENDS Integers, FiniteSets

CONSTANTS
  Scripts,     \* 1 .. n, in the order of their names
  Items,       \* rows a script works through, 1 .. m, by primary key
  Runners,
  ChecksumOf,  \* per runner and script: the checksum its release has
  NoRunner,
  MaxDropped   \* bound on runners that fail or die

ASSUME ChangeConstants ==
  /\ IsFiniteSet(Scripts) /\ Scripts = 1 .. Cardinality(Scripts)
  /\ IsFiniteSet(Items) /\ Items = 1 .. Cardinality(Items)
  /\ NoRunner \notin Runners
  /\ \A r \in Runners, s \in Scripts : ChecksumOf[r][s] # "none"
  /\ MaxDropped \in Nat

VARIABLES
  ledger,   \* _data_changes: per script its checksum, cursor and completion
  changed,  \* how often each row of each script was changed
  schema,   \* per script: do the columns it expects exist
  holder,   \* the runner whose session holds the advisory lock
  at,       \* per runner: the script it is at, 0 before the first
  cursor,   \* per runner: the cursor it goes on from, or NotRead
  by,       \* history: per script, the checksums it was run with
  dropped   \* runners that failed or died

changeVars == <<ledger, changed, schema, holder, at, cursor, by, dropped>>

NotRead  == -1
Last     == Cardinality(Items)
NoRow    == [checksum |-> "none", cursor |-> 0, completed |-> FALSE]
Checksums == {ChecksumOf[r][s] : r \in Runners, s \in Scripts}

ChangeTypeOK ==
  /\ ledger \in [Scripts -> [checksum : Checksums \cup {"none"},
                             cursor : 0 .. Last, completed : BOOLEAN]]
  /\ changed \in [Scripts \X Items -> Nat]
  /\ schema \in [Scripts -> {"there", "dropped"}]
  /\ holder \in Runners \cup {NoRunner}
  /\ at \in [Runners -> 0 .. Cardinality(Scripts) + 1]
  /\ cursor \in [Runners -> {NotRead} \cup 0 .. Last]
  /\ by \in [Scripts -> SUBSET Checksums]
  /\ dropped \in Nat

ChangeInit ==
  /\ ledger = [s \in Scripts |-> NoRow]
  /\ changed = [x \in Scripts \X Items |-> 0]
  /\ schema = [s \in Scripts |-> "there"]
  /\ holder = NoRunner
  /\ at = [r \in Runners |-> 0]
  /\ cursor = [r \in Runners |-> NotRead]
  /\ by = [s \in Scripts |-> {}]
  /\ dropped = 0

Acquire(r) ==
  /\ holder = NoRunner /\ at[r] = 0
  /\ holder' = r
  /\ at' = [at EXCEPT ![r] = 1]
  /\ UNCHANGED <<ledger, changed, schema, cursor, by, dropped>>

NextScript(r) ==
  /\ at' = [at EXCEPT ![r] = @ + 1]
  /\ cursor' = [cursor EXCEPT ![r] = NotRead]

Reading(r) == holder = r /\ at[r] \in Scripts /\ cursor[r] = NotRead

SkipCompleted(r) ==
  /\ Reading(r) /\ ledger[at[r]].completed
  /\ NextScript(r)
  /\ UNCHANGED <<ledger, changed, schema, holder, by, dropped>>

(* Mutant: the checksum of a started script is not compared. *)
MutStartScript(r) ==
  /\ Reading(r) /\ ~ledger[at[r]].completed
  /\ LET s == at[r] IN
       /\ schema[s] = "there"
       /\ ledger' = [ledger EXCEPT ![s].checksum =
            IF @ = "none" THEN ChecksumOf[r][s] ELSE @]
       /\ cursor' = [cursor EXCEPT ![r] = ledger[s].cursor]
  /\ UNCHANGED <<changed, schema, holder, at, by, dropped>>

(* The ledger row is there or made, its checksum is the runner's own, and  *)
(* the columns exist; otherwise the runner throws (Fail).                  *)
StartScript(r) ==
  /\ Reading(r) /\ ~ledger[at[r]].completed
  /\ LET s == at[r] IN
       /\ ledger[s].checksum \in {"none", ChecksumOf[r][s]}
       /\ schema[s] = "there"
       /\ ledger' = [ledger EXCEPT ![s].checksum = ChecksumOf[r][s]]
       /\ cursor' = [cursor EXCEPT ![r] = ledger[s].cursor]
  /\ UNCHANGED <<changed, schema, holder, at, by, dropped>>

(* retiredBy: the columns are gone with a recorded migration. *)
RetireScript(r) ==
  /\ Reading(r) /\ ~ledger[at[r]].completed
  /\ LET s == at[r] IN
       /\ ledger[s].checksum \in {"none", ChecksumOf[r][s]}
       /\ schema[s] = "dropped"
       /\ ledger' = [ledger EXCEPT ![s].checksum = ChecksumOf[r][s],
                                   ![s].completed = TRUE]
  /\ NextScript(r)
  /\ UNCHANGED <<changed, schema, holder, by, dropped>>

(* Mutant: the rows commit, and the cursor in a transaction after them. *)
MutRunBatch(r) ==
  /\ holder = r /\ at[r] \in Scripts /\ cursor[r] # NotRead
  /\ schema[at[r]] = "there"
  /\ LET s == at[r]  done == cursor[r] = Last IN
       /\ changed' = [x \in Scripts \X Items |->
            IF x = <<s, cursor[r] + 1>> THEN changed[x] + 1 ELSE changed[x]]
       /\ by' = [by EXCEPT ![s] = @ \cup {ChecksumOf[r][s]}]
       /\ \E kept \in BOOLEAN : ledger' = [ledger EXCEPT
            ![s].cursor = IF kept /\ ~done THEN cursor[r] + 1 ELSE @,
            ![s].completed = done]
       /\ IF done THEN NextScript(r)
          ELSE cursor' = [cursor EXCEPT ![r] = @ + 1] /\ UNCHANGED at
  /\ UNCHANGED <<schema, holder, dropped>>

(* One batch and its cursor, or the last one and the completion.  A script *)
(* changes the rows after its cursor, here one to a batch.                 *)
RunBatch(r) ==
  /\ holder = r /\ at[r] \in Scripts /\ cursor[r] # NotRead
  /\ schema[at[r]] = "there"
  /\ LET s == at[r]  done == cursor[r] = Last IN
       /\ changed' = [x \in Scripts \X Items |->
            IF x = <<s, cursor[r] + 1>> THEN changed[x] + 1 ELSE changed[x]]
       /\ by' = [by EXCEPT ![s] = @ \cup {ChecksumOf[r][s]}]
       /\ ledger' = [ledger EXCEPT
            ![s].cursor = IF done THEN @ ELSE cursor[r] + 1,
            ![s].completed = done]
       /\ IF done THEN NextScript(r)
          ELSE cursor' = [cursor EXCEPT ![r] = @ + 1] /\ UNCHANGED at
  /\ UNCHANGED <<schema, holder, dropped>>

LetGoOf(r) ==
  /\ holder' = NoRunner
  /\ at' = [at EXCEPT ![r] = 0]
  /\ cursor' = [cursor EXCEPT ![r] = NotRead]

Finish(r) ==
  /\ holder = r /\ at[r] = Cardinality(Scripts) + 1
  /\ LetGoOf(r)
  /\ UNCHANGED <<ledger, changed, schema, by, dropped>>

(* A refusal or an error unlocks in the finally; a crash ends the session. *)
(* What refuses a script has inserted its ledger row by then.              *)
Fail(r) ==
  /\ holder = r /\ dropped < MaxDropped
  /\ dropped' = dropped + 1
  /\ \/ UNCHANGED ledger
     \/ /\ Reading(r) /\ ledger[at[r]] = NoRow
        /\ ledger' = [ledger EXCEPT ![at[r]].checksum = ChecksumOf[r][at[r]]]
  /\ LetGoOf(r)
  /\ UNCHANGED <<changed, schema, by>>

(* The migration its retiredBy names drops the columns, once every row has *)
(* been changed.                                                           *)
Migrate(s) ==
  /\ schema[s] = "there"
  /\ \A i \in Items : changed[s, i] > 0
  /\ schema' = [schema EXCEPT ![s] = "dropped"]
  /\ UNCHANGED <<ledger, changed, holder, at, cursor, by, dropped>>

ChangeNext ==
  \/ \E r \in Runners :
       \/ Acquire(r) \/ SkipCompleted(r) \/ StartScript(r) \/ RetireScript(r)
       \/ RunBatch(r) \/ Finish(r) \/ Fail(r)
  \/ \E s \in Scripts : Migrate(s)

ChangeSpec == ChangeInit /\ [][ChangeNext]_changeVars

------------------------------------------------------------------------------
(* Properties *)

(* "A crash between batches loses no progress: the next run resumes from   *)
(* the last committed cursor": however often runners fail and overlap,     *)
(* every row is changed once, by one version of its script, in order, and  *)
(* a script that is complete has changed all of them and those before it.  *)
ChangedOnce ==
  \A s \in Scripts :
    /\ \A i \in Items : changed[s, i] = IF i <= ledger[s].cursor THEN 1 ELSE 0
    /\ Cardinality(by[s]) <= 1
    /\ ledger[s].completed => \A i \in Items : changed[s, i] = 1
    /\ s > 1 /\ by[s] # {} => ledger[s - 1].completed
=============================================================================
