---------------------------- MODULE ModelRegistry ----------------------------
(***************************************************************************)
(* One name of the model registry (inference/production/registry.py):      *)
(* processes register versions under a file lock, with or without a        *)
(* condition on the tip, and checkpoint callbacks adopt and extend a       *)
(* lineage.  Every process can die between two steps, every step can fail, *)
(* and the machine can lose power.                                         *)
(*                                                                         *)
(* Version n is versions[n].  What is in a record is its lineage metadata; *)
(* its digest is the number it gets when it is made.  The file system is   *)
(* external: a directory update that was not synced may be lost, and an    *)
(* update that survives implies those before it (a journal).  Nobody       *)
(* deletes version files.                                                  *)
(***************************************************************************)
EXTENDS Naturals, Sequences

CONSTANTS
  Writers,     \* the processes that register versions of this name
  NoOne,       \* not a writer: nobody holds the lock
  MaxRecords,  \* bound: version files ever made
  MaxIter      \* bound: checkpoints of one fit

ASSUME RegistryAssumption ==
  /\ NoOne \notin Writers
  /\ MaxRecords \in Nat
  /\ MaxIter \in Nat

VARIABLES
  versions,    \* the version files in the directory
  synced,      \* the first versions, which a loss of power does not take
  lock,        \* who holds the flock of .register.lock
  pc,          \* where each writer is
  cb,          \* what each writer registers: a checkpoint callback or a model
  returned,    \* the versions that register() returned, with their records
  made         \* the number of records made so far

dir == <<versions, synced>>
vars == <<dir, lock, pc, cb, returned, made>>

Off == "off"

(* The locals of a callback.  pinned: expected_tip is given.  first: it    *)
(* serves its first fit.                                                   *)
Nothing ==
  [lineage |-> FALSE, pinned |-> FALSE, first |-> TRUE, run |-> <<NoOne, 0>>, offset |-> 0,
   iter |-> 0, tip |-> 0, parent |-> 0, digest |-> 0]

Init ==
  /\ versions = <<>>
  /\ synced = 0
  /\ lock = NoOne
  /\ pc = [w \in Writers |-> Off]
  /\ cb = [w \in Writers |-> Nothing]
  /\ returned = {}
  /\ made = 0

Goto(w, where) == pc' = [pc EXCEPT ![w] = where]

(* The process, or this use of the registry by it, is over.                *)
Finish(w) == Goto(w, Off) /\ cb' = [cb EXCEPT ![w] = Nothing]

(* verify_chain on what the directory holds.                               *)
Linked(n) ==
  LET r == versions[n]
      p == versions[n - 1]
  IN /\ r.lineage
     /\ IF n = 1
        THEN r.parent = 0
        ELSE /\ r.parent = n - 1
             /\ r.parentDigest = p.digest
             /\ r.run = p.run
             /\ r.iter > p.iter

VerifyChain == versions # <<>> /\ \A n \in 1..Len(versions) : Linked(n)

-----------------------------------------------------------------------------
(* Checkpoint callbacks                                                    *)

Free(w) == pc[w] \in {Off, "ready"}

Fresh(w) == [Nothing EXCEPT !.lineage = TRUE, !.run = <<w, made>>]

(* checkpointer(name): the versions are listed; on an empty name the       *)
(* callback is to write the root.                                          *)
Checkpointer(w) ==
  /\ Free(w)
  /\ cb' = [cb EXCEPT ![w] = [Fresh(w) EXCEPT !.pinned = TRUE, !.tip = Len(versions)]]
  /\ Goto(w, IF versions = <<>> THEN "ready" ELSE "adopting")
  /\ UNCHANGED <<dir, lock, returned, made>>

(* ... otherwise the chain is verified and its tip as it was listed is     *)
(* adopted, or the callback is refused.                                    *)
Adopt(w) ==
  /\ pc[w] = "adopting"
  /\ IF VerifyChain
     THEN /\ LET n == cb[w].tip IN
               cb' = [cb EXCEPT ![w].run = versions[n].run, ![w].offset = versions[n].iter,
                                ![w].parent = n, ![w].digest = versions[n].digest]
          /\ Goto(w, "ready")
     ELSE Finish(w)
  /\ UNCHANGED <<dir, lock, returned, made>>

(* checkpointer(name, resume=False): a root of its own, on no condition.   *)
Unlinked(w) ==
  /\ Free(w)
  /\ cb' = [cb EXCEPT ![w] = Fresh(w)]
  /\ Goto(w, "ready")
  /\ UNCHANGED <<dir, lock, returned, made>>

(* _save: the callback's next checkpoint goes to register().               *)
Save(w) ==
  /\ pc[w] = "ready"
  /\ cb[w].iter < MaxIter
  /\ cb' = [cb EXCEPT ![w].iter = @ + 1]
  /\ Goto(w, "waiting")
  /\ UNCHANGED <<dir, lock, returned, made>>

(* The fit has ended and the same callback is given to another one, whose  *)
(* iterations start again.                                                 *)
AnotherFit(callback) == [callback EXCEPT !.iter = 0, !.first = FALSE]

Refit(w) ==
  /\ pc[w] = "ready"
  /\ cb[w].iter > 0
  /\ cb' = [cb EXCEPT ![w] = AnotherFit(@)]
  /\ UNCHANGED <<dir, lock, pc, returned, made>>

(* register() of a model without lineage and without condition.            *)
Register(w) ==
  /\ Free(w)
  /\ cb' = [cb EXCEPT ![w] = Nothing]
  /\ Goto(w, "waiting")
  /\ UNCHANGED <<dir, lock, returned, made>>

-----------------------------------------------------------------------------
(* register().  While one writer holds the lock the others wait, so taking *)
(* the lock and comparing the tip is one step, and so is the sync of the   *)
(* directory with what the caller does with the version it gets.           *)

Unlock == lock' = NoOne

(* An exception ends the fit; the callback can still be given to another.  *)
Raise(w, callback) ==
  IF cb[w].lineage
  THEN Goto(w, "ready") /\ cb' = [cb EXCEPT ![w] = AnotherFit(callback)]
  ELSE Finish(w)

(* expected_tip names another version than the latest.                     *)
Moved(w) == cb[w].pinned /\ cb[w].tip # Len(versions)

(* Mutant: the tip was compared before the lock was taken.                 *)
MutAllocate(w) ==
  /\ pc[w] = "waiting"
  /\ lock = NoOne
  /\ lock' = w
  /\ Goto(w, "writing")
  /\ UNCHANGED <<dir, cb, returned, made>>

(* The lock is taken; the next number is free as long as it is held.       *)
Allocate(w) ==
  /\ pc[w] = "waiting"
  /\ lock = NoOne
  /\ ~Moved(w)
  /\ lock' = w
  /\ Goto(w, "writing")
  /\ UNCHANGED <<dir, cb, returned, made>>

(* Mutant: a refused write returns with the lock.                          *)
MutRefuse(w) ==
  /\ pc[w] = "waiting"
  /\ lock = NoOne
  /\ Moved(w)
  /\ lock' = w
  /\ Raise(w, cb[w])
  /\ UNCHANGED <<dir, returned, made>>

(* "registry conflict": another writer appended first.                     *)
Refuse(w) ==
  /\ pc[w] = "waiting"
  /\ lock = NoOne
  /\ Moved(w)
  /\ Raise(w, cb[w])
  /\ UNCHANGED <<dir, lock, returned, made>>

Record(w) ==
  [lineage |-> cb[w].lineage, pinned |-> cb[w].pinned, first |-> cb[w].first,
   run |-> cb[w].run, iter |-> cb[w].offset + cb[w].iter,
   parent |-> cb[w].parent, parentDigest |-> cb[w].digest, digest |-> made + 1]

(* os.link gives the finished temporary file its name.                     *)
Link(w) ==
  /\ pc[w] = "writing"
  /\ made < MaxRecords
  /\ made' = made + 1
  /\ versions' = Append(versions, Record(w))
  /\ Goto(w, "syncing")
  /\ UNCHANGED <<synced, lock, cb, returned>>

(* The record is no strict JSON, the disk is full, or the name is taken:   *)
(* nothing is linked, and the directory is synced all the same.            *)
WriteFails(w) ==
  /\ pc[w] = "writing"
  /\ synced' = Len(versions)
  /\ Raise(w, cb[w])
  /\ Unlock
  /\ UNCHANGED <<versions, returned, made>>

Return == returned' = returned \cup {<<Len(versions), versions[Len(versions)]>>}

(* What a callback remembers of the version it wrote: all of it, or all    *)
(* but the digest when that cannot be read back.                           *)
Written(w) ==
  [cb[w] EXCEPT !.parent = Len(versions), !.tip = IF cb[w].pinned THEN Len(versions) ELSE @]

(* Mutant: the digest of the predecessor is not renewed.                   *)
MutRemembered(w) == Written(w)

Remembered(w) == [Written(w) EXCEPT !.digest = versions[Len(versions)].digest]

(* Mutant: the version is returned before the directory is synced.         *)
MutSync(w) ==
  /\ pc[w] = "syncing"
  /\ Unlock
  /\ Return
  /\ Finish(w)
  /\ UNCHANGED <<dir, made>>

(* The directory is synced, the lock is released, the version returned.    *)
Sync(w) ==
  /\ pc[w] = "syncing"
  /\ synced' = Len(versions)
  /\ Unlock
  /\ Return
  /\ \/ /\ cb[w].lineage
        /\ Goto(w, "ready")
        /\ cb' = [cb EXCEPT ![w] = Remembered(w)]
     \/ Raise(w, Written(w))
  /\ UNCHANGED <<versions, made>>

(* The sync raises: the version is in the directory, but not returned.     *)
SyncFails(w) ==
  /\ pc[w] = "syncing"
  /\ Raise(w, cb[w])
  /\ Unlock
  /\ UNCHANGED <<dir, returned, made>>

-----------------------------------------------------------------------------
(* A process dies; the kernel releases its lock.                           *)
Die(w) ==
  /\ pc[w] # Off
  /\ Finish(w)
  /\ lock' = IF lock = w THEN NoOne ELSE lock
  /\ UNCHANGED <<dir, returned, made>>

(* Power is lost: every process dies, and the updates that were not synced *)
(* survive up to some point.                                               *)
PowerLoss ==
  /\ \E n \in synced..Len(versions) :
       /\ versions' = SubSeq(versions, 1, n)
       /\ synced' = n
  /\ lock' = NoOne
  /\ pc' = [w \in Writers |-> Off]
  /\ cb' = [w \in Writers |-> Nothing]
  /\ UNCHANGED <<returned, made>>

Next ==
  \/ \E w \in Writers :
       \/ Checkpointer(w) \/ Adopt(w) \/ Unlinked(w) \/ Save(w) \/ Refit(w) \/ Register(w)
       \/ Allocate(w) \/ Refuse(w) \/ Link(w) \/ WriteFails(w) \/ Sync(w) \/ SyncFails(w)
       \/ Die(w)
  \/ PowerLoss

Spec == Init /\ [][Next]_vars

-----------------------------------------------------------------------------
Runs == (Writers \cup {NoOne}) \X Nat

Records ==
  [lineage : BOOLEAN, pinned : BOOLEAN, first : BOOLEAN, run : Runs,
   iter : Nat, parent : Nat, parentDigest : Nat, digest : Nat]

Callbacks ==
  [lineage : BOOLEAN, pinned : BOOLEAN, first : BOOLEAN, run : Runs,
   offset : Nat, iter : Nat, tip : Nat, parent : Nat, digest : Nat]

Pcs == {Off, "adopting", "ready", "waiting", "writing", "syncing"}

(* Types: every variable keeps the shape the registry gives it, and only   *)
(* the holder of the lock is between the lock and the unlock.              *)
RegistryTypeOK ==
  /\ versions \in Seq(Records)
  /\ synced \in 0..Len(versions)
  /\ lock \in Writers \cup {NoOne}
  /\ pc \in [Writers -> Pcs]
  /\ cb \in [Writers -> Callbacks]
  /\ made \in Nat
  /\ \A w \in Writers : lock = w <=> pc[w] \in {"writing", "syncing"}

(* A conditional write extends exactly the version it named: of the        *)
(* callbacks that adopted one tip, one appends and the others refuse,      *)
(* whoever dies, fails or loses power in between.                          *)
NoSiblings ==
  \A n \in 1..Len(versions) : versions[n].pinned => versions[n].parent = n - 1

(* As long as only resuming callbacks write, each for one fit, whatever    *)
(* is in the directory verifies, so that a recovery can adopt it.          *)
LineageVerifies ==
  (versions # <<>> /\ \A n \in 1..Len(versions) : versions[n].pinned /\ versions[n].first)
    => VerifyChain

(* A version that register() returned is never lost and never changes.     *)
ReturnedSurvives ==
  \A r \in returned : r[1] \in 1..Len(versions) /\ versions[r[1]] = r[2]

=============================================================================
