----------------------- MODULE ProofRunnerRefinement -----------------------
(***************************************************************************)
(* ProofRunner implements TrusteeEdits: the holder of the lock is the      *)
(* owner, the data of a resource is its value.  The invariant IInv of      *)
(* ProofRunnerProofs supplies what the steps of the runner rely on.        *)
(***************************************************************************)
EXTENDS ProofRunnerProofs

\* A step that changes neither the lock nor the data of a resource is a stutter.
LEMMA FrameStutters == ASSUME Frame PROVE UNCHANGED Edits!vars
  BY DEF Frame, Edits!vars

LEMMA EditsInit == Init => Edits!Init
  BY DEF Init, Edits!Init, Edits!Reviewed, Reviewed

LEMMA LockMaps ==
    ASSUME IInv, NEW c \in Controllers, Acquire(c) \/ Unlock(c)
    PROVE  [Edits!Next]_Edits!vars
  <1>1. UNCHANGED <<resource, reviewed>>
    BY DEF Acquire, Unlock
  <1>2. CASE lock' = lock
    BY <1>1, <1>2 DEF Edits!vars
  <1>3. CASE lock = Nobody /\ lock' = c
    BY <1>1, <1>3 DEF Edits!Next, Edits!Take
  <1>4. CASE Unlock(c) /\ lock' = Nobody
    <2>1. lock = c /\ pc[c] = "unlock"
      BY <1>4 DEF Unlock, IInv, CInv, HoldsLock, Unlocked
    <2>2. ASSUME NEW r \in Resources
          PROVE  resource[r].data.by = Nobody
      <3>1. resource[r].data.by \in Controllers \cup {Nobody}
        BY DEF IInv, TypeOK, Objects, Values
      <3>2. ASSUME NEW d \in Controllers PROVE resource[r].data.by # d
        BY <2>1 DEF IInv, CInv, OwnsModified, MustUndo, Modifying
      <3> QED BY <3>1, <3>2
    <2> QED BY <1>1, <1>4, <2>2 DEF Edits!Next, Edits!Leave
  <1> QED BY <1>2, <1>3, <1>4 DEF Acquire, Unlock

LEMMA PatchMaps ==
    ASSUME IInv, ~LateCommits, NEW c \in Controllers, Patch(c) \/ Unpatch(c)
    PROVE  [Edits!Next]_Edits!vars
  <1>1. PICK e \in Resources : e = Edited(c)
    BY EditedType
  <1>0. /\ TypeOK /\ LatestReviewKept /\ CInv(c)
        /\ UNCHANGED <<lock, reviewed>> /\ lock = c
    BY DEF IInv, Patch, Unpatch, CInv, HoldsLock, Unlocked
  <1>2. CASE UNCHANGED resource
    BY <1>0, <1>2 DEF Edits!vars
  <1>3. CASE pc[c] = "patch" /\ Commits(c, Change(c))
    <2>1. /\ resource[e].data = Reviewed(reviewed[e])
          /\ resource'[e].data = [Reviewed(reviewed[e]) EXCEPT !.by = c]
          /\ \A s \in Resources : s # e => resource'[s] = resource[s]
      BY <1>0, <1>1, <1>3, PatchWrites DEF Change, Reviewed
    <2>2. Edits!Modify(c, e)
      BY <1>0, <2>1 DEF Edits!Modify, Edits!Reviewed, Reviewed
    <2> QED BY <1>0, <2>2 DEF Edits!Next
  <1>4. CASE pc[c] = "unpatch" /\ Commits(c, run[c].orig.data)
    <2>1. /\ resource'[e].data = Reviewed(reviewed[e])
          /\ \A s \in Resources : s # e => resource'[s] = resource[s]
      BY <1>0, <1>1, <1>4, UnpatchWrites
    <2>2. Edits!Undo(e)
      BY <1>0, <2>1 DEF Edits!Undo, Edits!Reviewed, Reviewed
    <2> QED BY <1>0, <2>2 DEF Edits!Next
  <1> QED BY <1>2, <1>3, <1>4 DEF Patch, Unpatch, Drops, Delays

LEMMA ReviewMaps ==
    ASSUME IInv, NEW r \in Resources, Review(r) \/ Reinstate(r)
    PROVE  [Edits!Next]_Edits!vars
  <1>1. CASE Review(r)
    <2>1. Edits!Review(r)
      BY <1>1 DEF IInv, TypeOK, Review, Write, Edits!Review, Edits!Reviewed, Reviewed
    <2> QED BY <2>1 DEF Edits!Next
  <1>2. CASE Reinstate(r)
    <2>1. /\ resource'[r].data = Reviewed(reviewed[r])
          /\ \A s \in Resources : s # r => resource'[s] = resource[s]
          /\ UNCHANGED <<lock, reviewed>>
      BY <1>2 DEF IInv, TypeOK, Objects, Reinstate
    <2>2. Edits!Undo(r)
      BY <2>1 DEF Edits!Undo, Edits!Reviewed, Reviewed
    <2> QED BY <2>2 DEF Edits!Next
  <1> QED BY <1>1, <1>2

LEMMA RecoverMaps ==
    ASSUME IInv, NEW c \in Controllers, Recover(c)
    PROVE  [Edits!Next]_Edits!vars
  <1>1. /\ lock = c /\ lock' = Nobody /\ reviewed' = reviewed
    BY DEF Recover
  <1>2. ASSUME NEW r \in Resources
        PROVE  resource'[r].data = Reviewed(reviewed[r])
    <2>1. CASE resource[r].data.by = c
      <3>1. resource'[r].data = run[c].orig.data
        BY <2>1 DEF Recover
      <3> QED BY <2>1, <3>1 DEF IInv, CInv, OwnsModified
    <2>2. CASE resource[r].data.by # c
      <3>1. resource'[r] = resource[r]
        BY <2>2 DEF Recover
      <3>2. \A d \in Controllers : resource[r].data.by # d
        BY <1>1, <2>2 DEF IInv, CInv, OwnsModified, MustUndo
      <3> QED BY <3>1, <3>2 DEF IInv, TypeOK, Objects, Values, LatestReviewKept, Reviewed
    <2> QED BY <2>1, <2>2
  <1>3. Edits!Recover
    BY <1>1, <1>2 DEF Edits!Recover, Edits!Reviewed, Reviewed
  <1> QED BY <1>3 DEF Edits!Next

LEMMA EditsStep ==
    ASSUME ~LateCommits PROVE IInv /\ [Next]_vars => [Edits!Next]_Edits!vars
  <1> SUFFICES ASSUME IInv, [Next]_vars PROVE [Edits!Next]_Edits!vars
    OBVIOUS
  <1>1. ASSUME NEW c \in Controllers, Runner(c) \/ Kill(c)
        PROVE  [Edits!Next]_Edits!vars
    <2>1. CASE Local(c)
      BY <2>1, LocalFrame, FrameStutters
    <2> QED BY <1>1, <2>1, LockMaps, PatchMaps DEF Runner, Local
  <1>2. CASE (\E c \in Controllers : Attest(c)) \/ UNCHANGED vars
    BY <1>2, FrameStutters DEF Attest, Frame, vars
  <1>3. ASSUME NEW c \in Controllers, Recover(c)
        PROVE  [Edits!Next]_Edits!vars
    BY <1>3, RecoverMaps
  <1>4. ASSUME NEW r \in Resources, Review(r) \/ Reinstate(r)
        PROVE  [Edits!Next]_Edits!vars
    BY <1>4, ReviewMaps
  <1>5. CASE Serve
    BY <1>5 DEF Serve, Edits!vars
  <1>6. CASE \E q \in inflight : CommitLate(q)
    BY <1>6 DEF IInv
  <1> QED BY <1>1, <1>2, <1>3, <1>4, <1>5, <1>6 DEF Next

\* If no request commits after its client gave up on it, every behaviour of the
\* runners, the other tools and the operator of a lost run is one of TrusteeEdits.
THEOREM EditsImplemented ==
    ASSUME ~LateCommits PROVE Spec => ImplementsEdits
  BY InvInit, InvStep, EditsInit, EditsStep, PTL DEF Spec, Edits!Spec, ImplementsEdits
=============================================================================
