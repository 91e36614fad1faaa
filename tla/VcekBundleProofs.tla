-------------------------- MODULE VcekBundleProofs --------------------------
(***************************************************************************)
(* Theorems about VcekBundle for any number of collectors, inputs,         *)
(* invocations and certificates.  Types hold always; that a current        *)
(* certificate belongs to its request, and that a lone invocation repairs  *)
(* the bundle, hold as long as nobody else writes an input that a          *)
(* collector reads back after its request.                                 *)
(***************************************************************************)
EXTENDS VcekBundle, TLAPS

KindOfMode(mode) == IF mode = "report" THEN "report" ELSE "url"

\* --download and --from-report read the file of their input back; only <node>
\* uses the URL it was given.
SoleWriters ==
    \A p, q \in Collectors : p # q =>
        \A m \in ModesOf[p] \ {"node"}, n \in ModesOf[q] : KindOfMode(m) # KindOfMode(n)

---------------------------------------------------------------------------
(* The inductive invariants *)

Publishing(p) == \/ pc[p] \in {"der", "source"}
                 \/ pc[p] \in {"archive", "copy"} /\ run[p].next \in {"der", "idle"}

\* Each input is in the file of its kind.
InputsOfKind == \A k \in Kinds : input[k] # None => KindOf[input[k]] = k

\* What an invocation knows at each step.
RunAgrees(p) ==
    /\ pc[p] # "idle" => /\ run[p].data # None
                         /\ run[p].mode \in ModesOf[p]
                         /\ KindOf[run[p].data] = KindOfMode(run[p].mode)
                         /\ run[p].result = "none"
    /\ pc[p] = "copy" => run[p].dest # None
    /\ pc[p] \in {"archive", "copy"} => run[p].next \in {"input", "der", "idle"}
    /\ pc[p] \in {"request", "current", "fetch"} => input[KindOf[run[p].data]] # None
    /\ pc[p] = "check" \/ Publishing(p) => run[p].fetched # None
    /\ Publishing(p) => run[p].req # None

RunInv == TypeOK /\ InputsOfKind /\ \A p \in Collectors : RunAgrees(p)

\* What was fetched, and what will be recorded, belong to what was requested.
Certified(p) ==
    /\ /\ pc[p] \in {"request", "current", "fetch"}
       /\ run[p].mode # "node"
       => input[KindOf[run[p].data]] = run[p].data
    /\ pc[p] = "check" \/ Publishing(p) => run[p].fetched.of = run[p].data
    /\ Publishing(p) => run[p].req = run[p].data

SourceCertified == source # None => source.certificate.of = source.input

\* What a lone invocation has made of the files.
LoneAgrees(p) == run[p].alone =>
    /\ \A q \in Collectors \ {p} : pc[q] = "idle"
    /\ pc[p] = "request" => input[KindOf[run[p].data]] = run[p].data
    /\ pc[p] \in {"current", "fetch", "check"} \/ Publishing(p) =>
         /\ input[KindOf[run[p].data]] = run[p].data
         /\ request = run[p].data
    /\ pc[p] = "source" => der = run[p].fetched
    /\ pc[p] \in {"archive", "copy"} /\ run[p].next = "idle" =>
         /\ der = run[p].fetched
         /\ source = [input |-> run[p].data, certificate |-> run[p].fetched]
    /\ pc[p] = "idle" /\ run[p].result = "PASS" =>
         Current /\ request = run[p].data /\ der.of = run[p].data

IInv == /\ RunInv
        /\ SourceCertified
        /\ \A p \in Collectors : Certified(p) /\ LoneAgrees(p)

---------------------------------------------------------------------------
(* Types *)

\* The end of an invocation keeps the types.
LEMMA EndType ==
    ASSUME TypeOK, NEW p \in Collectors, NEW result \in {"PASS", "STAGED", "FAIL"},
           End(p, result)
    PROVE  pc' \in [Collectors -> Labels] /\ run' \in [Collectors -> Locals]
  <1> DEFINE new == [run[p] EXCEPT !.result = result]
  <1>1. new \in Locals
    BY DEF TypeOK, Locals
  <1>2. run' = [run EXCEPT ![p] = new]
    BY DEF End
  <1> HIDE DEF new
  <1>3. run' \in [Collectors -> Locals]
    BY <1>1, <1>2 DEF TypeOK
  <1>4. pc' \in [Collectors -> Labels]
    BY DEF TypeOK, End, Goto, Labels
  <1> QED BY <1>3, <1>4

\* Moving on keeps the types.
LEMMA GotoType ==
    ASSUME TypeOK, NEW p \in Collectors, NEW label \in Labels, Goto(p, label)
    PROVE  pc' \in [Collectors -> Labels]
  BY DEF TypeOK, Goto

\* Calling archive keeps the types.
LEMMA ArchiveType ==
    ASSUME TypeOK, NEW p \in Collectors, NEW next \in Labels, NEW local \in Locals,
           Archive(p, next, local)
    PROVE  pc' \in [Collectors -> Labels] /\ run' \in [Collectors -> Locals]
  <1>1. [local EXCEPT !.next = next] \in Locals
    BY DEF Locals
  <1> QED BY <1>1 DEF TypeOK, Archive, Goto, Labels

\* A copy in the history is a file, half of one, or nothing.
LEMMA CopyType ==
    ASSUME NEW S, NEW kept \in S \cup {None, Torn}, NEW file \in S \cup {None},
           NEW place, NEW n
    PROVE  CopyOf(kept, file, place, n) \in S \cup {None, Torn}
  BY DEF CopyOf

\* What a copy into the history makes of an entry is one.
LEMMA CopiesType ==
    ASSUME TypeOK, NEW entry \in Copies, NEW n
    PROVE  CopiedUpTo(entry, n) \in Copies
  <1>1. /\ entry.der \in Certificates \cup {None, Torn}
        /\ entry.source \in Provenance \cup {None, Torn}
        /\ entry.url \in Inputs \cup {None, Torn}
        /\ entry.report \in Inputs \cup {None, Torn}
    BY DEF Copies
  <1>2. /\ der \in Certificates \cup {None} /\ source \in Provenance \cup {None}
        /\ input["url"] \in Inputs \cup {None} /\ input["report"] \in Inputs \cup {None}
    BY DEF TypeOK, Kinds
  <1>3. /\ CopyOf(entry.der, der, 1, n) \in Certificates \cup {None, Torn}
        /\ CopyOf(entry.source, source, 2, n) \in Provenance \cup {None, Torn}
        /\ CopyOf(entry.url, input["url"], 3, n) \in Inputs \cup {None, Torn}
        /\ CopyOf(entry.report, input["report"], 4, n) \in Inputs \cup {None, Torn}
    BY <1>1, <1>2, CopyType
  <1> QED BY <1>3 DEF CopiedUpTo, Copies

\* What a collector starts with.
LEMMA StartFacts ==
    ASSUME TypeOK, NEW p \in Collectors, Start(p)
    PROVE  \E mode \in ModesOf[p], i \in Inputs :
             /\ pc[p] = "idle" /\ MayRequest(mode, i)
             /\ pc' = [pc EXCEPT ![p] = "archive"]
             /\ runs' = [runs EXCEPT ![p] = @ + 1] /\ runs'[p] \in 0..MaxRuns
             /\ UNCHANGED <<files, issued>>
             /\ run' \in [Collectors -> Locals]
             /\ run'[p].mode = mode /\ run'[p].data = i /\ run'[p].next = "input"
             /\ run'[p].result = "none"
             /\ run'[p].alone => \A q \in Collectors \ {p} : pc[q] = "idle"
             /\ \A q \in Collectors \ {p} : run'[q] = [run[q] EXCEPT !.alone = FALSE]
  <1>1. PICK mode \in ModesOf[p], i \in Inputs :
          /\ pc[p] = "idle" /\ runs[p] < MaxRuns
          /\ MayRequest(mode, i)
          /\ runs' = [runs EXCEPT ![p] = @ + 1]
          /\ Goto(p, "archive")
          /\ run' = [q \in Collectors |->
                       IF q = p THEN [NoRun EXCEPT !.mode = mode, !.data = i, !.next = "input",
                                        !.alone = \A o \in Collectors \ {p} : pc[o] = "idle"]
                       ELSE [run[q] EXCEPT !.alone = FALSE]]
          /\ UNCHANGED <<files, issued>>
    BY DEF Start
  <1> DEFINE alone == \A o \in Collectors \ {p} : pc[o] = "idle"
             new == [NoRun EXCEPT !.mode = mode, !.data = i, !.next = "input", !.alone = alone]
             other(q) == [run[q] EXCEPT !.alone = FALSE]
  <1>2. run' = [q \in Collectors |-> IF q = p THEN new ELSE other(q)]
    BY <1>1
  <1>3. /\ new \in Locals /\ new.mode = mode /\ new.data = i /\ new.next = "input"
        /\ new.result = "none"
    <2>1. mode \in Modes
      BY ModesAssumption
    <2> QED BY <2>1 DEF NoRun, Locals, Labels
  <1>4. new.alone => alone
    BY DEF NoRun
  <1>5. \A q \in Collectors : other(q) \in Locals
    BY DEF TypeOK, Locals
  <1>6. runs' = [runs EXCEPT ![p] = @ + 1] /\ runs'[p] \in 0..MaxRuns
    <2>1. runs' = [runs EXCEPT ![p] = @ + 1] /\ runs[p] < MaxRuns
      BY <1>1
    <2>2. runs \in [Collectors -> 0..MaxRuns]
      BY DEF TypeOK
    <2> QED BY <2>1, <2>2, BoundsAssumption
  <1> HIDE DEF new, other
  <1>7. run' \in [Collectors -> Locals] /\ run'[p] = new
    BY <1>2, <1>3, <1>5
  <1>8. \A q \in Collectors \ {p} : run'[q] = other(q)
    BY <1>2
  <1>9. run'[p].alone => \A q \in Collectors \ {p} : pc[q] = "idle"
    BY <1>4, <1>7
  <1>10. /\ pc[p] = "idle" /\ MayRequest(mode, i)
         /\ pc' = [pc EXCEPT ![p] = "archive"]
         /\ UNCHANGED <<files, issued>>
    BY <1>1 DEF Goto
  <1> QED BY <1>3, <1>6, <1>7, <1>8, <1>9, <1>10 DEF other

\* Every step keeps the types, given what the invocations know.
LEMMA TypeStep == RunInv /\ [Next]_vars => TypeOK'
  <1> SUFFICES ASSUME RunInv, [Next]_vars PROVE TypeOK'
    OBVIOUS
  <1> USE DEF RunInv
  <1>1. CASE UNCHANGED vars
    BY <1>1 DEF vars, files, TypeOK
  <1>2. ASSUME NEW p \in Collectors, Collect(p) PROVE TypeOK'
    <2>0. /\ run[p] \in Locals /\ RunAgrees(p)
          /\ {"archive", "copy", "input", "request", "current", "fetch", "check", "der",
              "source", "idle"} \subseteq Labels
      BY DEF TypeOK, Labels
    <2>1. CASE Start(p)
      <3>1. /\ runs' \in [Collectors -> 0..MaxRuns]
            /\ UNCHANGED <<files, issued>>
            /\ run' \in [Collectors -> Locals]
            /\ pc' \in [Collectors -> Labels]
        BY <2>0, <2>1, StartFacts DEF TypeOK
      <3> QED BY <3>1 DEF TypeOK, files
    <2>2. CASE ReadDigest(p)
      <3>1. pc' \in [Collectors -> Labels]
        <4>1. run[p].next \in Labels
          BY <2>0 DEF Locals
        <4> QED BY <2>0, <2>2, <4>1 DEF ReadDigest, Goto, TypeOK
      <3>2. run' \in [Collectors -> Locals]
        BY <2>0, <2>2 DEF ReadDigest, TypeOK, Locals
      <3> QED BY <2>2, <3>1, <3>2 DEF ReadDigest, TypeOK, files
    <2>3. CASE CopyFiles(p)
      <3>1. run[p].dest \in Certificates
        BY <2>0, <2>3 DEF CopyFiles, RunAgrees, Locals
      <3>2. \E n \in 0..4 : history' = [history EXCEPT ![run[p].dest] = CopiedUpTo(@, n)]
        BY <2>3 DEF CopyFiles
      <3>3. history' \in [Certificates -> Copies]
        BY <3>1, <3>2, CopiesType DEF TypeOK
      <3>4. pc' \in [Collectors -> Labels] /\ run' \in [Collectors -> Locals]
        <4>1. run[p].next \in Labels
          BY <2>0 DEF Locals
        <4> QED BY <2>3, <4>1, EndType, GotoType DEF CopyFiles, TypeOK
      <3> QED BY <2>3, <3>3, <3>4 DEF CopyFiles, TypeOK
    <2>4. CASE WriteInput(p)
      <3>1. run[p].data \in Inputs
        BY <2>0, <2>4 DEF WriteInput, RunAgrees, Locals
      <3>2. input' \in [Kinds -> Inputs \cup {None}]
        BY <2>4, <3>1 DEF WriteInput, TypeOK
      <3> QED BY <2>0, <2>4, <3>2, GotoType DEF WriteInput, TypeOK
    <2>5. CASE WriteRequest(p)
      <3>1. run[p].data \in Inputs \cup {None}
        BY <2>0 DEF Locals
      <3>2. pc' \in [Collectors -> Labels]
        BY <2>0, <2>5 DEF WriteRequest, Goto, TypeOK
      <3> QED BY <2>5, <3>1, <3>2 DEF WriteRequest, TypeOK
    <2>6. CASE Decide(p)
      <3>1. pc' \in [Collectors -> Labels] /\ run' \in [Collectors -> Locals]
        BY <2>0, <2>6, EndType, GotoType DEF Decide, TypeOK
      <3> QED BY <2>6, <3>1 DEF Decide, TypeOK, files
    <2>7. CASE Fetch(p)
      <3>1. CASE End(p, "FAIL") /\ UNCHANGED issued
        BY <2>7, <3>1, EndType DEF Fetch, TypeOK, files
      <3>2. CASE ~(End(p, "FAIL") /\ UNCHANGED issued)
        <4> DEFINE new == [of |-> Subject(p), n |-> issued + 1]
        <4>1. /\ issued < MaxIssued /\ issued' = issued + 1
              /\ run' = [run EXCEPT ![p].fetched = new]
              /\ Goto(p, "check")
          BY <2>7, <3>2 DEF Fetch
        <4>2. Subject(p) \in Inputs
          <5>1. run[p].data \in Inputs /\ input[KindOf[run[p].data]] # None
            BY <2>0, <2>7 DEF Fetch, RunAgrees, Locals
          <5>2. KindOf[run[p].data] \in Kinds
            BY <5>1, InputsAssumption
          <5> QED BY <5>1, <5>2 DEF Subject, TypeOK
        <4>3. new \in Certificates /\ issued' \in 0..MaxIssued
          BY <4>1, <4>2, BoundsAssumption DEF TypeOK, Certificates
        <4> HIDE DEF new
        <4>4. run' \in [Collectors -> Locals]
          <5> DEFINE local == [run[p] EXCEPT !.fetched = new]
          <5>1. local \in Locals
            BY <2>0, <4>3 DEF Locals
          <5>2. run' = [run EXCEPT ![p] = local]
            BY <4>1
          <5> HIDE DEF local
          <5> QED BY <5>1, <5>2 DEF TypeOK
        <4> QED BY <2>0, <2>7, <4>1, <4>3, <4>4, GotoType DEF Fetch, TypeOK, files
      <3> QED BY <3>1, <3>2
    <2>8. CASE Check(p)
      <3> DEFINE new == [run[p] EXCEPT !.req = request]
      <3>1. new \in Locals
        BY <2>0 DEF TypeOK, Locals
      <3>2. Archive(p, "der", new) \/ End(p, "FAIL")
        BY <2>8 DEF Check
      <3> HIDE DEF new
      <3>3. pc' \in [Collectors -> Labels] /\ run' \in [Collectors -> Locals]
        BY <2>0, <3>1, <3>2, ArchiveType, EndType
      <3> QED BY <2>8, <3>3 DEF Check, TypeOK, files
    <2>9. CASE WriteDer(p)
      <3>1. run[p].fetched \in Certificates \cup {None}
        BY <2>0 DEF Locals
      <3> QED BY <2>0, <2>9, <3>1, GotoType DEF WriteDer, TypeOK
    <2>10. CASE WriteSource(p)
      <3>1. run[p].req \in Inputs /\ run[p].fetched \in Certificates
        BY <2>0, <2>10 DEF WriteSource, RunAgrees, Publishing, Locals
      <3>2. source' \in Provenance
        BY <2>10, <3>1 DEF WriteSource, Provenance
      <3>3. pc' \in [Collectors -> Labels] /\ run' \in [Collectors -> Locals]
        BY <2>0, <2>10, ArchiveType DEF WriteSource
      <3> QED BY <2>10, <3>2, <3>3 DEF WriteSource, TypeOK
    <2>11. CASE Interrupt(p)
      BY <2>11, EndType DEF Interrupt, TypeOK, files
    <2> QED BY <1>2, <2>1, <2>2, <2>3, <2>4, <2>5, <2>6, <2>7, <2>8, <2>9, <2>10, <2>11
            DEF Collect
  <1> QED BY <1>1, <1>2 DEF Next

---------------------------------------------------------------------------
(* What a step does to the collector that takes it, and to the others *)

\* What the end of an invocation changes.
LEMMA EndFacts ==
    ASSUME TypeOK, NEW p \in Collectors, NEW result, End(p, result)
    PROVE  /\ pc'[p] = "idle"
           /\ run'[p] = [run[p] EXCEPT !.result = result]
           /\ run'[p].result = result /\ run'[p].alone = run[p].alone
           /\ run'[p].data = run[p].data
           /\ \A q \in Collectors \ {p} : pc'[q] = pc[q] /\ run'[q] = run[q]
  <1> DEFINE new == [run[p] EXCEPT !.result = result]
  <1>1. run' = [run EXCEPT ![p] = new]
    BY DEF End
  <1>2. new.result = result /\ new.alone = run[p].alone /\ new.data = run[p].data
    BY DEF TypeOK, Locals
  <1> HIDE DEF new
  <1>3. run'[p] = new /\ \A q \in Collectors \ {p} : run'[q] = run[q]
    BY <1>1 DEF TypeOK
  <1>4. pc'[p] = "idle" /\ \A q \in Collectors \ {p} : pc'[q] = pc[q]
    BY DEF TypeOK, End, Goto
  <1> QED BY <1>2, <1>3, <1>4 DEF new

\* What moving on changes.
LEMMA GotoFacts ==
    ASSUME TypeOK, NEW p \in Collectors, NEW label, Goto(p, label)
    PROVE  pc'[p] = label /\ \A q \in Collectors \ {p} : pc'[q] = pc[q]
  BY DEF TypeOK, Goto

\* Checking the request and recording the certificate both call archive.
LEMMA CheckFacts ==
    ASSUME RunInv, NEW p \in Collectors, Check(p)
    PROVE  /\ UNCHANGED <<files, issued, runs>>
           /\ \/ End(p, "FAIL")
              \/ /\ RequestIntact /\ request = run[p].data
                 /\ pc' = [pc EXCEPT ![p] = "archive"]
                 /\ run'[p].req = request /\ run'[p].next = "der"
                 /\ run'[p].mode = run[p].mode /\ run'[p].data = run[p].data
                 /\ run'[p].fetched = run[p].fetched /\ run'[p].alone = run[p].alone
                 /\ run'[p].result = run[p].result
                 /\ \A q \in Collectors \ {p} : run'[q] = run[q]
  <1>1. CASE End(p, "FAIL")
    BY <1>1 DEF Check
  <1>2. CASE ~End(p, "FAIL")
    <2> DEFINE new == [[run[p] EXCEPT !.req = request] EXCEPT !.next = "der"]
    <2>1. /\ RequestIntact /\ request = run[p].data
          /\ pc' = [pc EXCEPT ![p] = "archive"]
          /\ run' = [run EXCEPT ![p] = new]
          /\ UNCHANGED <<files, issued, runs>>
      BY <1>2 DEF Check, Archive, Goto
    <2>2. /\ new.req = request /\ new.next = "der"
          /\ new.mode = run[p].mode /\ new.data = run[p].data
          /\ new.fetched = run[p].fetched /\ new.alone = run[p].alone
          /\ new.result = run[p].result
      BY DEF RunInv, TypeOK, Locals
    <2> HIDE DEF new
    <2>3. run'[p] = new /\ \A q \in Collectors \ {p} : run'[q] = run[q]
      BY <2>1 DEF RunInv, TypeOK
    <2> QED BY <2>1, <2>2, <2>3
  <1> QED BY <1>1, <1>2

\* What recording the certificate changes.
LEMMA SourceFacts ==
    ASSUME RunInv, NEW p \in Collectors, WriteSource(p)
    PROVE  /\ pc[p] = "source" /\ pc' = [pc EXCEPT ![p] = "archive"]
           /\ source' = [input |-> run[p].req, certificate |-> run[p].fetched]
           /\ UNCHANGED <<input, request, der, history, issued, runs>>
           /\ run'[p].req = run[p].req /\ run'[p].next = "idle"
           /\ run'[p].mode = run[p].mode /\ run'[p].data = run[p].data
           /\ run'[p].fetched = run[p].fetched /\ run'[p].alone = run[p].alone
           /\ run'[p].result = run[p].result
           /\ \A q \in Collectors \ {p} : run'[q] = run[q]
  <1> DEFINE new == [run[p] EXCEPT !.next = "idle"]
  <1>1. /\ pc[p] = "source" /\ pc' = [pc EXCEPT ![p] = "archive"]
        /\ source' = [input |-> run[p].req, certificate |-> run[p].fetched]
        /\ UNCHANGED <<input, request, der, history, issued, runs>>
        /\ run' = [run EXCEPT ![p] = new]
    BY DEF WriteSource, Archive, Goto
  <1>2. /\ new.req = run[p].req /\ new.next = "idle"
        /\ new.mode = run[p].mode /\ new.data = run[p].data
        /\ new.fetched = run[p].fetched /\ new.alone = run[p].alone
        /\ new.result = run[p].result
    BY DEF RunInv, TypeOK, Locals
  <1> HIDE DEF new
  <1>3. run'[p] = new /\ \A q \in Collectors \ {p} : run'[q] = run[q]
    BY <1>1 DEF RunInv, TypeOK
  <1> QED BY <1>1, <1>2, <1>3

\* What fetching a certificate changes.
LEMMA FetchFacts ==
    ASSUME RunInv, NEW p \in Collectors, Fetch(p)
    PROVE  /\ UNCHANGED <<files, runs>>
           /\ \/ End(p, "FAIL")
              \/ /\ pc' = [pc EXCEPT ![p] = "check"]
                 /\ run'[p].fetched = [of |-> Subject(p), n |-> issued']
                 /\ issued' = issued + 1
                 /\ run'[p].mode = run[p].mode /\ run'[p].data = run[p].data
                 /\ run'[p].next = run[p].next /\ run'[p].alone = run[p].alone
                 /\ run'[p].result = run[p].result
                 /\ \A q \in Collectors \ {p} : run'[q] = run[q]
  <1>1. CASE End(p, "FAIL")
    BY <1>1 DEF Fetch
  <1>2. CASE ~End(p, "FAIL")
    <2> DEFINE certificate == [of |-> Subject(p), n |-> issued + 1]
               new == [run[p] EXCEPT !.fetched = certificate]
    <2>1. /\ pc' = [pc EXCEPT ![p] = "check"]
          /\ issued' = issued + 1
          /\ run' = [run EXCEPT ![p] = new]
          /\ UNCHANGED <<files, runs>>
      BY <1>2 DEF Fetch, Goto
    <2> HIDE DEF certificate
    <2>2. /\ new.fetched = certificate
          /\ new.mode = run[p].mode /\ new.data = run[p].data
          /\ new.next = run[p].next /\ new.alone = run[p].alone
          /\ new.result = run[p].result
      BY DEF RunInv, TypeOK, Locals
    <2> HIDE DEF new
    <2>3. run'[p] = new /\ \A q \in Collectors \ {p} : run'[q] = run[q]
      BY <2>1 DEF RunInv, TypeOK
    <2>4. certificate = [of |-> Subject(p), n |-> issued']
      BY <2>1 DEF certificate
    <2> QED BY <2>1, <2>2, <2>3, <2>4
  <1> QED BY <1>1, <1>2

\* What reading the digest of the certificate changes.
LEMMA ReadDigestFacts ==
    ASSUME RunInv, NEW p \in Collectors, ReadDigest(p)
    PROVE  /\ pc[p] = "archive"
           /\ pc' = [pc EXCEPT ![p] = IF der = None THEN run[p].next ELSE "copy"]
           /\ UNCHANGED <<files, issued, runs>>
           /\ run'[p].dest = der
           /\ run'[p].req = run[p].req /\ run'[p].next = run[p].next
           /\ run'[p].mode = run[p].mode /\ run'[p].data = run[p].data
           /\ run'[p].fetched = run[p].fetched /\ run'[p].alone = run[p].alone
           /\ run'[p].result = run[p].result
           /\ \A q \in Collectors \ {p} : run'[q] = run[q]
  <1> DEFINE new == [run[p] EXCEPT !.dest = der]
  <1>1. /\ pc[p] = "archive"
        /\ pc' = [pc EXCEPT ![p] = IF der = None THEN run[p].next ELSE "copy"]
        /\ UNCHANGED <<files, issued, runs>>
        /\ run' = [run EXCEPT ![p] = new]
    BY DEF ReadDigest, Goto
  <1>2. /\ new.dest = der /\ new.req = run[p].req /\ new.next = run[p].next
        /\ new.mode = run[p].mode /\ new.data = run[p].data
        /\ new.fetched = run[p].fetched /\ new.alone = run[p].alone
        /\ new.result = run[p].result
    BY DEF RunInv, TypeOK, Locals
  <1> HIDE DEF new
  <1>3. run'[p] = new /\ \A q \in Collectors \ {p} : run'[q] = run[q]
    BY <1>1 DEF RunInv, TypeOK
  <1> QED BY <1>1, <1>2, <1>3

\* A step leaves every other collector where it is and what it knows; one that
\* starts ends the solitude of the others, every other step is of a collector
\* that is under way.
LEMMA OthersKept ==
    ASSUME RunInv, NEW p \in Collectors, Collect(p), NEW q \in Collectors \ {p}
    PROVE  /\ pc'[q] = pc[q]
           /\ run'[q].mode = run[q].mode /\ run'[q].data = run[q].data
           /\ run'[q].fetched = run[q].fetched /\ run'[q].req = run[q].req
           /\ run'[q].dest = run[q].dest /\ run'[q].next = run[q].next
           /\ run'[q].result = run[q].result
           /\ run'[q].alone => run[q].alone /\ pc[p] # "idle"
  <1> USE DEF RunInv
  <1>1. CASE Start(p)
    <2>1. /\ pc' = [pc EXCEPT ![p] = "archive"]
          /\ run'[q] = [run[q] EXCEPT !.alone = FALSE]
      BY <1>1, StartFacts
    <2>2. pc'[q] = pc[q]
      BY <2>1 DEF TypeOK
    <2>3. ~run'[q].alone
      BY <2>1 DEF TypeOK, Locals
    <2>4. /\ run'[q].mode = run[q].mode /\ run'[q].data = run[q].data
          /\ run'[q].fetched = run[q].fetched /\ run'[q].req = run[q].req
          /\ run'[q].dest = run[q].dest /\ run'[q].next = run[q].next
          /\ run'[q].result = run[q].result
      BY <2>1 DEF TypeOK, Locals
    <2> QED BY <2>2, <2>3, <2>4
  <1>2. CASE ~Start(p)
    <2>1. pc[p] # "idle"
      BY <1>2 DEF Collect, ReadDigest, CopyFiles, WriteInput, WriteRequest, Decide,
                  Fetch, Check, WriteDer, WriteSource, Interrupt
    <2>2. run'[q] = run[q] /\ pc'[q] = pc[q]
      <3>1. CASE ReadDigest(p)
        BY <3>1, ReadDigestFacts DEF TypeOK
      <3>2. CASE CopyFiles(p)
        BY <3>2, EndFacts, GotoFacts DEF CopyFiles
      <3>3. CASE WriteInput(p) \/ WriteRequest(p) \/ WriteDer(p)
        BY <3>3, GotoFacts DEF WriteInput, WriteRequest, WriteDer
      <3>4. CASE Decide(p)
        BY <3>4, EndFacts, GotoFacts DEF Decide
      <3>5. CASE Fetch(p)
        BY <3>5, FetchFacts, EndFacts DEF TypeOK
      <3>6. CASE Check(p)
        BY <3>6, CheckFacts, EndFacts DEF TypeOK
      <3>7. CASE WriteSource(p)
        BY <3>7, SourceFacts DEF TypeOK
      <3>8. CASE Interrupt(p)
        BY <3>8, EndFacts DEF Interrupt
      <3> QED BY <1>2, <3>1, <3>2, <3>3, <3>4, <3>5, <3>6, <3>7, <3>8 DEF Collect
    <2> QED BY <2>1, <2>2
  <1> QED BY <1>1, <1>2

---------------------------------------------------------------------------
(* The invariant that needs no assumption *)

\* No step removes an input, and each is put into the file of its kind.
LEMMA InputStep ==
    ASSUME RunInv, NEW p \in Collectors, Collect(p)
    PROVE  /\ InputsOfKind'
           /\ \A k \in Kinds : input[k] # None => input'[k] # None
  <1> USE DEF RunInv
  <1>1. CASE WriteInput(p)
    <2>1. /\ run[p].data \in Inputs /\ run[p].data # None
          /\ KindOf[run[p].data] \in Kinds
      BY <1>1, InputsAssumption DEF WriteInput, RunAgrees, TypeOK, Locals
    <2>2. input' = [input EXCEPT ![KindOf[run[p].data]] = run[p].data]
      BY <1>1 DEF WriteInput
    <2>3. \A k \in Kinds : input'[k] = IF k = KindOf[run[p].data] THEN run[p].data ELSE input[k]
      BY <2>1, <2>2 DEF TypeOK
    <2> QED BY <2>1, <2>3 DEF InputsOfKind
  <1>2. CASE ~WriteInput(p)
    <2>1. input' = input
      BY <1>2, StartFacts DEF Collect, files, ReadDigest, CopyFiles, WriteRequest, Decide,
                  Fetch, Check, WriteDer, WriteSource, Interrupt
    <2> QED BY <2>1 DEF InputsOfKind
  <1> QED BY <1>1, <1>2

\* What a collector knows after a step of its own.
LEMMA OwnRunStep ==
    ASSUME RunInv, NEW p \in Collectors, Collect(p)
    PROVE  RunAgrees(p)'
  <1> USE DEF RunInv
  <1>0. RunAgrees(p) /\ run[p] \in Locals /\ pc[p] \in Labels
    BY DEF TypeOK
  <1>1. CASE Start(p)
    <2>1. PICK mode \in ModesOf[p], i \in Inputs :
            /\ MayRequest(mode, i)
            /\ pc' = [pc EXCEPT ![p] = "archive"]
            /\ run'[p].mode = mode /\ run'[p].data = i /\ run'[p].next = "input"
            /\ run'[p].result = "none"
      BY <1>1, StartFacts
    <2>2. i # None /\ KindOf[i] = KindOfMode(mode)
      <3>1. mode \in Modes /\ i # None /\ KindOf[i] \in Kinds
        BY ModesAssumption, InputsAssumption
      <3>2. CASE mode = "download"
        <4>1. input["url"] = i
          BY <2>1, <3>2 DEF MayRequest
        <4> QED BY <3>1, <3>2, <4>1 DEF InputsOfKind, Kinds, KindOfMode
      <3>3. CASE mode # "download"
        BY <2>1, <3>1, <3>3 DEF MayRequest, Modes, KindOfMode
      <3> QED BY <3>2, <3>3
    <2>3. pc'[p] = "archive"
      BY <2>1 DEF TypeOK
    <2> QED BY <2>1, <2>2, <2>3 DEF RunAgrees, Publishing
  <1>2. CASE ReadDigest(p)
    <2>1. pc'[p] = IF der = None THEN run[p].next ELSE "copy"
      BY <1>2, ReadDigestFacts DEF TypeOK
    <2> QED BY <1>0, <1>2, <2>1, ReadDigestFacts DEF RunAgrees, Publishing
  <1>3. CASE CopyFiles(p)
    <2>1. CASE pc'[p] = "idle"
      BY <2>1 DEF RunAgrees, Publishing
    <2>2. CASE pc'[p] # "idle"
      <3>1. Goto(p, run[p].next) /\ UNCHANGED run /\ pc[p] = "copy" /\ run[p].next # "idle"
        <4>1. ~End(p, "PASS") /\ ~End(p, "FAIL")
          BY <2>2, EndFacts
        <4> QED BY <1>3, <4>1 DEF CopyFiles
      <3>2. pc'[p] = run[p].next
        BY <3>1, GotoFacts
      <3> QED BY <1>0, <3>1, <3>2 DEF RunAgrees, Publishing
    <2> QED BY <2>1, <2>2
  <1>4. CASE WriteInput(p)
    <2>1. pc'[p] = "request" /\ run' = run /\ pc[p] = "input"
      BY <1>4, GotoFacts DEF WriteInput
    <2>2. run[p].data # None /\ KindOf[run[p].data] \in Kinds
      BY <1>0, <2>1, InputsAssumption DEF RunAgrees, Locals
    <2>3. input'[KindOf[run[p].data]] = run[p].data
      BY <1>4, <2>2 DEF WriteInput, TypeOK
    <2> QED BY <1>0, <2>1, <2>2, <2>3 DEF RunAgrees, Publishing
  <1>5. CASE WriteRequest(p)
    <2>1. /\ pc[p] = "request" /\ pc'[p] \in {"fetch", "current"}
          /\ run' = run /\ input' = input
      BY <1>5, GotoFacts DEF WriteRequest
    <2> QED BY <1>0, <2>1 DEF RunAgrees, Publishing
  <1>6. CASE Decide(p)
    <2>1. CASE pc'[p] = "idle"
      BY <2>1 DEF RunAgrees, Publishing
    <2>2. CASE pc'[p] # "idle"
      <3>1. Goto(p, "fetch") /\ UNCHANGED run /\ pc[p] = "current" /\ input' = input
        <4>1. ~End(p, "PASS") /\ ~End(p, "STAGED")
          BY <2>2, EndFacts
        <4> QED BY <1>6, <4>1 DEF Decide, files
      <3>2. pc'[p] = "fetch"
        BY <3>1, GotoFacts
      <3> QED BY <1>0, <3>1, <3>2 DEF RunAgrees, Publishing
    <2> QED BY <2>1, <2>2
  <1>7. CASE Fetch(p)
    <2>1. CASE pc'[p] = "idle"
      BY <2>1 DEF RunAgrees, Publishing
    <2>2. CASE pc'[p] # "idle"
      <3>1. ~End(p, "FAIL") /\ pc[p] = "fetch"
        BY <1>7, <2>2, EndFacts DEF Fetch
      <3>2. pc'[p] = "check"
        BY <1>7, <3>1, FetchFacts DEF TypeOK
      <3>3. run'[p].fetched # None
        <4>1. run'[p].fetched = [of |-> Subject(p), n |-> issued']
          BY <1>7, <3>1, FetchFacts
        <4>2. Subject(p) \in Inputs
          <5>1. run[p].data \in Inputs /\ input[KindOf[run[p].data]] # None
            BY <1>0, <3>1 DEF RunAgrees, Locals
          <5>2. KindOf[run[p].data] \in Kinds
            BY <5>1, InputsAssumption
          <5> QED BY <5>1, <5>2 DEF Subject, TypeOK
        <4>3. issued' \in 1..MaxIssued
          <5>1. issued' = issued + 1 /\ issued < MaxIssued
            BY <1>7, <3>1 DEF Fetch
          <5>2. issued \in 0..MaxIssued
            BY DEF TypeOK
          <5> QED BY <5>1, <5>2, BoundsAssumption
        <4>4. run'[p].fetched \in Certificates
          BY <4>1, <4>2, <4>3 DEF Certificates
        <4> QED BY <4>4, NoneAssumption
      <3> QED BY <1>0, <1>7, <3>1, <3>2, <3>3, FetchFacts DEF RunAgrees, Publishing
    <2> QED BY <2>1, <2>2
  <1>8. CASE Check(p)
    <2>1. CASE pc'[p] = "idle"
      BY <2>1 DEF RunAgrees, Publishing
    <2>2. CASE pc'[p] # "idle"
      <3>1. ~End(p, "FAIL") /\ pc[p] = "check"
        BY <1>8, <2>2, EndFacts DEF Check
      <3>2. pc'[p] = "archive" /\ run'[p].req # None
        BY <1>8, <3>1, CheckFacts DEF TypeOK, RequestIntact
      <3> QED BY <1>0, <1>8, <3>1, <3>2, CheckFacts DEF RunAgrees, Publishing
    <2> QED BY <2>1, <2>2
  <1>9. CASE WriteDer(p)
    <2>1. pc[p] = "der" /\ pc'[p] = "source" /\ run' = run
      BY <1>9, GotoFacts DEF WriteDer
    <2> QED BY <1>0, <2>1 DEF RunAgrees, Publishing
  <1>10. CASE WriteSource(p)
    <2>1. pc[p] = "source" /\ pc'[p] = "archive"
      BY <1>10, SourceFacts DEF TypeOK
    <2> QED BY <1>0, <1>10, <2>1, SourceFacts DEF RunAgrees, Publishing
  <1>11. CASE Interrupt(p)
    <2>1. pc'[p] = "idle"
      BY <1>11, EndFacts DEF Interrupt
    <2> QED BY <2>1 DEF RunAgrees, Publishing
  <1> QED BY <1>1, <1>2, <1>3, <1>4, <1>5, <1>6, <1>7, <1>8, <1>9, <1>10, <1>11 DEF Collect

\* Every step keeps the invariant that needs no assumption.
LEMMA RunStep == RunInv /\ [Next]_vars => RunInv'
  <1> SUFFICES ASSUME RunInv, [Next]_vars PROVE RunInv'
    OBVIOUS
  <1>1. TypeOK'
    BY TypeStep
  <1>2. CASE UNCHANGED vars
    BY <1>1, <1>2 DEF vars, files, RunInv, InputsOfKind, RunAgrees, Publishing
  <1>3. ASSUME NEW p \in Collectors, Collect(p) PROVE RunInv'
    <2>1. InputsOfKind' /\ \A k \in Kinds : input[k] # None => input'[k] # None
      BY <1>3, InputStep
    <2>2. RunAgrees(p)'
      BY <1>3, OwnRunStep
    <2>3. ASSUME NEW q \in Collectors \ {p} PROVE RunAgrees(q)'
      <3>1. RunAgrees(q) /\ run[q] \in Locals
        BY DEF RunInv, TypeOK
      <3>2. /\ pc'[q] = pc[q]
            /\ run'[q].mode = run[q].mode /\ run'[q].data = run[q].data
            /\ run'[q].fetched = run[q].fetched /\ run'[q].req = run[q].req
            /\ run'[q].dest = run[q].dest /\ run'[q].next = run[q].next
            /\ run'[q].result = run[q].result
        BY <1>3, OthersKept
      <3>3. pc[q] # "idle" => KindOf[run[q].data] \in Kinds
        BY <3>1, InputsAssumption DEF RunAgrees, Locals
      <3> QED BY <2>1, <3>1, <3>2, <3>3 DEF RunAgrees, Publishing
    <2> QED BY <1>1, <2>1, <2>2, <2>3 DEF RunInv
  <1> QED BY <1>2, <1>3 DEF Next

\* It holds of an empty cache.
LEMMA RunInit == Init => RunInv
  <1> SUFFICES ASSUME Init PROVE RunInv
    OBVIOUS
  <1>1. NoCopies \in Copies
    BY DEF NoCopies, Copies
  <1>2. NoRun \in Locals
    BY DEF NoRun, Locals, Labels
  <1>3. TypeOK
    BY <1>1, <1>2, BoundsAssumption DEF Init, TypeOK, Labels
  <1>4. InputsOfKind /\ \A p \in Collectors : RunAgrees(p)
    BY DEF Init, InputsOfKind, RunAgrees, Publishing
  <1> QED BY <1>3, <1>4 DEF RunInv

\* Every reachable state of the bundle and of its collectors is of its type
\* (vcek_bundle.py, collect-vcek.sh).
THEOREM TypeCorrect == Spec => []TypeOK
  <1>1. RunInv => TypeOK
    BY DEF RunInv
  <1> QED BY <1>1, RunInit, RunStep, PTL DEF Spec

---------------------------------------------------------------------------
(* What is certified is what was requested *)

\* A collector fetches and records what it requested.
LEMMA OwnCertifiedStep ==
    ASSUME RunInv, NEW p \in Collectors, Certified(p), Collect(p)
    PROVE  Certified(p)'
  <1>0. RunAgrees(p) /\ run[p] \in Locals
    BY DEF RunInv, TypeOK
  <1>1. CASE pc'[p] = "idle"
    BY <1>1 DEF Certified, Publishing
  <1>2. CASE pc'[p] # "idle"
    <2>1. CASE Start(p)
      <3>1. pc'[p] = "archive" /\ run'[p].next = "input"
        BY <2>1, StartFacts DEF RunInv, TypeOK
      <3> QED BY <3>1 DEF Certified, Publishing
    <2>2. CASE ReadDigest(p)
      <3>1. pc'[p] = IF der = None THEN run[p].next ELSE "copy"
        BY <2>2, ReadDigestFacts DEF RunInv, TypeOK
      <3> QED BY <1>0, <1>2, <2>2, <3>1, ReadDigestFacts DEF Certified, Publishing, RunAgrees
    <2>3. CASE CopyFiles(p)
      <3>1. Goto(p, run[p].next) /\ UNCHANGED run /\ pc[p] = "copy" /\ run[p].next # "idle"
        <4>1. ~End(p, "PASS") /\ ~End(p, "FAIL")
          BY <1>2, EndFacts DEF RunInv
        <4> QED BY <2>3, <4>1 DEF CopyFiles
      <3>2. pc'[p] = run[p].next
        BY <3>1, GotoFacts DEF RunInv
      <3> QED BY <1>0, <3>1, <3>2 DEF Certified, Publishing, RunAgrees
    <2>4. CASE WriteInput(p)
      <3>1. pc'[p] = "request" /\ run' = run /\ pc[p] = "input"
        BY <2>4, GotoFacts DEF WriteInput, RunInv
      <3>2. run[p].data # None /\ KindOf[run[p].data] \in Kinds
        BY <1>0, <3>1, InputsAssumption DEF RunAgrees, Locals
      <3>3. input'[KindOf[run[p].data]] = run[p].data
        BY <2>4, <3>2 DEF WriteInput, RunInv, TypeOK
      <3> QED BY <3>1, <3>3 DEF Certified, Publishing
    <2>5. CASE WriteRequest(p)
      <3>1. /\ pc[p] = "request" /\ pc'[p] \in {"fetch", "current"}
            /\ run' = run /\ input' = input
        BY <2>5, GotoFacts DEF WriteRequest, RunInv
      <3> QED BY <3>1 DEF Certified, Publishing
    <2>6. CASE Decide(p)
      <3>1. Goto(p, "fetch") /\ UNCHANGED run /\ pc[p] = "current" /\ input' = input
        <4>1. ~End(p, "PASS") /\ ~End(p, "STAGED")
          BY <1>2, EndFacts DEF RunInv
        <4> QED BY <2>6, <4>1 DEF Decide, files
      <3>2. pc'[p] = "fetch"
        BY <3>1, GotoFacts DEF RunInv
      <3> QED BY <3>1, <3>2 DEF Certified, Publishing
    <2>7. CASE Fetch(p)
      <3>1. ~End(p, "FAIL") /\ pc[p] = "fetch"
        BY <1>2, <2>7, EndFacts DEF Fetch, RunInv
      <3>2. pc'[p] = "check"
        BY <2>7, <3>1, FetchFacts DEF RunInv, TypeOK
      <3>3. run'[p].fetched.of = Subject(p)
        <4>1. run'[p].fetched = [of |-> Subject(p), n |-> issued']
          BY <2>7, <3>1, FetchFacts
        <4> QED BY <4>1
      <3>4. Subject(p) = run[p].data
        BY <3>1 DEF Subject, Certified
      <3> QED BY <2>7, <3>1, <3>2, <3>3, <3>4, FetchFacts DEF Certified, Publishing
    <2>8. CASE Check(p)
      <3>1. ~End(p, "FAIL") /\ pc[p] = "check"
        BY <1>2, <2>8, EndFacts DEF Check, RunInv
      <3>2. pc'[p] = "archive"
        BY <2>8, <3>1, CheckFacts DEF RunInv, TypeOK
      <3> QED BY <2>8, <3>1, <3>2, CheckFacts DEF Certified, Publishing
    <2>9. CASE WriteDer(p)
      <3>1. pc[p] = "der" /\ pc'[p] = "source" /\ run' = run
        BY <2>9, GotoFacts DEF WriteDer, RunInv
      <3> QED BY <3>1 DEF Certified, Publishing
    <2>10. CASE WriteSource(p)
      <3>1. pc[p] = "source" /\ pc'[p] = "archive"
        BY <2>10, SourceFacts DEF RunInv, TypeOK
      <3> QED BY <2>10, <3>1, SourceFacts DEF Certified, Publishing
    <2>11. ~Interrupt(p)
      BY <1>2, EndFacts DEF Interrupt, RunInv
    <2> QED BY <2>1, <2>2, <2>3, <2>4, <2>5, <2>6, <2>7, <2>8, <2>9, <2>10, <2>11 DEF Collect
  <1> QED BY <1>1, <1>2

\* Nobody else's step changes an input that a collector will read back.
LEMMA OtherCertifiedStep ==
    ASSUME SoleWriters, RunInv, NEW p \in Collectors, Collect(p),
           NEW q \in Collectors \ {p}, Certified(q)
    PROVE  Certified(q)'
  <1>1. /\ pc'[q] = pc[q]
        /\ run'[q].mode = run[q].mode /\ run'[q].data = run[q].data
        /\ run'[q].fetched = run[q].fetched /\ run'[q].req = run[q].req
        /\ run'[q].next = run[q].next
    BY OthersKept
  <1>2. ASSUME pc[q] \in {"request", "current", "fetch"}, run[q].mode # "node"
        PROVE  input'[KindOf[run[q].data]] = input[KindOf[run[q].data]]
    <2>1. /\ run[q].mode \in ModesOf[q] \ {"node"} /\ run[q].data \in Inputs
          /\ KindOf[run[q].data] = KindOfMode(run[q].mode)
          /\ KindOf[run[q].data] \in Kinds
      BY <1>2, InputsAssumption DEF RunInv, RunAgrees, TypeOK, Locals
    <2>2. CASE WriteInput(p)
      <3>1. /\ run[p].mode \in ModesOf[p]
            /\ KindOf[run[p].data] = KindOfMode(run[p].mode)
        BY <2>2 DEF WriteInput, RunInv, RunAgrees
      <3>2. KindOf[run[p].data] # KindOf[run[q].data]
        BY <2>1, <3>1 DEF SoleWriters
      <3>3. input' = [input EXCEPT ![KindOf[run[p].data]] = run[p].data]
        BY <2>2 DEF WriteInput
      <3> QED BY <2>1, <3>2, <3>3 DEF RunInv, TypeOK
    <2>3. CASE ~WriteInput(p)
      BY <2>3, StartFacts DEF Collect, files, ReadDigest, CopyFiles, WriteRequest, Decide,
              Fetch, Check, WriteDer, WriteSource, Interrupt, RunInv
    <2> QED BY <2>2, <2>3
  <1> QED BY <1>1, <1>2 DEF Certified, Publishing

\* The record of a certificate names the input it was issued for.
LEMMA SourceStep ==
    ASSUME RunInv, SourceCertified, NEW p \in Collectors, Certified(p), Collect(p)
    PROVE  SourceCertified'
  <1>1. CASE WriteSource(p)
    <2>1. source' = [input |-> run[p].req, certificate |-> run[p].fetched] /\ pc[p] = "source"
      BY <1>1, SourceFacts
    <2>2. run[p].fetched.of = run[p].req
      BY <2>1 DEF Certified, Publishing
    <2> QED BY <2>1, <2>2 DEF SourceCertified
  <1>2. CASE ~WriteSource(p)
    <2>1. source' = source
      BY <1>2, StartFacts DEF Collect, files, ReadDigest, CopyFiles, WriteInput, WriteRequest,
              Decide, Fetch, Check, WriteDer, Interrupt, RunInv
    <2> QED BY <2>1 DEF SourceCertified
  <1> QED BY <1>1, <1>2

CertifiedInv == RunInv /\ SourceCertified /\ \A p \in Collectors : Certified(p)

\* Every step keeps what is certified, if inputs have sole writers.
LEMMA CertifiedStep == SoleWriters /\ CertifiedInv /\ [Next]_vars => CertifiedInv'
  <1> SUFFICES ASSUME SoleWriters, CertifiedInv, [Next]_vars PROVE CertifiedInv'
    OBVIOUS
  <1>1. RunInv'
    BY RunStep DEF CertifiedInv
  <1>2. CASE UNCHANGED vars
    BY <1>1, <1>2 DEF vars, files, CertifiedInv, SourceCertified, Certified, Publishing
  <1>3. ASSUME NEW p \in Collectors, Collect(p) PROVE CertifiedInv'
    <2>1. SourceCertified' /\ Certified(p)'
      BY <1>3, SourceStep, OwnCertifiedStep DEF CertifiedInv
    <2>2. \A q \in Collectors \ {p} : Certified(q)'
      BY <1>3, OtherCertifiedStep DEF CertifiedInv
    <2> QED BY <1>1, <2>1, <2>2 DEF CertifiedInv
  <1> QED BY <1>2, <1>3 DEF Next

\* It holds of an empty cache.
LEMMA CertifiedInit == Init => CertifiedInv
  BY RunInit DEF Init, CertifiedInv, SourceCertified, Certified, Publishing

\* As long as nobody else writes an input that a collector reads back, a
\* certificate that current() accepts was issued for the current request,
\* whatever stopped and overlapped (publish in vcek_bundle.py:85-99).
THEOREM CurrentIsIssued ==
    ASSUME SoleWriters
    PROVE  Spec => []CurrentIsCertified
  <1>1. CertifiedInv => CurrentIsCertified
    BY DEF CertifiedInv, SourceCertified, CurrentIsCertified, Current
  <1>2. SoleWriters
    OBVIOUS
  <1>3. CertifiedInv /\ [Next]_vars => CertifiedInv'
    BY <1>2, CertifiedStep
  <1> QED BY <1>1, <1>3, CertifiedInit, PTL DEF Spec

---------------------------------------------------------------------------
(* A lone invocation repairs the bundle *)

\* A step of a lone invocation keeps what it made of the files.
LEMMA OwnLoneStep ==
    ASSUME CertifiedInv, NEW p \in Collectors, LoneAgrees(p), Collect(p)
    PROVE  LoneAgrees(p)'
  <1> SUFFICES ASSUME run'[p].alone PROVE LoneAgrees(p)'
    BY DEF LoneAgrees
  <1>0. /\ RunInv /\ RunAgrees(p) /\ run[p] \in Locals /\ Certified(p)
    BY DEF CertifiedInv, RunInv, TypeOK
  <1>1. CASE Start(p)
    <2>1. /\ pc'[p] = "archive" /\ run'[p].next = "input"
          /\ \A q \in Collectors \ {p} : pc[q] = "idle"
      BY <1>0, <1>1, StartFacts DEF RunInv, TypeOK
    <2>2. \A q \in Collectors \ {p} : pc'[q] = "idle"
      BY <1>0, <2>1, OthersKept
    <2> QED BY <2>1, <2>2 DEF LoneAgrees, Publishing
  <1>2. CASE ~Start(p)
    <2>0. run[p].alone
      BY <1>0, <1>2, ReadDigestFacts, FetchFacts, CheckFacts, SourceFacts, EndFacts
         DEF RunInv, Collect, CopyFiles, WriteInput, WriteRequest, Decide, WriteDer, Interrupt
    <2>1. \A q \in Collectors \ {p} : pc'[q] = "idle"
      BY <1>0, <2>0, OthersKept DEF LoneAgrees
    <2> DEFINE intact == input[KindOf[run[p].data]] = run[p].data /\ request = run[p].data
    <2>2. ASSUME NEW result \in {"STAGED", "FAIL"}, End(p, result) PROVE LoneAgrees(p)'
      <3>1. pc'[p] = "idle" /\ run'[p].result = result
        BY <1>0, <2>2, EndFacts DEF RunInv
      <3> QED BY <2>1, <3>1 DEF LoneAgrees, Publishing
    <2>3. CASE ReadDigest(p)
      <3>1. /\ pc[p] = "archive" /\ UNCHANGED <<input, request, der, source>>
            /\ pc'[p] = IF der = None THEN run[p].next ELSE "copy"
        BY <1>0, <2>3, ReadDigestFacts DEF RunInv, TypeOK, files
      <3>2. run'[p].result = "none"
        BY <1>0, <2>3, <3>1, ReadDigestFacts DEF RunAgrees
      <3>3. run[p].next \in {"input", "der", "idle"}
        BY <1>0, <3>1 DEF RunAgrees
      <3> QED BY <1>0, <2>0, <2>1, <2>3, <3>1, <3>2, <3>3, ReadDigestFacts
              DEF LoneAgrees, Publishing
    <2>4. CASE CopyFiles(p)
      <3>1. pc[p] = "copy" /\ UNCHANGED <<input, request, der, source>>
        BY <2>4 DEF CopyFiles
      <3>2. CASE run[p].next = "idle" /\ End(p, "PASS")
        <4>1. /\ pc'[p] = "idle" /\ run'[p].data = run[p].data
              /\ UNCHANGED <<input, request, der, source>>
          BY <1>0, <3>1, <3>2, EndFacts DEF RunInv
        <4>2. /\ intact /\ der = run[p].fetched
              /\ source = [input |-> run[p].data, certificate |-> run[p].fetched]
          BY <2>0, <3>1, <3>2 DEF LoneAgrees, Publishing
        <4>3. run[p].fetched # None /\ run[p].fetched.of = run[p].data /\ run[p].data # None
          BY <1>0, <3>1, <3>2 DEF RunAgrees, Certified, Publishing
        <4>4. source # None
          <5>1. run[p].data \in Inputs /\ run[p].fetched \in Certificates
            BY <1>0, <4>3 DEF Locals
          <5>2. source \in Provenance
            BY <4>2, <5>1 DEF Provenance
          <5> QED BY <5>2, NoneAssumption
        <4>5. Current /\ request = run[p].data /\ der.of = run[p].data
          BY <4>2, <4>3, <4>4 DEF Current, RequestIntact
        <4>6. (Current /\ request = run[p].data /\ der.of = run[p].data)'
          BY <4>1, <4>5 DEF Current, RequestIntact
        <4> QED BY <2>1, <4>1, <4>6 DEF LoneAgrees, Publishing
      <3>3. CASE run[p].next # "idle" /\ Goto(p, run[p].next) /\ UNCHANGED run
        <4>1. pc'[p] = run[p].next /\ run[p].next \in {"input", "der"}
          BY <1>0, <3>1, <3>3, GotoFacts DEF RunAgrees, RunInv
        <4> QED BY <2>0, <2>1, <3>1, <3>3, <4>1 DEF LoneAgrees, Publishing
      <3>4. CASE End(p, "FAIL")
        BY <2>2, <3>4
      <3> QED BY <2>4, <3>2, <3>3, <3>4 DEF CopyFiles
    <2>5. CASE WriteInput(p)
      <3>1. pc'[p] = "request" /\ run' = run /\ pc[p] = "input"
        BY <1>0, <2>5, GotoFacts DEF WriteInput, RunInv
      <3>2. run[p].data # None /\ KindOf[run[p].data] \in Kinds
        BY <1>0, <3>1, InputsAssumption DEF RunAgrees, Locals
      <3>3. input'[KindOf[run[p].data]] = run[p].data
        BY <1>0, <2>5, <3>2 DEF WriteInput, RunInv, TypeOK
      <3> QED BY <2>1, <3>1, <3>3 DEF LoneAgrees, Publishing
    <2>6. CASE WriteRequest(p)
      <3>1. /\ pc[p] = "request" /\ pc'[p] \in {"fetch", "current"}
            /\ run' = run /\ input' = input /\ request' = run[p].data
        BY <1>0, <2>6, GotoFacts DEF WriteRequest, RunInv
      <3> QED BY <2>0, <2>1, <3>1 DEF LoneAgrees, Publishing
    <2>7. CASE Decide(p)
      <3>1. pc[p] = "current" /\ UNCHANGED <<input, request, der, source>> /\ intact
        BY <2>0, <2>7 DEF Decide, files, LoneAgrees
      <3>2. CASE Current /\ End(p, "PASS")
        <4>1. pc'[p] = "idle" /\ run'[p].data = run[p].data
          BY <1>0, <3>2, EndFacts DEF RunInv
        <4>2. Current /\ request = run[p].data /\ der.of = run[p].data
          BY <3>1, <3>2 DEF CertifiedInv, SourceCertified, Current
        <4>3. (Current /\ request = run[p].data /\ der.of = run[p].data)'
          BY <3>1, <4>1, <4>2 DEF Current, RequestIntact
        <4> QED BY <2>1, <4>1, <4>3 DEF LoneAgrees, Publishing
      <3>3. CASE Goto(p, "fetch") /\ UNCHANGED run
        <4>1. pc'[p] = "fetch"
          BY <1>0, <3>3, GotoFacts DEF RunInv
        <4> QED BY <2>1, <3>1, <3>3, <4>1 DEF LoneAgrees, Publishing
      <3>4. CASE End(p, "STAGED")
        BY <2>2, <3>4
      <3> QED BY <2>7, <3>2, <3>3, <3>4 DEF Decide
    <2>8. CASE Fetch(p)
      <3>1. CASE End(p, "FAIL")
        BY <2>2, <3>1
      <3>2. CASE ~End(p, "FAIL")
        <4>1. /\ pc[p] = "fetch" /\ pc'[p] = "check"
              /\ UNCHANGED <<input, request>> /\ run'[p].data = run[p].data
          BY <1>0, <2>8, <3>2, FetchFacts DEF Fetch, files, RunInv, TypeOK
        <4>2. intact
          BY <2>0, <4>1 DEF LoneAgrees
        <4> QED BY <2>1, <4>1, <4>2 DEF LoneAgrees, Publishing
      <3> QED BY <3>1, <3>2
    <2>9. CASE Check(p)
      <3>1. CASE End(p, "FAIL")
        BY <2>2, <3>1
      <3>2. CASE ~End(p, "FAIL")
        <4>1. /\ pc[p] = "check" /\ pc'[p] = "archive" /\ run'[p].next = "der"
              /\ UNCHANGED <<input, request>> /\ run'[p].data = run[p].data
          BY <1>0, <2>9, <3>2, CheckFacts DEF Check, files, RunInv, TypeOK
        <4>2. intact
          BY <2>0, <4>1 DEF LoneAgrees
        <4> QED BY <2>1, <4>1, <4>2 DEF LoneAgrees, Publishing
      <3> QED BY <3>1, <3>2
    <2>10. CASE WriteDer(p)
      <3>1. /\ pc[p] = "der" /\ pc'[p] = "source" /\ run' = run
            /\ UNCHANGED <<input, request>> /\ der' = run[p].fetched
        BY <1>0, <2>10, GotoFacts DEF WriteDer, RunInv
      <3>2. intact
        BY <2>0, <3>1 DEF LoneAgrees, Publishing
      <3> QED BY <2>1, <3>1, <3>2 DEF LoneAgrees, Publishing
    <2>11. CASE WriteSource(p)
      <3>1. /\ pc[p] = "source" /\ pc'[p] = "archive" /\ run'[p].next = "idle"
            /\ UNCHANGED <<input, request, der>> /\ run'[p].data = run[p].data
            /\ run'[p].fetched = run[p].fetched
            /\ source' = [input |-> run[p].req, certificate |-> run[p].fetched]
        BY <1>0, <2>11, SourceFacts DEF RunInv, TypeOK
      <3>2. intact /\ der = run[p].fetched
        BY <2>0, <3>1 DEF LoneAgrees, Publishing
      <3>3. run[p].req = run[p].data
        BY <1>0, <3>1 DEF Certified, Publishing
      <3> QED BY <2>1, <3>1, <3>2, <3>3 DEF LoneAgrees, Publishing
    <2>12. CASE Interrupt(p)
      BY <2>2, <2>12 DEF Interrupt
    <2> QED BY <1>2, <2>3, <2>4, <2>5, <2>6, <2>7, <2>8, <2>9, <2>10, <2>11, <2>12 DEF Collect
  <1> QED BY <1>1, <1>2

\* Nobody is alone after another's step.
LEMMA OtherLoneStep ==
    ASSUME RunInv, NEW p \in Collectors, Collect(p), NEW q \in Collectors \ {p}, LoneAgrees(q)
    PROVE  LoneAgrees(q)'
  <1>1. ~run'[q].alone
    BY OthersKept DEF LoneAgrees
  <1> QED BY <1>1 DEF LoneAgrees

\* Every step keeps the whole invariant, if inputs have sole writers.
LEMMA LoneStep == SoleWriters /\ IInv /\ [Next]_vars => IInv'
  <1> SUFFICES ASSUME SoleWriters, IInv, [Next]_vars PROVE IInv'
    OBVIOUS
  <1>1. CertifiedInv /\ CertifiedInv'
    <2>1. CertifiedInv
      BY DEF IInv, CertifiedInv
    <2> QED BY <2>1, CertifiedStep
  <1>2. CASE UNCHANGED vars
    BY <1>1, <1>2 DEF vars, files, IInv, CertifiedInv, LoneAgrees, Publishing, Current, RequestIntact
  <1>3. ASSUME NEW p \in Collectors, Collect(p) PROVE IInv'
    <2>1. LoneAgrees(p)'
      BY <1>1, <1>3, OwnLoneStep DEF IInv
    <2>2. \A q \in Collectors \ {p} : LoneAgrees(q)'
      BY <1>1, <1>3, OtherLoneStep DEF IInv, CertifiedInv
    <2> QED BY <1>1, <2>1, <2>2 DEF IInv, CertifiedInv
  <1> QED BY <1>2, <1>3 DEF Next

\* On the same assumption, an invocation that ends well with no other beside it
\* leaves a current certificate for its input, whatever earlier ones left
\* (collect-vcek.sh:94-131).
THEOREM LoneRunRepairs ==
    ASSUME SoleWriters
    PROVE  Spec => []LoneRunConverges
  <1>1. Init => IInv
    <2> SUFFICES ASSUME Init PROVE IInv
      OBVIOUS
    <2>1. \A p \in Collectors : run[p] = NoRun /\ pc[p] = "idle"
      BY DEF Init
    <2>2. \A p \in Collectors : LoneAgrees(p)
      BY <2>1 DEF LoneAgrees, NoRun
    <2> QED BY <2>2, CertifiedInit DEF IInv, CertifiedInv
  <1>2. IInv => LoneRunConverges
    <2> SUFFICES ASSUME IInv, NEW p \in Collectors, run[p].result = "PASS", run[p].alone
                 PROVE  Current /\ request = run[p].data /\ der.of = run[p].data
      BY DEF LoneRunConverges
    <2>1. pc[p] = "idle"
      BY DEF IInv, RunInv, RunAgrees
    <2> QED BY <2>1 DEF IInv, LoneAgrees
  <1>3. SoleWriters
    OBVIOUS
  <1>4. IInv /\ [Next]_vars => IInv'
    BY <1>3, LoneStep
  <1> QED BY <1>1, <1>2, <1>4, PTL DEF Spec
=============================================================================
