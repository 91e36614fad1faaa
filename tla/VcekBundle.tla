----------------------------- MODULE VcekBundle -----------------------------
(***************************************************************************)
(* One hardware ID of the VCEK cache: scripts/lib/vcek_bundle.py as        *)
(* scripts/collect-vcek.sh drives it.                                      *)
(*                                                                         *)
(* A collector is an invocation for this ID: it requests a certificate     *)
(* for an input (a KDS URL or an SNP report), fetches it unless the cached *)
(* one is current, and publishes it.  The steps are the file operations;   *)
(* every file is replaced atomically, except that copies into the history  *)
(* are not.  An invocation may stop between any two of them, and several   *)
(* may work on the directory at once: nothing locks it.                    *)
(***************************************************************************)
EXTENDS Naturals

CONSTANTS
    Collectors,
    Inputs,     \* contents of URL files and of reports
    KindOf,     \* KindOf[i] \in {"url", "report"}
    ModesOf,    \* ModesOf[p]: the modes of collect-vcek.sh that p may run
    None,
    Torn,       \* the content of a file whose copy was interrupted
    MaxRuns,    \* bound: invocations, by collector
    MaxIssued   \* bound: certificates that the KDS issues

Kinds == {"url", "report"}
Modes == {"node", "download", "report"}

ASSUME InputsAssumption == /\ KindOf \in [Inputs -> Kinds]
                           /\ {None, Torn} \cap Inputs = {}
ASSUME ModesAssumption == ModesOf \in [Collectors -> SUBSET Modes]
ASSUME BoundsAssumption == MaxRuns \in Nat /\ MaxIssued \in Nat

VARIABLES
    input,    \* vcek.url and report.bin, by kind
    request,  \* vcek.request.json: the input whose digest it holds
    der,      \* vcek.der
    source,   \* vcek.source.json
    history,  \* history/<digest of a certificate>/, by certificate
    issued,   \* certificates issued so far
    runs,     \* invocations so far, by collector
    pc,       \* the next file operation of each collector
    run       \* its local state

files == <<input, request, der, source, history>>
vars == <<files, issued, runs, pc, run>>

---------------------------------------------------------------------------
\* A certificate knows for which input the KDS issued it; the bundle does not.
Certificates == [of : Inputs, n : 1..MaxIssued]
Provenance == [input : Inputs, certificate : Certificates]

ASSUME NoneAssumption == None \notin Certificates \cup Provenance

Copies == [der : Certificates \cup {None, Torn},
           source : Provenance \cup {None, Torn},
           url : Inputs \cup {None, Torn},
           report : Inputs \cup {None, Torn}]

Labels == {"idle", "archive", "copy", "input", "request", "current", "fetch",
           "check", "der", "source"}

Locals == [mode : Modes \cup {None},
           data : Inputs \cup {None},         \* what was requested
           fetched : Certificates \cup {None},
           req : Inputs \cup {None},          \* what current_request read
           dest : Certificates \cup {None},   \* the history directory
           next : Labels,                     \* where archive returns
           alone : BOOLEAN,                   \* no other invocation overlapped
           result : {"none", "PASS", "STAGED", "FAIL"}]

TypeOK == /\ input \in [Kinds -> Inputs \cup {None}]
          /\ request \in Inputs \cup {None}
          /\ der \in Certificates \cup {None}
          /\ source \in Provenance \cup {None}
          /\ history \in [Certificates -> Copies]
          /\ issued \in 0..MaxIssued
          /\ runs \in [Collectors -> 0..MaxRuns]
          /\ pc \in [Collectors -> Labels]
          /\ run \in [Collectors -> Locals]

NoCopies == [der |-> None, source |-> None, url |-> None, report |-> None]

NoRun == [mode |-> None, data |-> None, fetched |-> None, req |-> None, dest |-> None,
          next |-> "idle", alone |-> FALSE, result |-> "none"]

Init == /\ input = [k \in Kinds |-> None]
        /\ request = None
        /\ der = None
        /\ source = None
        /\ history = [c \in Certificates |-> NoCopies]
        /\ issued = 0
        /\ runs = [p \in Collectors |-> 0]
        /\ pc = [p \in Collectors |-> "idle"]
        /\ run = [p \in Collectors |-> NoRun]

---------------------------------------------------------------------------
\* current_request: the request names an input that is still in place.
RequestIntact == request # None /\ input[KindOf[request]] = request

\* current: the certificate and its record belong to the request.
Current == /\ RequestIntact
           /\ source # None /\ der # None
           /\ source.input = request /\ source.certificate = der

Goto(p, label) == pc' = [pc EXCEPT ![p] = label]

End(p, result) == /\ Goto(p, "idle")
                  /\ run' = [run EXCEPT ![p].result = result]

\* Call archive and continue at `next`.
Archive(p, next, local) ==
    /\ Goto(p, "archive")
    /\ run' = [run EXCEPT ![p] = [local EXCEPT !.next = next]]

---------------------------------------------------------------------------
(* collect-vcek.sh: <node>, --download and --from-report *)

\* --download requests again the URL that is already there.
MayRequest(mode, i) == CASE mode = "node" -> KindOf[i] = "url"
                         [] mode = "download" -> input["url"] = i
                         [] mode = "report" -> KindOf[i] = "report"

Start(p) == \E mode \in ModesOf[p], i \in Inputs :
    /\ pc[p] = "idle" /\ runs[p] < MaxRuns
    /\ MayRequest(mode, i)
    /\ runs' = [runs EXCEPT ![p] = @ + 1]
    /\ Goto(p, "archive")
    /\ run' = [q \in Collectors |->
                 IF q = p THEN [NoRun EXCEPT !.mode = mode, !.data = i, !.next = "input",
                                  !.alone = \A o \in Collectors \ {p} : pc[o] = "idle"]
                 ELSE [run[q] EXCEPT !.alone = FALSE]]
    /\ UNCHANGED <<files, issued>>

(* archive *)

ReadDigest(p) ==
    /\ pc[p] = "archive"
    /\ run' = [run EXCEPT ![p].dest = der]
    /\ Goto(p, IF der = None THEN run[p].next ELSE "copy")
    /\ UNCHANGED <<files, issued, runs>>

\* The file in the given place among those to copy, after n copies were made and
\* the next one was cut short: what is already in the directory is left as it is.
CopyOf(kept, file, place, n) ==
    IF kept # None \/ file = None THEN kept
    ELSE IF place <= n THEN file
    ELSE IF place = n + 1 THEN Torn ELSE None

CopiedUpTo(entry, n) == [der |-> CopyOf(entry.der, der, 1, n),
                         source |-> CopyOf(entry.source, source, 2, n),
                         url |-> CopyOf(entry.url, input["url"], 3, n),
                         report |-> CopyOf(entry.report, input["report"], 4, n)]

CopyFiles(p) ==
    /\ pc[p] = "copy"
    /\ \/ /\ history' = [history EXCEPT ![run[p].dest] = CopiedUpTo(@, 4)]
          /\ IF run[p].next = "idle" THEN End(p, "PASS")
             ELSE Goto(p, run[p].next) /\ UNCHANGED run
       \/ /\ \E n \in 0..3 : history' = [history EXCEPT ![run[p].dest] = CopiedUpTo(@, n)]
          /\ End(p, "FAIL")
    /\ UNCHANGED <<input, request, der, source, issued, runs>>

(* request *)

WriteInput(p) ==
    /\ pc[p] = "input"
    /\ input' = [input EXCEPT ![KindOf[run[p].data]] = run[p].data]
    /\ Goto(p, "request")
    /\ UNCHANGED <<request, der, source, history, issued, runs, run>>

WriteRequest(p) ==
    /\ pc[p] = "request"
    /\ request' = run[p].data
    /\ Goto(p, IF run[p].mode = "download" THEN "fetch" ELSE "current")
    /\ UNCHANGED <<input, der, source, history, issued, runs, run>>

\* A current certificate is kept; without the KDS the request stays for later.
DecideCached(p) ==  \* mutant: any cached certificate is kept
    /\ pc[p] = "current"
    /\ IF der # None THEN End(p, "PASS")
       ELSE \/ Goto(p, "fetch") /\ UNCHANGED run
            \/ End(p, "STAGED")
    /\ UNCHANGED <<files, issued, runs>>
Decide(p) ==
    /\ pc[p] = "current"
    /\ IF Current THEN End(p, "PASS")
       ELSE \/ Goto(p, "fetch") /\ UNCHANGED run
            \/ End(p, "STAGED")
    /\ UNCHANGED <<files, issued, runs>>

\* <node> fetches the URL it collected; --download and --from-report read the
\* file in the directory once more.
Subject(p) == IF run[p].mode = "node" THEN run[p].data ELSE input[KindOf[run[p].data]]

Fetch(p) ==
    /\ pc[p] = "fetch"
    /\ \/ /\ issued < MaxIssued
          /\ issued' = issued + 1
          /\ run' = [run EXCEPT ![p].fetched = [of |-> Subject(p), n |-> issued + 1]]
          /\ Goto(p, "check")
       \/ End(p, "FAIL") /\ UNCHANGED issued
    /\ UNCHANGED <<files, runs>>

(* publish *)

CheckIntact(p) ==  \* mutant: the request need not be the one that was fetched for
    /\ pc[p] = "check"
    /\ IF RequestIntact THEN Archive(p, "der", [run[p] EXCEPT !.req = request])
       ELSE End(p, "FAIL")
    /\ UNCHANGED <<files, issued, runs>>
Check(p) ==
    /\ pc[p] = "check"
    /\ IF RequestIntact /\ request = run[p].data
       THEN Archive(p, "der", [run[p] EXCEPT !.req = request])
       ELSE End(p, "FAIL")
    /\ UNCHANGED <<files, issued, runs>>

WriteDer(p) ==
    /\ pc[p] = "der"
    /\ der' = run[p].fetched
    /\ Goto(p, "source")
    /\ UNCHANGED <<input, request, source, history, issued, runs, run>>

\* {**req, "certificateSha256": ...}, and the archive that ends publish.
WriteSourceBare(p) ==  \* mutant: the record of the request is not merged in
    /\ pc[p] = "source"
    /\ source' = [certificate |-> run[p].fetched]
    /\ Archive(p, "idle", run[p])
    /\ UNCHANGED <<input, request, der, history, issued, runs>>
WriteSource(p) ==
    /\ pc[p] = "source"
    /\ source' = [input |-> run[p].req, certificate |-> run[p].fetched]
    /\ Archive(p, "idle", run[p])
    /\ UNCHANGED <<input, request, der, history, issued, runs>>

\* The invocation stops between two file operations.
Interrupt(p) == /\ pc[p] # "idle"
                /\ End(p, "FAIL")
                /\ UNCHANGED <<files, issued, runs>>

Collect(p) == \/ Start(p) \/ ReadDigest(p) \/ CopyFiles(p)
              \/ WriteInput(p) \/ WriteRequest(p) \/ Decide(p) \/ Fetch(p)
              \/ Check(p) \/ WriteDer(p) \/ WriteSource(p) \/ Interrupt(p)

Next == \E p \in Collectors : Collect(p)

Spec == Init /\ [][Next]_vars

---------------------------------------------------------------------------
(* Safety *)

\* Whatever stopped or overlapped before, a certificate that current() accepts
\* (which is what --seed publishes to Trustee) was issued for the very input
\* of the current request (vcek_bundle.py:78-99).
CurrentIsCertified == Current => der.of = request

\* However broken the files are that earlier invocations left, one invocation
\* that ends well with no other beside it leaves a current certificate for the
\* input it was given (vcek_bundle.py:95, collect-vcek.sh:94-131).
LoneRunConverges ==
    \A p \in Collectors :
        run[p].result = "PASS" /\ run[p].alone =>
            Current /\ request = run[p].data /\ der.of = run[p].data
=============================================================================
