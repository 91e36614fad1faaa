---------------------------- MODULE MCVcekBundle ----------------------------
(* Instances of VcekBundle for TLC. *)
EXTENDS VcekBundle, TLC

CONSTANTS p1, p2, u1, u2, r1

KindOfThree == u1 :> "url" @@ u2 :> "url" @@ r1 :> "report"
KindOfUrls == u1 :> "url" @@ u2 :> "url"

\* One collector handles the URLs, the other the reports, of one hardware ID.
OneForEachKind == p1 :> {"node", "download"} @@ p2 :> {"report"}

\* Both handle the URLs.
BothUrls == p1 :> {"node", "download"} @@ p2 :> {"node"}
=============================================================================
