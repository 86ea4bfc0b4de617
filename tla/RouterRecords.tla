---------------------------- MODULE RouterRecords ----------------------------
(***************************************************************************)
(* The rows of one router and the handlers that change them: the dashboard *)
(* (src/internal/routers) and the callbacks of the router itself           *)
(* (src/internal/provisioning).  Most of them read the row, change some    *)
(* columns of the copy and save all of it, with the port assignments the   *)
(* copy was read with.  Here are the claim token, the deletion and the     *)
(* port assignments; addresses and remote access are in RemoteAccess.      *)
(* Interface lists are replaced in one step.                               *)
(***************************************************************************)
EXTENDS Integers, FiniteSets

CONSTANTS Requests,     \* requests that can be in flight together
          Actors,       \* accounts that may see the router: its owner, superadmins
          Interfaces,   \* names of its interfaces
          Layouts,      \* assignments the dashboard may send, sets of <<interface, role>>
          Reports,      \* interface lists the router may report, sets of <<interface, usable>>
          MaxTokens, MaxChallenges, MaxBatches   \* bounds

ASSUME RecordsAssumption == /\ {MaxTokens, MaxChallenges, MaxBatches} \subseteq Nat
                            /\ \A L \in Layouts : \A x \in L : x[1] \in Interfaces

VARIABLES row,         \* the routers row
          ports,       \* router_port_assignments: the batches inserted together
          ifaces,      \* router_interfaces rows
          challenges,  \* router_delete_challenges rows, in order of creation
          tokens,      \* claim tokens handed out so far
          batches,     \* batches of assignments inserted so far
          op,          \* requests in flight
          revoked,     \* history: tokens that were replaced or whose router was deleted
          servedLate,  \* history: some request was served for a revoked token
          overtaken,   \* history: a copy was saved over a row that had changed
          crossed      \* history: two replacements of the assignments overlapped

records == <<row, ports, ifaces, challenges, tokens, batches, op, revoked, servedLate, overtaken, crossed>>

DeletedToken == 0

Absent == [state |-> "none", token |-> DeletedToken, aged |-> FALSE, linked |-> FALSE]

NoOp == [pc |-> "idle", kind |-> "none", copy |-> Absent, rows |-> {}, layout |-> {},
         challenge |-> 0, actor |-> "nobody"]

Is(q, p) == op[q].pc = p

\* Callbacks carry the token, the dashboard the router's id.
Callbacks == {"checkIn", "interface", "config", "key", "status"}

Dashboard == {"regenerate", "directApi", "deploy"}

RecordsInit == /\ row = Absent
               /\ ports = {}
               /\ ifaces = {}
               /\ challenges = << >>
               /\ tokens = 0
               /\ batches = 0
               /\ op = [q \in Requests |-> NoOp]
               /\ revoked = {}
               /\ servedLate = FALSE
               /\ overtaken = FALSE
               /\ crossed = FALSE

-----------------------------------------------------------------------------
(* Port assignments.                                                       *)

RequiredOnce == "WAN"

\* Mutant: an interface may be listed with two roles.
ValidAnyRoles(layout) ==
  /\ Cardinality({x \in layout : x[2] = RequiredOnce}) = 1
  /\ \E x \in layout : x[2] = "HOTSPOT_LAN"
  /\ \E x \in layout : x[2] = "FREE_LAN"

\* portprofiles.Validate.
Valid(layout) ==
  /\ \A x, y \in layout : x[1] = y[1] => x = y
  /\ ValidAnyRoles(layout)

\* validateAssignablePorts: discovered, enabled and physical.  Of two rows of a name one is taken.
Assignable(layout) ==
  \A x \in layout : x[2] # "DISABLED" => \E i \in ifaces : i[1] = x[1] /\ i[2]

\* The rows as ConfigPreview and ClaimConfig read them.
Assigned(rows) == UNION {b.layout : b \in rows}

\* ConfigPreview validates the saved rows, and falls back on the default topology when there are
\* none.  Of two batches either some rows are the same or there are two WANs.
Previewable == \A b, c \in ports : b = c /\ Valid(b.layout)

-----------------------------------------------------------------------------
(* Reading and saving the row.                                             *)

\* Find and FindForUser.
FoundById == row.state = "live"

\* FindByClaimToken.
FoundByToken(t) == row.state = "live" /\ row.token = t

\* canFetchConfigAfterClaimExpiry; interface check-ins do not ask it, keys and status reports do not
\* look at the expiry.
TokenUsable(kind) ==
  CASE kind \in {"checkIn", "config"} -> ~row.aged \/ row.linked
    [] kind = "interface"             -> ~row.aged
    [] OTHER                          -> TRUE

\* Mutant: only the expiry is renewed.
Renewed(copy) == [copy EXCEPT !.aged = FALSE]

\* RegenerateClaimToken.
Regenerated(copy) == [copy EXCEPT !.token = tokens + 1, !.aged = FALSE]

\* What the handlers change before they save: key, status, config and deploy mark the router linked.
Change(kind) == IF kind \in {"config", "key", "status", "deploy"} THEN "link" ELSE kind

Changed(change, copy) ==
  CASE change = "regenerate" -> Regenerated(copy)
    [] change = "directApi"  -> copy
    [] OTHER                 -> [copy EXCEPT !.linked = TRUE]

\* POST /routers.
Create ==
  /\ row.state = "none"
  /\ row' = [Absent EXCEPT !.state = "live", !.token = 1]
  /\ tokens' = 1
  /\ UNCHANGED <<ports, ifaces, challenges, batches, op, revoked, servedLate, overtaken, crossed>>

\* A handler reads the router it is about to save.
Read(q, kind) == op' = [op EXCEPT ![q] = [NoOp EXCEPT !.pc = "save", !.kind = Change(kind), !.copy = row, !.rows = ports]]

ReadForDashboard(q, kind) ==
  /\ Is(q, "idle")
  /\ FoundById
  /\ kind = "regenerate" => tokens < MaxTokens
  /\ kind = "deploy" => Previewable
  /\ Read(q, kind)
  /\ UNCHANGED <<row, ports, ifaces, challenges, tokens, batches, revoked, servedLate, overtaken, crossed>>

ReadForCallback(q, kind, t) ==
  /\ Is(q, "idle")
  /\ FoundByToken(t)
  /\ TokenUsable(kind)
  /\ Read(q, kind)
  /\ servedLate' = (servedLate \/ t \in revoked)
  /\ UNCHANGED <<row, ports, ifaces, challenges, tokens, batches, revoked, overtaken, crossed>>

\* Save: every column of the copy, deleted_at included, and its assignments again.
Save(q) ==
  LET change == op[q].kind
      copy   == op[q].copy
  IN  /\ Is(q, "save")
      /\ change = "regenerate" => tokens < MaxTokens
      /\ row' = Changed(change, copy)
      /\ ports' = ports \union op[q].rows
      /\ overtaken' = (overtaken \/ row.state # copy.state \/ row.token # copy.token
                                \/ ~(op[q].rows \subseteq ports))
      /\ tokens' = IF change = "regenerate" THEN tokens + 1 ELSE tokens
      /\ revoked' = IF change = "regenerate" THEN revoked \union {row.token} ELSE revoked
      /\ op' = [op EXCEPT ![q] = IF change \in {"checkIn", "interface"}
                                 THEN [NoOp EXCEPT !.pc = "discover", !.kind = change] ELSE NoOp]
      /\ UNCHANGED <<ifaces, challenges, batches, servedLate, crossed>>

\* ReplaceInterfaces with the list of a check-in, or UpsertInterface of one interface.
Discover(q, report) ==
  /\ Is(q, "discover")
  /\ op[q].kind = "interface" => Cardinality(report) = 1
  /\ ifaces' = IF op[q].kind = "checkIn" THEN report
               ELSE {i \in ifaces : \A n \in report : n[1] # i[1]} \union report
  /\ op' = [op EXCEPT ![q] = NoOp]
  /\ UNCHANGED <<row, ports, challenges, tokens, batches, revoked, servedLate, overtaken, crossed>>

\* UpdateProvisioningStatus: a targeted update, no copy.
ReportStatus(t) ==
  /\ FoundByToken(t)
  /\ row' = [row EXCEPT !.linked = TRUE]
  /\ servedLate' = (servedLate \/ t \in revoked)
  /\ UNCHANGED <<ports, ifaces, challenges, tokens, batches, op, revoked, overtaken, crossed>>

-----------------------------------------------------------------------------
(* SavePortAssignments.                                                    *)

ChoosePorts(q, layout) ==
  /\ Is(q, "idle")
  /\ FoundById
  /\ batches < MaxBatches
  /\ Valid(layout)
  /\ Assignable(layout)
  /\ op' = [op EXCEPT ![q] = [NoOp EXCEPT !.pc = "replace", !.layout = layout]]
  /\ UNCHANGED <<row, ports, ifaces, challenges, tokens, batches, revoked, servedLate, overtaken, crossed>>

\* ReplacePortAssignments begins with a DELETE of the rows it can see ...
DeletePorts(q) ==
  /\ Is(q, "replace")
  /\ op' = [op EXCEPT ![q].pc = "insert", ![q].rows = ports]
  /\ UNCHANGED <<row, ports, ifaces, challenges, tokens, batches, revoked, servedLate, overtaken, crossed>>

\* ... and inserts its own; a batch that was inserted meanwhile stays beside them.
InsertPorts(q) ==
  /\ Is(q, "insert")
  /\ batches < MaxBatches
  /\ ports' = (ports \ op[q].rows) \union {[id |-> batches + 1, layout |-> op[q].layout]}
  /\ batches' = batches + 1
  /\ crossed' = (crossed \/ ~(ports \subseteq op[q].rows))
  /\ op' = [op EXCEPT ![q] = NoOp]
  /\ UNCHANGED <<row, ifaces, challenges, tokens, revoked, servedLate, overtaken>>

-----------------------------------------------------------------------------
(* Deletion.                                                               *)

\* RequestDeleteChallenge.
RequestDeleteChallenge(actor) ==
  /\ FoundById
  /\ Cardinality(DOMAIN challenges) < MaxChallenges
  /\ challenges' = [c \in 1 .. Cardinality(DOMAIN challenges) + 1 |->
                      IF c \in DOMAIN challenges THEN challenges[c]
                      ELSE [actor |-> actor, used |-> 0, aged |-> FALSE]]
  /\ UNCHANGED <<row, ports, ifaces, tokens, batches, op, revoked, servedLate, overtaken, crossed>>

\* DeleteRouter looks the router up, and only then opens the transaction.
BeginDelete(q, c, actor) ==
  /\ Is(q, "idle")
  /\ FoundById
  /\ op' = [op EXCEPT ![q] = [NoOp EXCEPT !.pc = "delete", !.challenge = c, !.actor = actor]]
  /\ UNCHANGED <<row, ports, ifaces, challenges, tokens, batches, revoked, servedLate, overtaken, crossed>>

\* Checked under the challenge's row lock; the confirmation text is the router's name.
ChallengeAccepted(c, actor) ==
  /\ challenges[c].actor = actor
  /\ challenges[c].used = 0
  /\ ~challenges[c].aged

Delete(q) ==
  LET c == op[q].challenge
  IN  /\ Is(q, "delete")
      /\ IF ChallengeAccepted(c, op[q].actor)
         THEN /\ challenges' = [challenges EXCEPT ![c].used = @ + 1]
              /\ row' = [row EXCEPT !.state = "deleted", !.token = DeletedToken, !.aged = FALSE]
              /\ revoked' = revoked \union ({row.token} \ {DeletedToken})
         ELSE UNCHANGED <<challenges, row, revoked>>
      /\ op' = [op EXCEPT ![q] = NoOp]
      /\ UNCHANGED <<ports, ifaces, tokens, batches, servedLate, overtaken, crossed>>

\* The clock.
TokenAges ==
  /\ row.state = "live" /\ ~row.aged
  /\ row' = [row EXCEPT !.aged = TRUE]
  /\ op' = [q \in Requests |->
              IF Is(q, "save") THEN [op[q] EXCEPT !.copy.aged = (@ \/ op[q].copy.token = row.token)] ELSE op[q]]
  /\ UNCHANGED <<ports, ifaces, challenges, tokens, batches, revoked, servedLate, overtaken, crossed>>

ChallengeAges(c) ==
  /\ c \in DOMAIN challenges /\ ~challenges[c].aged
  /\ challenges' = [challenges EXCEPT ![c].aged = TRUE]
  /\ UNCHANGED <<row, ports, ifaces, tokens, batches, op, revoked, servedLate, overtaken, crossed>>

RecordsNext ==
  \/ Create
  \/ \E t \in 1 .. tokens : ReportStatus(t)
  \/ \E actor \in Actors : RequestDeleteChallenge(actor)
  \/ TokenAges
  \/ \E c \in DOMAIN challenges : ChallengeAges(c)
  \/ \E q \in Requests :
       \/ \E kind \in Dashboard : ReadForDashboard(q, kind)
       \/ \E kind \in Callbacks, t \in 1 .. tokens : ReadForCallback(q, kind, t)
       \/ Save(q)
       \/ \E report \in Reports : Discover(q, report)
       \/ \E layout \in Layouts : ChoosePorts(q, layout)
       \/ DeletePorts(q)
       \/ InsertPorts(q)
       \/ \E c \in DOMAIN challenges, actor \in Actors : BeginDelete(q, c, actor)
       \/ Delete(q)

-----------------------------------------------------------------------------
(* Properties.                                                             *)

\* A claim token that was replaced, or whose router was deleted, opens nothing any more, and a
\* deleted router stays deleted, each deletion by one challenge of its actor: only a copy of the row
\* that was read before and saved after can undo this.
RevocationHolds ==
  /\ servedLate => overtaken
  /\ row.state = "live" /\ row.token \in revoked => overtaken
  /\ row.state = "live" /\ (\E c \in DOMAIN challenges : challenges[c].used > 0) => overtaken
  /\ \A c \in DOMAIN challenges : challenges[c].used <= 1

\* The saved assignments give each interface one role and the router one WAN, unless two
\* replacements crossed or an old copy was saved.
OnePortOneRole ==
  LET saved == Assigned(ports)
  IN  ports # {} /\ ~crossed /\ ~overtaken =>
        /\ \A x, y \in saved : x[1] = y[1] => x = y
        /\ Cardinality({x \in saved : x[2] = RequiredOnce}) = 1
=============================================================================
