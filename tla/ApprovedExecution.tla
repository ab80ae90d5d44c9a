-------------------------- MODULE ApprovedExecution --------------------------
(***************************************************************************)
(* What the gateway and the loop promise of a message's calls together     *)
(* (docs/safety-and-tool-use.md), whatever prompts, previews, review       *)
(* screens and the bus do on the way: a call is proposed, runs with a      *)
(* licence or is turned away, and is recorded as it ends.  A consent is    *)
(* given to what is proposed and is used once.  What runs together only    *)
(* reads.                                                                  *)
(***************************************************************************)
EXTENDS Naturals, FiniteSets

CONSTANTS
  Slots,         (* the calls of a message                                 *)
  Acts,          (* what they would do                                     *)
  NoAct,
  Versions,      (* previews of an act                                     *)
  Concurrent,    (* acts that only read                                    *)
  Denied,        (* acts that never run                                    *)
  Asked,         (* acts that need a consent                               *)
  Ungrantable    (* acts that need one every time                          *)

VARIABLES
  book,          (* slot -> what is proposed there and how far it is       *)
  consents,      (* <<act, preview>> -> consents given and not used        *)
  granted        (* acts that need none for the rest of the session        *)

allVars == <<book, consents, granted>>

(* What is written of a call: the preview it runs with, its audit records. *)
Line(a, stage, shown, records) == [act |-> a, stage |-> stage, shown |-> shown, records |-> records]

Empty == Line(NoAct, "none", 0, 0)
Proposal(a) == Line(a, "proposed", 0, 0)

Init ==
  /\ book = [s \in Slots |-> Empty]
  /\ consents = [x \in Acts \X Versions |-> 0]
  /\ granted = {}

(* A message: its calls. *)
Propose ==
  /\ \A s \in Slots : book[s] = Empty
  /\ book' \in [Slots -> {Empty} \union {Proposal(a) : a \in Acts}]
  /\ UNCHANGED <<consents, granted>>

(* The user changes what a call would do, and is asked again. *)
Amend(s) ==
  /\ book[s].stage = "proposed"
  /\ \E a \in Acts :
       /\ (a \in Concurrent) = (book[s].act \in Concurrent)
       /\ book' = [book EXCEPT ![s] = Proposal(a)]
  /\ UNCHANGED <<consents, granted>>

(* The user says yes to some of the calls that wait, each as it is shown. *)
Consent ==
  /\ \E yes \in SUBSET {s \in Slots : book[s].stage = "proposed"} :
     \E shown \in [Slots -> Versions] :
       consents' = [x \in Acts \X Versions |->
         consents[x] + Cardinality({s \in yes : x = <<book[s].act, shown[s]>>})]
  /\ UNCHANGED <<book, granted>>

(* No consent is needed, or one that was given to this act as it is shown  *)
(* is used; it may be the one that grants the act for good.                *)
Licensed(a, v) ==
  \/ /\ a \notin Asked \/ a \in granted
     /\ UNCHANGED <<consents, granted>>
  \/ /\ consents[<<a, v>>] > 0
     /\ consents' = [consents EXCEPT ![<<a, v>>] = @ - 1]
     /\ granted' \in {granted, granted \union ({a} \ Ungrantable)}

Start(s) ==
  /\ book[s].stage = "proposed"
  /\ book[s].act \notin Denied
  /\ \A t \in Slots : book[t].stage = "running" => {book[s].act, book[t].act} \subseteq Concurrent
  /\ \E v \in Versions :
       /\ Licensed(book[s].act, v)
       /\ book' = [book EXCEPT ![s] = Line(@.act, "running", v, 0)]

(* A call is over, whether it ran or not. *)
Finish(s) ==
  /\ book[s].stage \in {"proposed", "running"}
  /\ book' = [book EXCEPT ![s] = Line(@.act, "done", 0, @.records + 1)]
  /\ UNCHANGED <<consents, granted>>

(* All calls of the message are over. *)
Clear ==
  /\ \A s \in Slots : book[s].stage \in {"none", "done"}
  /\ book' = [s \in Slots |-> Empty]
  /\ UNCHANGED <<consents, granted>>

Next ==
  \/ Propose \/ Consent \/ Clear
  \/ \E s \in Slots : Amend(s) \/ Start(s) \/ Finish(s)

Spec == Init /\ [][Next]_allVars
=============================================================================
