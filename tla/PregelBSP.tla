----------------------------- MODULE PregelBSP -----------------------------
(***************************************************************************)
(* What the engine promises to the author of a vertex program, as the      *)
(* section "Computation Model" of README.md puts it: in every superstep    *)
(* each active vertex computes once, on exactly the messages sent to it in *)
(* the superstep before, and a halted vertex is woken by a message.        *)
(*                                                                         *)
(* When the run ends is not part of this specification.                    *)
(***************************************************************************)
EXTENDS Naturals

CONSTANTS Vertices, Edges

VARIABLES
  superstep,
  halted,     \* halted[v]: v has voted to halt
  mail,       \* messages of the previous superstep not yet received
  sent,       \* messages sent in this superstep
  computed    \* vertices that have computed in this superstep

bspVars == <<superstep, halted, mail, sent, computed>>

MailOf(v) == {m \in mail : m.dst = v}

BspInit ==
  /\ superstep = 0
  /\ halted = [v \in Vertices |-> FALSE]
  /\ mail = {}
  /\ sent = {}
  /\ computed = {}

\* A halted vertex with mail may be woken until it computes.
Wakeable == {v \in Vertices \ computed : halted[v] /\ MailOf(v) # {}}

Wake(S) ==
  /\ halted' = [v \in Vertices |-> halted[v] /\ v \notin S]
  /\ UNCHANGED <<superstep, mail, sent, computed>>

Compute(v) ==
  /\ v \notin computed
  /\ ~halted[v]
  /\ computed' = computed \cup {v}
  /\ mail' = mail \ MailOf(v)
  /\ \E D \in SUBSET Edges[v] :
       sent' = sent \cup {[src |-> v, dst |-> d, step |-> superstep] : d \in D}
  /\ \E h \in BOOLEAN : halted' = [halted EXCEPT ![v] = h]
  /\ UNCHANGED superstep

Advance ==
  /\ \A v \in Vertices \ computed : halted[v] /\ MailOf(v) = {}
  /\ superstep' = superstep + 1
  /\ mail' = sent
  /\ sent' = {}
  /\ computed' = {}
  /\ UNCHANGED halted

BspNext ==
  \/ \E S \in SUBSET Wakeable : Wake(S)
  \/ \E v \in Vertices : Compute(v)
  \/ Advance

BspSpec == BspInit /\ [][BspNext]_bspVars
============================================================================
