---------------------------- MODULE MCRequest_proofs ----------------------------
EXTENDS
    MCRequest, Sequences, SequenceTheorems, FiniteSetTheorems, WellFoundedInduction, TLAPS

\* There is a least of any numbers, and a greatest of those up to n.
Less == {p \in Nat \X Nat : p[1] < p[2]}
LEMMA Least == ASSUME NEW T, T \subseteq Nat, T # {} PROVE \E m \in T : \A n \in T : m <= n
<1>1. IsWellFoundedOn(Less, Nat)
  BY NatLessThanWellFounded DEF OpToRel, Less
<1>2. PICK m \in T : \A n \in T : ~(<<n, m>> \in Less)
  BY <1>1, WFMin
<1>3. ASSUME NEW n \in T PROVE m <= n
  <2>1. m \in Nat /\ n \in Nat /\ ~(<<n, m>> \in Less)
    BY <1>2
  <2>2. ~(n < m)
    BY <2>1 DEF Less
  <2> QED BY <2>1, <2>2
<1> QED BY <1>3

\* Of some numbers up to n one is the greatest.
LEMMA Greatest ==
    ASSUME NEW n \in Nat, NEW T, T \subseteq 0..n, T # {}
    PROVE  \E m \in T : \A k \in T : k <= m
<1> DEFINE far == {n - k : k \in T}
<1>1. far \subseteq Nat /\ far # {}
  <2>1. \A k \in 0..n : n - k \in Nat
    OBVIOUS
  <2> QED BY <2>1
<1>2. PICK f \in far : \A g \in far : f <= g
  <2> HIDE DEF far
  <2> QED BY <1>1, Least
<1>3. PICK m \in T : f = n - m
  OBVIOUS
<1>4. \A k \in T : n - m <= n - k
  BY <1>2, <1>3
<1> QED BY <1>4

(***************************************************************************)
(* The archive of the web: no page is moved away unread, for any modules,  *)
(* sources and pages, and any number of failures and deaths.               *)
(***************************************************************************)

\* A page the collection, or a logged error, accounts for.
PagesSettled(p) ==
    \/ p \in collection \union Barren \union excused
    \/ \E q \in collection : {p, q} \in Alike

(* The inductive invariant: what waits does not grow while the cleaner is between *)
(* its steps.                                                                     *)
PagesAllRead == sweep = "storing"
      => Pages!Waiting(Head(todo)) \subseteq texts \union excused
PagesAllSettled == sweep = "moving"
      => \A p \in Pages!Waiting(Head(todo)) : PagesSettled(p)
PagesIInv == PagesAllRead /\ PagesAllSettled /\ Pages!NothingSkipped

\* What is settled stays so.
LEMMA PagesSettledStays ==
    ASSUME collection \subseteq collection', excused \subseteq excused', NEW p,
           PagesSettled(p)
    PROVE  PagesSettled(p)'
BY DEF PagesSettled

\* Nothing is archived at first.
LEMMA PagesInitially == Pages!Init => PagesIInv
BY DEF Pages!Init, PagesIInv, PagesAllRead, PagesAllSettled, Pages!NothingSkipped

\* The crawlers run only when the cleaner is between two runs.
LEMMA PagesCrawlersKeep ==
    ASSUME PagesIInv, Pages!LoopIsFree,
           UNCHANGED <<archived, collection, sweep, todo, texts>>,
           excused \subseteq excused'
    PROVE  PagesIInv'
<1>1. sweep' = "idle"
  BY DEF Pages!LoopIsFree
<1>2. PagesAllRead' /\ PagesAllSettled'
  BY <1>1 DEF PagesAllRead, PagesAllSettled
<1>3. \A p \in archived' : PagesSettled(p)'
  BY PagesSettledStays DEF PagesIInv, Pages!NothingSkipped, PagesSettled
<1> QED BY <1>2, <1>3 DEF PagesIInv, Pages!NothingSkipped, PagesSettled

\* Storing puts the texts that were read into the collection, or finds texts like them.
LEMMA PagesStoreKeeps == ASSUME PagesIInv, Pages!Store PROVE PagesIInv'
<1>1. /\ collection \subseteq collection' /\ excused \subseteq excused' /\ sweep = "storing"
      /\ sweep' = "moving" /\ UNCHANGED <<raw, archived, todo, texts>>
  BY DEF Pages!Store
<1>2. PagesAllRead'
  BY <1>1 DEF PagesAllRead
<1>3. ASSUME NEW p \in texts PROVE PagesSettled(p)'
  <2>1. CASE p \in Barren
    BY <2>1 DEF PagesSettled
  <2>2. CASE excused' = excused \union texts
    BY <1>3, <2>2 DEF PagesSettled
  <2>3. CASE p \notin Barren /\ excused' # excused \union texts
    <3>1. PICK unique \in Pages!Distinct(texts \ Barren) : collection' = collection \union unique
      BY <2>3 DEF Pages!Store
    <3>2. CASE p \in unique
      BY <3>1, <3>2 DEF PagesSettled
    <3>3. CASE p \notin unique
      <4>1. PICK q \in unique : {p, q} \in Alike
        BY <1>3, <2>3, <3>1, <3>3 DEF Pages!Distinct
      <4> QED BY <3>1, <4>1 DEF PagesSettled
    <3> QED BY <3>2, <3>3
  <2> QED BY <2>1, <2>2, <2>3
<1>4. \A p \in Pages!Waiting(Head(todo)) : PagesSettled(p)'
  <2> TAKE p \in Pages!Waiting(Head(todo))
  <2>1. p \in texts \/ p \in excused'
    BY <1>1 DEF PagesIInv, PagesAllRead
  <2> QED BY <1>3, <2>1 DEF PagesSettled
<1>5. PagesAllSettled'
  BY <1>1, <1>4 DEF PagesAllSettled, Pages!Waiting
<1>6. \A p \in archived' : PagesSettled(p)'
  BY <1>1, PagesSettledStays DEF PagesIInv, Pages!NothingSkipped, PagesSettled
<1> QED BY <1>2, <1>5, <1>6 DEF PagesIInv, Pages!NothingSkipped, PagesSettled

\* What is moved was settled before; what still waits was as well.
LEMMA PagesMoveKeeps == ASSUME PagesIInv, Pages!Move PROVE PagesIInv'
<1>1. PICK p \in Pages!Waiting(Head(todo)) : /\ raw' = raw \ {p}
                                             /\ archived' = archived \union {p}
  BY DEF Pages!Move
<1>2. sweep = "moving" /\ UNCHANGED <<collection, excused, sweep, todo, texts>>
  BY DEF Pages!Move, Pages!cleaning
<1>3. \A q \in Pages!Waiting(Head(todo)) : PagesSettled(q)'
  BY <1>2, PagesSettledStays DEF PagesIInv, PagesAllSettled
<1>4. PagesAllRead' /\ PagesAllSettled'
  BY <1>1, <1>2, <1>3 DEF PagesAllRead, PagesAllSettled, Pages!Waiting
<1>5. \A q \in archived : PagesSettled(q)'
  BY <1>2, PagesSettledStays DEF PagesIInv, Pages!NothingSkipped, PagesSettled
<1> QED BY <1>1, <1>3, <1>4, <1>5 DEF PagesIInv, Pages!NothingSkipped, PagesSettled

\* Every step of the crawlers and of the cleaner keeps it.
LEMMA PagesInductive == PagesIInv /\ [Pages!Next]_(Pages!vars) => PagesIInv'
<1> SUFFICES ASSUME PagesIInv, [Pages!Next]_(Pages!vars) PROVE PagesIInv'
  OBVIOUS
<1>1. CASE Pages!Crawl
  BY <1>1, PagesCrawlersKeep DEF Pages!Crawl, Pages!files, Pages!cleaning
<1>2. ASSUME NEW m \in Pages!Areas, NEW s \in Source, Pages!Fetch(m, s) PROVE PagesIInv'
  BY <1>2, PagesCrawlersKeep DEF Pages!Fetch, Pages!files, Pages!cleaning
<1>3. ASSUME NEW m \in Pages!Areas, NEW p \in Page, Pages!Save(m, p) PROVE PagesIInv'
  BY <1>3, PagesCrawlersKeep DEF Pages!Save, Pages!cleaning
<1>4. CASE Pages!Cancelled
  BY <1>4, PagesCrawlersKeep DEF Pages!Cancelled, Pages!files, Pages!cleaning
<1>5. CASE Pages!Begin
  <2>1. sweep' = "reading" /\ UNCHANGED <<archived, collection, excused>>
    BY <1>5 DEF Pages!Begin, Pages!files
  <2> QED BY <2>1 DEF PagesIInv, PagesAllRead, PagesAllSettled, Pages!NothingSkipped
<1>6. CASE Pages!Read
  <2>1. /\ sweep' = "storing" /\ UNCHANGED <<raw, archived, collection, todo>>
        /\ excused \subseteq excused'
        /\ Pages!Waiting(Head(todo)) \subseteq texts' \union excused'
    BY <1>6 DEF Pages!Read
  <2>2. PagesAllRead' /\ PagesAllSettled'
    BY <2>1 DEF PagesAllRead, PagesAllSettled, Pages!Waiting
  <2>3. \A p \in archived' : PagesSettled(p)'
    BY <2>1, PagesSettledStays DEF PagesIInv, Pages!NothingSkipped, PagesSettled
  <2> QED BY <2>2, <2>3 DEF PagesIInv, Pages!NothingSkipped, PagesSettled
<1>7. CASE Pages!Store
  BY <1>7, PagesStoreKeeps
<1>8. CASE Pages!Move
  BY <1>8, PagesMoveKeeps
<1>9. CASE Pages!NextModule \/ Pages!MoveRaises
  <2>1. sweep' \in {"idle", "reading"} /\ UNCHANGED <<archived, collection, excused>>
    BY <1>9 DEF Pages!NextModule, Pages!MoveRaises, Pages!files
  <2> QED BY <2>1 DEF PagesIInv, PagesAllRead, PagesAllSettled, Pages!NothingSkipped
<1>10. CASE Pages!Die
  <2>1. sweep' = "idle" /\ UNCHANGED <<archived, collection>> /\ excused \subseteq excused'
    BY <1>10 DEF Pages!Die
  <2>2. \A p \in archived' : PagesSettled(p)'
    BY <2>1, PagesSettledStays DEF PagesIInv, Pages!NothingSkipped, PagesSettled
  <2> QED BY <2>1, <2>2 DEF PagesIInv, PagesAllRead, PagesAllSettled, Pages!NothingSkipped,
             PagesSettled
<1>11. CASE UNCHANGED Pages!vars
  BY <1>11 DEF Pages!vars, PagesIInv, PagesAllRead, PagesAllSettled, Pages!NothingSkipped,
     Pages!Waiting, PagesSettled
<1> QED BY <1>1, <1>2, <1>3, <1>4, <1>5, <1>6, <1>7, <1>8, <1>9, <1>10, <1>11
       DEF Pages!Next, Pages!Cleaning

\* A page that was moved away is known, whatever the crawlers did meanwhile: its text is
\* in the collection, or that of a page like it, or it leaves no chunk, or an error was
\* logged (cleaner.py:21-51).
THEOREM PagesNothingIsSkipped == Pages!Spec => []Pages!NothingSkipped
<1>1. PagesIInv => Pages!NothingSkipped
  BY DEF PagesIInv
<1> QED BY PagesInitially, PagesInductive, <1>1, PTL DEF Pages!Spec

(***************************************************************************)
(* The learning gate: what is verified agrees, and a person approved it,   *)
(* for any number of gates, rows and failures.                             *)
(***************************************************************************)

\* The kernel approves only what each of its governors approves.
LEMMA LearnApproved ==
    ASSUME NEW a, NEW n, Learns!Evaluate(a, n) \notin {"escalate", "reject"}
    PROVE  ~(a.type \in Learns!SELF_MODIFYING_ACTIONS /\ a.approval)
<1> DEFINE verdicts == <<Learns!Recursion(a), Learns!Budget(a), Learns!Evolution(a),
                         Learns!Orchestration(a), Learns!Agent(a), Learns!Guardrails(a),
                         Learns!Memory(a, n)>>
           firm == {i \in DOMAIN verdicts : verdicts[i] # "approve"}
<1>0. DOMAIN verdicts = 1..7 /\ verdicts[3] = Learns!Evolution(a)
  OBVIOUS
<1>1. \A i \in DOMAIN verdicts : verdicts[i] \in {"approve", "escalate", "reject"}
  <2>1. \A i \in 1..7 : i = 1 \/ i = 2 \/ i = 3 \/ i = 4 \/ i = 5 \/ i = 6 \/ i = 7
    OBVIOUS
  <2>2. /\ Learns!Recursion(a) \in {"approve", "reject"}
        /\ Learns!Budget(a) \in {"approve", "reject"}
        /\ Learns!Evolution(a) \in {"approve", "escalate"}
        /\ Learns!Orchestration(a) \in {"approve", "escalate", "reject"}
        /\ Learns!Agent(a) \in {"approve", "reject"}
        /\ Learns!Guardrails(a) \in {"approve", "reject"}
        /\ Learns!Memory(a, n) \in {"approve", "reject"}
    <3>1. \A bad : Learns!RejectIf(bad) \in {"approve", "reject"}
      BY DEF Learns!RejectIf
    <3>2. Learns!Evolution(a) \in {"approve", "escalate"}
      BY DEF Learns!Evolution
    <3>3. Learns!Orchestration(a) \in {"approve", "escalate", "reject"}
      <4>1. CASE Learns!LosesContent(a)
        BY <4>1 DEF Learns!Orchestration
      <4>2. CASE ~Learns!LosesContent(a)
        BY <3>1, <4>2 DEF Learns!Orchestration
      <4> QED BY <4>1, <4>2
    <3> QED BY <3>1, <3>2, <3>3, Zenon
            DEF Learns!Recursion, Learns!Budget, Learns!Agent, Learns!Guardrails,
                Learns!Memory
  <2> QED BY <2>1, <2>2
<1>2. Learns!Evaluate(a, n) = IF firm = {} THEN "approve" ELSE verdicts[Learns!Min(firm)]
  BY Zenon DEF Learns!Evaluate
<1> HIDE DEF verdicts
<1>3. firm = {}
  <2> SUFFICES ASSUME firm # {} PROVE FALSE
    OBVIOUS
  <2>1. firm \subseteq Nat
    BY <1>0
  <2>2. PICK m \in firm : \A k \in firm : m <= k
    BY <2>1, Least
  <2>3. Learns!Min(firm) \in firm
    BY <2>2 DEF Learns!Min
  <2> QED BY <1>1, <1>2, <2>3
<1>4. Learns!Evolution(a) = "approve"
  BY <1>0, <1>3
<1> QED BY <1>4 DEF Learns!Evolution

LearnCall ==
    [at : {"checking", "writing", "indexing", "announcing"}, tier : Tier, domain : Domain,
     claim : Learns!Claim, approved : BOOLEAN, low : BOOLEAN, blind : BOOLEAN, id : Nat]
LearnTyped ==
    /\ IsFiniteSet(table) /\ made \in Nat
    /\ gates = [g \in Gate |-> gates[g]]
    /\ \A g \in Gate : gates[g].at \notin Learns!Over => gates[g] \in LearnCall
\* About to write what will be verified.
LearnVerifies(g) == gates[g].at = "writing" /\ gates[g].tier = "evolution"
\* A check that was not blind has seen what contradicts the claim, and still has ...
LearnSeen ==
    \A g \in Gate : LearnVerifies(g) =>
        /\ gates[g].approved
        /\ ~gates[g].blind =>
             \A r \in Learns!Verified :
                r.domain = gates[g].domain /\ Learns!Contradict(gates[g].claim, r.claim)
                    => r.blind
\* ... because of two calls on their way at a time one was checked blindly.
LearnApart ==
    \A g, h \in Gate :
        /\ g # h /\ LearnVerifies(g) /\ LearnVerifies(h)
        /\ gates[g].domain = gates[h].domain
        => gates[g].blind \/ gates[h].blind
LearnIInv ==
    /\ LearnTyped /\ LearnSeen /\ LearnApart
    /\ Learns!VerifiedAgree /\ Learns!VerifiedIsApproved

\* No gate has begun, and nothing is written.
LEMMA LearnInitially == Learns!Init => LearnIInv
<1> SUFFICES ASSUME Learns!Init PROVE LearnIInv
  OBVIOUS
<1>1. \A g \in Gate : gates[g].at = "idle"
  BY DEF Learns!Init, Learns!Done
<1>2. LearnTyped
  BY <1>1, FS_EmptySet DEF Learns!Init, LearnTyped, Learns!Over
<1>3. LearnSeen /\ LearnApart
  BY <1>1 DEF LearnSeen, LearnApart, LearnVerifies
<1> QED BY <1>2, <1>3 DEF LearnIInv, Learns!Init, Learns!VerifiedAgree,
           Learns!VerifiedIsApproved, Learns!Verified

\* A step that writes nothing and after which no other call is about to verify.
LEMMA LearnOthersKeep ==
    ASSUME LearnIInv, table' \subseteq table, made' \in Nat,
           gates' = [g \in Gate |-> gates'[g]],
           \A g \in Gate : gates'[g].at \notin Learns!Over => gates'[g] \in LearnCall,
           \A g \in Gate : LearnVerifies(g)' => gates'[g] = gates[g]
    PROVE  LearnIInv'
<1>1. LearnTyped'
  BY FS_Subset DEF LearnIInv, LearnTyped
<1>2. Learns!Verified' \subseteq Learns!Verified
  BY DEF Learns!Verified
<1>3. \A g \in Gate : LearnVerifies(g)' => LearnVerifies(g) /\ gates'[g] = gates[g]
  BY DEF LearnVerifies
<1>4. LearnSeen'
  <2> SUFFICES ASSUME NEW g \in Gate, LearnVerifies(g)'
               PROVE  /\ gates'[g].approved
                      /\ ~gates'[g].blind =>
                           \A r \in Learns!Verified' :
                              r.domain = gates'[g].domain
                                /\ Learns!Contradict(gates'[g].claim, r.claim) => r.blind
    BY DEF LearnSeen, Learns!Contradict
  <2> QED BY <1>2, <1>3 DEF LearnIInv, LearnSeen
<1>5. LearnApart'
  BY <1>3 DEF LearnIInv, LearnApart
<1>6. Learns!VerifiedAgree' /\ Learns!VerifiedIsApproved'
  BY <1>2 DEF LearnIInv, Learns!VerifiedAgree, Learns!VerifiedIsApproved
<1> QED BY <1>1, <1>4, <1>5, <1>6 DEF LearnIInv

\* A check that is not blind found every verified row of its domain.
LEMMA LearnCheckFinds ==
    ASSUME LearnIInv, NEW g \in Gate, NEW lost, NEW call \in LearnCall,
           ~Learns!Blind(g, call, lost),
           NEW got \in Learns!search(call.claim, lost),
           Learns!find_contradiction(call.domain, call.claim, got) = {}
    PROVE  \A r \in Learns!Verified :
              r.domain = call.domain => ~Learns!Contradict(call.claim, r.claim)
<1> SUFFICES ASSUME NEW r \in Learns!Verified, r.domain = call.domain,
                    Learns!Contradict(call.claim, r.claim)
             PROVE  FALSE
  OBVIOUS
<1> DEFINE found == Learns!Hits(call.claim, lost)
<1>1. r \in table /\ r.truth = "verified"
  BY DEF Learns!Verified
<1>2. lost = {} /\ r.id \in indexed
  BY <1>1 DEF Learns!Blind
<1>3. r \in found
  BY <1>1, <1>2 DEF Learns!Hits
<1>4. IsFiniteSet(found) /\ Cardinality(found) \in Nat
  <2>1. found \subseteq table
    BY DEF Learns!Hits
  <2> QED BY <2>1, FS_Subset, FS_CardinalityType DEF LearnIInv, LearnTyped
<1>5. Learns!Cardinality(found) = Cardinality(found)
  BY DEF Learns!Cardinality, Cardinality
<1> HIDE DEF found
<1>6. ~(Cardinality(found) > SearchLimit)
  BY <1>5 DEF Learns!Blind, found
<1>7. Cardinality(found) <= SearchLimit
  BY <1>4, <1>6, LearningAssumption
<1>8. got = found
  BY <1>5, <1>7 DEF Learns!search, found
<1>9. r \in Learns!find_contradiction(call.domain, call.claim, got)
  BY <1>1, <1>3, <1>8 DEF Learns!find_contradiction
<1> QED BY <1>9

\* A check that finds nothing leaves the candidate unlike all that is verified.
LEMMA LearnCheckKeeps ==
    ASSUME LearnIInv, NEW g \in Gate, NEW isNew \in BOOLEAN, NEW lost,
           Learns!Check(g, isNew, lost)
    PROVE  LearnIInv'
<1> DEFINE blind == Learns!Blind(g, gates[g], lost)
           call == [gates[g] EXCEPT !.blind = blind]
<1>1. gates[g].at = "checking" /\ gates[g] \in LearnCall /\ UNCHANGED <<table, made>>
  BY DEF Learns!Check, LearnIInv, LearnTyped, Learns!Over
<1>2. blind \in BOOLEAN
  BY Zenon DEF Learns!Blind
<1> HIDE DEF blind
<1>3. /\ call \in LearnCall /\ call.blind = blind /\ call.at = "checking"
      /\ call.domain = gates[g].domain /\ call.claim = gates[g].claim
      /\ call.tier = gates[g].tier /\ call.approved = gates[g].approved
  BY <1>1, <1>2 DEF LearnCall
<1>4. PICK got \in Learns!search(call.claim, lost) :
        gates' = [gates EXCEPT ![g] =
                IF Learns!find_contradiction(call.domain, call.claim, got) # {}
                  THEN Learns!Done("rejected")
                ELSE IF call.tier = "adaptation" THEN [call EXCEPT !.at = Learns!Written(call)]
                ELSE CASE Learns!Verdict(call, isNew) = "escalate" -> Learns!Done("gated")
                       [] Learns!Verdict(call, isNew) = "reject" -> Learns!Done("rejected")
                       [] OTHER -> [call EXCEPT !.at = Learns!Written(call)]]
  BY DEF Learns!Check, blind
<1> DEFINE goes == /\ Learns!find_contradiction(call.domain, call.claim, got) = {}
                   /\ \/ call.tier = "adaptation"
                      \/ Learns!Verdict(call, isNew) \notin {"escalate", "reject"}
<1>5. \/ gates' = [gates EXCEPT ![g] = Learns!Done("rejected")]
      \/ gates' = [gates EXCEPT ![g] = Learns!Done("gated")]
      \/ goes /\ gates' = [gates EXCEPT ![g] = [call EXCEPT !.at = Learns!Written(call)]]
  <2> HIDE DEF call
  <2> QED BY <1>4
<1>6. \A d \in Gate \ {g} : gates'[d] = gates[d]
  BY <1>5 DEF LearnIInv, LearnTyped
<1>7. gates' = [d \in Gate |-> gates'[d]]
  BY <1>5 DEF LearnIInv, LearnTyped
<1>8. CASE gates'[g] \in {Learns!Done("rejected"), Learns!Done("gated")}
  <2>1. gates'[g].at \in {"rejected", "gated"}
    BY <1>8 DEF Learns!Done
  <2>2. \A d \in Gate : gates'[d].at \notin Learns!Over => gates'[d] \in LearnCall
    BY <1>6, <2>1 DEF LearnIInv, LearnTyped, Learns!Over
  <2>3. \A d \in Gate : LearnVerifies(d)' => gates'[d] = gates[d]
    BY <1>6, <2>1 DEF LearnVerifies
  <2>4. table' \subseteq table /\ made' \in Nat
    BY <1>1 DEF LearnIInv, LearnTyped
  <2> QED BY <1>7, <2>2, <2>3, <2>4, LearnOthersKeep
<1>9. CASE gates'[g] \notin {Learns!Done("rejected"), Learns!Done("gated")}
  <2> DEFINE to == Learns!Written(call)
             new == [call EXCEPT !.at = to]
  <2>1. goes /\ gates'[g] = new
    BY <1>5, <1>9 DEF LearnIInv, LearnTyped
  <2>2. to \in {"writing", "announcing"}
    BY DEF Learns!Written
  <2> HIDE DEF to
  <2> HIDE DEF call
  <2>3. /\ new \in LearnCall /\ new.at = to /\ new.blind = blind
        /\ new.domain = call.domain /\ new.claim = call.claim
        /\ new.tier = call.tier /\ new.approved = call.approved
    BY <1>3, <2>2 DEF LearnCall
  <2> HIDE DEF new
  <2>4. LearnTyped'
    BY <1>1, <1>6, <1>7, <2>1, <2>3 DEF LearnIInv, LearnTyped
  <2>5. LearnVerifies(g)' => gates'[g].approved
    <3> SUFFICES ASSUME LearnVerifies(g)' PROVE call.approved
      BY <2>1, <2>3
    <3>1. call.tier = "evolution"
      BY <2>1, <2>3 DEF LearnVerifies
    <3>2. Learns!Verdict(call, isNew) \notin {"escalate", "reject"}
      BY <2>1, <3>1
    <3> DEFINE action == Learns!EvolutionAction(call, isNew)
               type == Learns!ActionType(call.domain, isNew)
    <3>3. type \in Learns!SELF_MODIFYING_ACTIONS
          /\ Learns!Evaluate(action, MaxEntries) \notin {"escalate", "reject"}
      BY <3>2 DEF Learns!Verdict
    <3>4. action.type = type /\ action.approval = ~call.approved
      <4> HIDE DEF type
      <4> QED BY DEF Learns!EvolutionAction, Learns!Default, type
    <3> HIDE DEF action, type
    <3>5. ~action.approval
      BY <3>3, <3>4, LearnApproved
    <3>6. call.approved \in BOOLEAN
      BY <1>3 DEF LearnCall
    <3> QED BY <3>4, <3>5, <3>6
  <2>6. ~blind => \A r \in Learns!Verified :
            r.domain = call.domain => ~Learns!Contradict(call.claim, r.claim)
    <3> SUFFICES ASSUME ~blind PROVE \A r \in Learns!Verified :
            r.domain = call.domain => ~Learns!Contradict(call.claim, r.claim)
      OBVIOUS
    <3>1. ~Learns!Blind(g, gates[g], lost)
      BY DEF blind
    <3>2. ~Learns!Blind(g, call, lost)
      BY <1>3, <3>1 DEF Learns!Blind, Learns!InFlight
    <3> QED BY <1>3, <1>4, <2>1, <3>2, LearnCheckFinds
  <2>7. LearnSeen'
    <3> SUFFICES ASSUME NEW d \in Gate, LearnVerifies(d)'
                 PROVE  /\ gates'[d].approved
                        /\ ~gates'[d].blind =>
                             \A r \in Learns!Verified' :
                                r.domain = gates'[d].domain
                                  /\ Learns!Contradict(gates'[d].claim, r.claim) => r.blind
      BY DEF LearnSeen, Learns!Contradict
    <3>1. Learns!Verified' = Learns!Verified
      BY <1>1 DEF Learns!Verified
    <3>2. CASE d = g
      BY <2>1, <2>3, <2>5, <2>6, <3>1, <3>2
    <3>3. CASE d # g
      <4>1. gates'[d] = gates[d] /\ LearnVerifies(d)
        BY <1>6, <3>3 DEF LearnVerifies
      <4> QED BY <3>1, <4>1 DEF LearnIInv, LearnSeen
    <3> QED BY <3>2, <3>3
  <2>8. \A h \in Gate \ {g} : LearnVerifies(h) /\ gates[h].domain = call.domain => blind
    <3> SUFFICES ASSUME NEW h \in Gate \ {g}, LearnVerifies(h),
                        gates[h].domain = call.domain
                 PROVE  blind
      OBVIOUS
    <3>1. Learns!InFlight(g, gates[g].domain)
      BY <1>3 DEF LearnVerifies, Learns!InFlight, Learns!Over
    <3> QED BY <3>1 DEF Learns!Blind, blind
  <2>9. LearnApart'
    <3> SUFFICES ASSUME NEW d \in Gate, NEW h \in Gate, d # h, LearnVerifies(d)',
                        LearnVerifies(h)', gates'[d].domain = gates'[h].domain
                 PROVE  gates'[d].blind \/ gates'[h].blind
      BY DEF LearnApart
    <3>1. \A e \in {d, h} \ {g} : gates'[e] = gates[e] /\ LearnVerifies(e)
      BY <1>6 DEF LearnVerifies
    <3>2. CASE d = g \/ h = g
      BY <2>1, <2>3, <2>8, <3>1, <3>2
    <3>3. CASE d # g /\ h # g
      BY <3>1, <3>3 DEF LearnIInv, LearnApart
    <3> QED BY <3>2, <3>3
  <2> QED BY <1>1, <2>4, <2>7, <2>9
          DEF LearnIInv, Learns!VerifiedAgree, Learns!VerifiedIsApproved, Learns!Verified
<1> QED BY <1>8, <1>9

\* The row that is written contradicts what a check that was not blind saw.
LEMMA LearnRowKeeps == ASSUME LearnIInv, NEW g \in Gate, Learns!Row(g) PROVE LearnIInv'
<1> DEFINE call == gates[g]
           layer == Learns!route(call.domain, call.low)
           new == [id |-> made + 1, layer |-> layer, domain |-> call.domain,
                   claim |-> call.claim, truth |-> Learns!Truth(call.tier),
                   approved |-> call.approved, blind |-> call.blind]
<1>1. /\ call.at = "writing" /\ call \in LearnCall
      /\ table' \in {table, table \union {new}}
      /\ gates' = [gates EXCEPT ![g] = [call EXCEPT !.at = "indexing", !.id = made + 1]]
  BY DEF Learns!Row, LearnIInv, LearnTyped, Learns!Over
<1>2. gates'[g].at = "indexing" /\ \A d \in Gate \ {g} : gates'[d] = gates[d]
  <2> DEFINE to == [call EXCEPT !.at = "indexing", !.id = made + 1]
  <2>1. to.at = "indexing"
    BY <1>1 DEF LearnCall
  <2>2. gates' = [gates EXCEPT ![g] = to]
    BY <1>1
  <2> HIDE DEF to
  <2> QED BY <2>1, <2>2 DEF LearnIInv, LearnTyped
<1>3. \A d \in Gate : LearnVerifies(d)' => d # g /\ gates'[d] = gates[d] /\ LearnVerifies(d)
  BY <1>2 DEF LearnVerifies
<1>4. made' \in Nat /\ gates' = [d \in Gate |-> gates'[d]]
  BY <1>1 DEF Learns!Row, LearnIInv, LearnTyped
<1>5. ASSUME NEW d \in Gate, gates'[d].at \notin Learns!Over PROVE gates'[d] \in LearnCall
  <2>1. CASE d # g
    BY <1>2, <1>5, <2>1 DEF LearnIInv, LearnTyped
  <2>2. CASE d = g
    <3> DEFINE moved1 == [call EXCEPT !.at = "indexing"]
               to == [moved1 EXCEPT !.id = made + 1]
    <3>1. gates'[g] = to
      BY <1>1 DEF LearnIInv, LearnTyped
    <3>2. moved1 \in LearnCall
      BY <1>1 DEF LearnCall
    <3>3. made + 1 \in Nat
      BY DEF LearnIInv, LearnTyped
    <3> HIDE DEF moved1
    <3>4. to \in LearnCall
      BY <3>2, <3>3 DEF LearnCall
    <3> QED BY <2>2, <3>1, <3>4
  <2> QED BY <2>1, <2>2
<1>6. CASE table' = table
  BY <1>3, <1>4, <1>5, <1>6, LearnOthersKeep
<1>7. CASE table' = table \union {new}
  <2>1. LearnTyped'
    BY <1>4, <1>5, <1>7, FS_AddElement DEF LearnIInv, LearnTyped
  <2>2. new.truth = "verified" => LearnVerifies(g)
    <3>1. call.tier \in {"learning", "adaptation", "evolution"}
      BY <1>1, LearningAssumption DEF LearnCall
    <3> QED BY <1>1, <3>1 DEF LearnVerifies, Learns!Truth
  <2>3. /\ new.domain = call.domain /\ new.claim = call.claim
        /\ new.approved = call.approved /\ new.blind = call.blind
    OBVIOUS
  <2> HIDE DEF new, call
  <2>4. \A r \in Learns!Verified' : r \in Learns!Verified \/ (r = new /\ LearnVerifies(g))
    BY <1>7, <2>2 DEF Learns!Verified
  <2>5. Learns!VerifiedIsApproved'
    BY <2>3, <2>4 DEF LearnIInv, Learns!VerifiedIsApproved, LearnSeen, call
  <2>6. \A a, b : Learns!Contradict(a, b) => Learns!Contradict(b, a)
    BY DEF Learns!Contradict
  <2>7. \A a : ~Learns!Contradict(a, a)
    BY DEF Learns!Contradict
  <2>8. \A r \in Learns!Verified :
          /\ LearnVerifies(g) /\ r.domain = new.domain
          /\ Learns!Contradict(new.claim, r.claim)
          => new.blind \/ r.blind
    BY <2>3 DEF LearnIInv, LearnSeen, call
  <2>9. Learns!VerifiedAgree'
    <3> SUFFICES ASSUME NEW a \in Learns!Verified', NEW b \in Learns!Verified',
                        a.domain = b.domain, Learns!Contradict(a.claim, b.claim)
                 PROVE  a.blind \/ b.blind
      BY DEF Learns!VerifiedAgree, Learns!Contradict
    <3>1. CASE a \in Learns!Verified /\ b \in Learns!Verified
      BY <3>1 DEF LearnIInv, Learns!VerifiedAgree
    <3>2. CASE a = new /\ b = new
      BY <2>7, <3>2
    <3>3. CASE a = new /\ LearnVerifies(g) /\ b \in Learns!Verified
      BY <2>8, <3>3
    <3>4. CASE b = new /\ LearnVerifies(g) /\ a \in Learns!Verified
      BY <2>6, <2>8, <3>4
    <3> QED BY <2>4, <3>1, <3>2, <3>3, <3>4
  <2>10. LearnSeen'
    <3> SUFFICES ASSUME NEW d \in Gate, LearnVerifies(d)'
                 PROVE  /\ gates'[d].approved
                        /\ ~gates'[d].blind =>
                             \A r \in Learns!Verified' :
                                r.domain = gates'[d].domain
                                  /\ Learns!Contradict(gates'[d].claim, r.claim) => r.blind
      BY DEF LearnSeen, Learns!Contradict
    <3>1. d # g /\ gates'[d] = gates[d] /\ LearnVerifies(d)
      BY <1>3
    <3>2. LearnVerifies(g) /\ gates[d].domain = new.domain => gates[d].blind \/ new.blind
      BY <2>3, <3>1 DEF LearnIInv, LearnApart, call
    <3> QED BY <2>4, <3>1, <3>2 DEF LearnIInv, LearnSeen
  <2>11. LearnApart'
    BY <1>3 DEF LearnIInv, LearnApart
  <2> QED BY <2>1, <2>5, <2>9, <2>10, <2>11 DEF LearnIInv
<1> QED BY <1>1, <1>6, <1>7

\* A gate that begins has verified nothing.
LEMMA LearnSubmitKeeps ==
    ASSUME LearnIInv, NEW g \in Gate, NEW tier \in Tier, NEW domain \in Domain,
           NEW claim \in Learns!Claim, NEW improves \in BOOLEAN, NEW approved \in BOOLEAN,
           NEW low \in BOOLEAN,
           Learns!Submit(g, tier, domain, claim, improves, approved, low)
    PROVE  LearnIInv'
<1> DEFINE call == [at |-> "checking", tier |-> tier, domain |-> domain, claim |-> claim,
                    approved |-> approved, low |-> low, blind |-> FALSE, id |-> 0]
           to == Learns!Written(call)
           new == [call EXCEPT !.at = to]
<1>1. UNCHANGED <<table, made>> /\ gates' = [gates EXCEPT ![g] =
                IF tier = "learning" THEN new
                ELSE IF ~improves THEN Learns!Done("rejected")
                ELSE call]
  BY DEF Learns!Submit
<1>2. call \in LearnCall /\ call.at = "checking" /\ call.tier = tier
  BY DEF LearnCall
<1>3. to \in {"writing", "announcing"}
  BY DEF Learns!Written
<1> HIDE DEF to, call
<1>4. new \in LearnCall /\ new.tier = tier
  BY <1>2, <1>3 DEF LearnCall
<1>5. Learns!Done("rejected").at = "rejected"
  BY DEF Learns!Done
<1> HIDE DEF new
<1>6. /\ \A d \in Gate \ {g} : gates'[d] = gates[d]
      /\ gates' = [d \in Gate |-> gates'[d]]
      /\ gates'[g] = IF tier = "learning" THEN new
                     ELSE IF ~improves THEN Learns!Done("rejected") ELSE call
  BY <1>1 DEF LearnIInv, LearnTyped
<1>7. gates'[g].at \notin Learns!Over => gates'[g] \in LearnCall
  BY <1>2, <1>4, <1>5, <1>6 DEF Learns!Over
<1>8. ~LearnVerifies(g)'
  BY <1>2, <1>4, <1>5, <1>6 DEF LearnVerifies
<1>9. \A d \in Gate : LearnVerifies(d)' => gates'[d] = gates[d]
  BY <1>6, <1>8
<1>10. \A d \in Gate : gates'[d].at \notin Learns!Over => gates'[d] \in LearnCall
  BY <1>6, <1>7 DEF LearnIInv, LearnTyped
<1>11. table' \subseteq table /\ made' \in Nat
  BY <1>1 DEF LearnIInv, LearnTyped
<1> QED BY <1>6, <1>9, <1>10, <1>11, LearnOthersKeep

\* Every step of a gate, a deletion and a restart keep it.
LEMMA LearnInductive == LearnIInv /\ [Learns!Next]_(Learns!vars) => LearnIInv'
<1> SUFFICES ASSUME LearnIInv, [Learns!Next]_(Learns!vars) PROVE LearnIInv'
  OBVIOUS
<1>1. ASSUME table' \subseteq table, UNCHANGED <<made, gates>> PROVE LearnIInv'
  BY <1>1, LearnOthersKeep DEF LearnIInv, LearnTyped
<1>2. ASSUME NEW g \in Gate, Learns!Index(g) \/ Learns!Announce(g) PROVE LearnIInv'
  <2>1. UNCHANGED <<table, made>>
    BY <1>2 DEF Learns!Index, Learns!Announce
  <2>2. \A d \in Gate \ {g} : gates'[d] = gates[d]
    BY <1>2 DEF Learns!Index, Learns!Announce, LearnIInv, LearnTyped
  <2>3. gates' = [d \in Gate |-> gates'[d]]
    BY <1>2 DEF Learns!Index, Learns!Announce, LearnIInv, LearnTyped
  <2>4. /\ gates'[g].at \in {"announcing", "promoted"}
        /\ gates'[g].at \notin Learns!Over => gates'[g] \in LearnCall
    <3>1. CASE Learns!Index(g)
      <4> DEFINE new == [gates[g] EXCEPT !.at = "announcing"]
      <4>1. gates[g] \in LearnCall
        BY <3>1 DEF Learns!Index, LearnIInv, LearnTyped, Learns!Over
      <4>2. new \in LearnCall /\ new.at = "announcing"
        BY <4>1 DEF LearnCall
      <4>3. gates'[g] = new
        BY <3>1 DEF Learns!Index, LearnIInv, LearnTyped
      <4> QED BY <4>2, <4>3
    <3>2. CASE Learns!Announce(g)
      <4>1. gates'[g] = Learns!Done("promoted")
        BY <3>2 DEF Learns!Announce, LearnIInv, LearnTyped
      <4> QED BY <4>1 DEF Learns!Done, Learns!Over
    <3> QED BY <1>2, <3>1, <3>2
  <2>5. \A d \in Gate : gates'[d].at \notin Learns!Over => gates'[d] \in LearnCall
    BY <2>2, <2>4 DEF LearnIInv, LearnTyped
  <2>6. \A d \in Gate : LearnVerifies(d)' => gates'[d] = gates[d]
    BY <2>2, <2>4 DEF LearnVerifies
  <2> QED BY <2>1, <2>3, <2>5, <2>6, LearnOthersKeep DEF LearnIInv, LearnTyped
<1>3. ASSUME Learns!Restart PROVE LearnIInv'
  <2>1. \A d \in Gate : gates'[d].at = "idle"
    BY <1>3 DEF Learns!Restart, Learns!Done
  <2>2. UNCHANGED <<table, made>> /\ gates' = [d \in Gate |-> gates'[d]]
    BY <1>3 DEF Learns!Restart
  <2>3. \A d \in Gate : LearnVerifies(d)' => gates'[d] = gates[d]
    BY <2>1 DEF LearnVerifies
  <2>4. \A d \in Gate : gates'[d].at \notin Learns!Over => gates'[d] \in LearnCall
    BY <2>1 DEF Learns!Over
  <2> QED BY <2>2, <2>3, <2>4, LearnOthersKeep DEF LearnIInv, LearnTyped
<1>4. CASE UNCHANGED Learns!vars
  BY <1>1, <1>4 DEF Learns!vars
<1>5. ASSUME NEW r \in table, Learns!Delete(r) PROVE LearnIInv'
  BY <1>1, <1>5 DEF Learns!Delete
<1> QED BY <1>2, <1>3, <1>4, <1>5, LearnSubmitKeeps, LearnCheckKeeps, LearnRowKeeps
        DEF Learns!Next

(***************************************************************************)
(* The curator: of the entries nobody changed or deleted one is kept, for  *)
(* any entries and any order in which pairs are resolved.                  *)
(***************************************************************************)

\* The entries as they are written, nobody having changed or deleted one.
CurateAll == touched = 0 /\ Curates!There = Entry
CurateRow(e) ==
    /\ row[e] = [there |-> row[e].there, accesses |-> row[e].accesses,
                 importance |-> row[e].importance, confidence |-> row[e].confidence,
                 created |-> row[e].created, deprecated |-> row[e].deprecated]
    /\ row[e].confidence \in Nat /\ row[e].created \in Nat
CurateTyped ==
    /\ touched \in Nat /\ edges \subseteq Entry \X Entry
    /\ row = [e \in Entry |-> row[e]]
    /\ CurateAll => \A e \in Entry : CurateRow(e)
\* An entry goes before another when it is the one resolving keeps of the two.
Beats(e, f) ==
    \/ Curates!Score(e) > Curates!Score(f)
    \/ (Curates!Score(e) = Curates!Score(f) /\ e < f)
\* No entry goes before one that is not deprecated, and pairs are listed once.
CurateBest ==
    CurateAll => \A e \in Entry : row[e].deprecated => \E f \in Entry : Beats(f, e)
CuratePairs ==
    phase = "resolve" => \A p \in work : p \in Entry \X Entry /\ p[1] < p[2]
CurateIInv == CurateTyped /\ CurateBest /\ CuratePairs

\* Some entry is beaten by none.
LEMMA CurateSomeBest ==
    ASSUME CurateIInv, CurateAll PROVE \E e \in Entry : \A f \in Entry : ~Beats(f, e)
<1> DEFINE above(e) == {f \in Entry : Beats(f, e)}
           sizes == {Cardinality(above(e)) : e \in Entry}
<1>1. \A e \in Entry : e \in Nat /\ Curates!Score(e) \in Nat
  BY CuratorAssumption DEF CurateIInv, CurateTyped, CurateRow, Curates!Score
<1>2. \A e, f, g \in Entry : Beats(e, f) /\ Beats(f, g) => Beats(e, g)
  BY <1>1 DEF Beats
<1>3. \A e \in Entry : ~Beats(e, e)
  BY <1>1 DEF Beats
<1>4. \A e \in Entry : IsFiniteSet(above(e)) /\ Cardinality(above(e)) \in Nat
  BY CuratorAssumption, FS_Subset, FS_CardinalityType
<1>5. PICK m \in sizes : \A n \in sizes : m <= n
  <2>1. sizes \subseteq Nat /\ sizes # {}
    BY <1>4, CuratorAssumption
  <2> HIDE DEF sizes
  <2> QED BY <2>1, Least
<1>6. PICK e \in Entry : m = Cardinality(above(e))
  OBVIOUS
<1>7. ASSUME NEW f \in Entry, Beats(f, e) PROVE FALSE
  <2>1. above(f) \subseteq above(e)
    BY <1>2, <1>7
  <2>2. f \in above(e) /\ f \notin above(f)
    BY <1>3, <1>7
  <2>3. Cardinality(above(e)) <= Cardinality(above(f))
    BY <1>5, <1>6
  <2>4. /\ IsFiniteSet(above(e)) /\ Cardinality(above(e)) \in Nat
        /\ Cardinality(above(f)) \in Nat
    BY <1>4
  <2> HIDE DEF above
  <2>5. /\ Cardinality(above(f)) <= Cardinality(above(e))
        /\ Cardinality(above(f)) = Cardinality(above(e)) => above(f) = above(e)
    BY <2>1, <2>4, FS_Subset
  <2> QED BY <2>2, <2>3, <2>4, <2>5
<1> QED BY <1>7

\* The entry that is beaten by none is kept.
LEMMA CurateKept == CurateIInv => Curates!OneIsKept
<1> SUFFICES ASSUME CurateIInv, CurateAll PROVE \E e \in Entry : ~row[e].deprecated
  BY DEF Curates!OneIsKept, CurateAll
<1> QED BY CurateSomeBest DEF CurateIInv, CurateBest

\* No entry is deprecated.
LEMMA CurateInitially == Curates!Init => CurateIInv
<1> SUFFICES ASSUME Curates!Init PROVE CurateIInv
  OBVIOUS
<1>1. PICK confidence \in [Entry -> Confidences], made0 \in [Entry -> Created] :
         row = [e \in Entry |-> [there |-> TRUE, accesses |-> 0,
                                 importance |-> IF e \in Faint THEN 5 ELSE 90,
                                 confidence |-> confidence[e],
                                 created |-> made0[e], deprecated |-> FALSE]]
  BY DEF Curates!Init
<1>2. \A e \in Entry : CurateRow(e) /\ ~row[e].deprecated
  BY <1>1, CuratorAssumption DEF CurateRow
<1>3. CurateTyped
  BY <1>1, <1>2 DEF Curates!Init, CurateTyped
<1> QED BY <1>2, <1>3 DEF CurateIInv, CurateBest, CuratePairs, Curates!Init

\* Steps that leave what the entries are compared by, and deprecate none.
LEMMA CurateOthersKeep ==
    ASSUME CurateIInv, CuratePairs', edges' \subseteq edges, touched' = touched,
           row' = [e \in Entry |-> row'[e]],
           \A e \in Entry : row'[e].there => row[e].there,
           CurateAll /\ CurateAll' => \A e \in Entry : CurateRow(e)'
             /\ row'[e].confidence = row[e].confidence /\ row'[e].created = row[e].created
             /\ (row'[e].deprecated => row[e].deprecated \/ \E f \in Entry : Beats(f, e))
    PROVE  CurateIInv'
<1>1. CurateAll' => CurateAll
  BY DEF CurateAll, Curates!There
<1>2. CurateTyped'
  BY <1>1 DEF CurateIInv, CurateTyped
<1>3. CurateBest'
  <2> SUFFICES ASSUME CurateAll', NEW e \in Entry, row'[e].deprecated
               PROVE  \E f \in Entry : Beats(f, e)'
    BY DEF CurateBest
  <2>1. PICK f \in Entry : Beats(f, e)
    BY <1>1 DEF CurateIInv, CurateBest
  <2>2. \A g \in Entry : Curates!Score(g)' = Curates!Score(g)
    BY <1>1 DEF Curates!Score
  <2> QED BY <2>1, <2>2 DEF Beats
<1> QED BY <1>2, <1>3 DEF CurateIInv

\* Reading leaves what an entry is compared by.
LEMMA CurateAccessed ==
    ASSUME NEW e \in Entry, CurateRow(e), NEW r, r = Curates!Accessed(row[e])
    PROVE  /\ r = [there |-> r.there, accesses |-> r.accesses,
                 importance |-> r.importance, confidence |-> r.confidence,
                 created |-> r.created, deprecated |-> r.deprecated]
           /\ r.confidence = row[e].confidence /\ r.created = row[e].created
           /\ r.deprecated = row[e].deprecated
<1>1. CASE row[e].accesses < MaxAccess
  <2>1. r = [row[e] EXCEPT !.accesses = @ + 1]
    BY <1>1 DEF Curates!Accessed
  <2> QED BY <2>1 DEF CurateRow
<1>2. CASE ~(row[e].accesses < MaxAccess)
  <2>1. r = row[e]
    BY <1>2 DEF Curates!Accessed
  <2> QED BY <2>1 DEF CurateRow
<1> QED BY <1>1, <1>2

\* There is a first of the pairs that are left.
LEMMA CurateFirst ==
    ASSUME CuratePairs, phase = "resolve", work # {} PROVE Curates!FirstPair \in work
<1> DEFINE ones == {p[1] : p \in work}
<1>1. \A p \in work : p \in Entry \X Entry /\ p[1] \in Nat /\ p[2] \in Nat
  BY CuratorAssumption DEF CuratePairs
<1>2. PICK m \in ones : \A n \in ones : m <= n
  <2>1. ones \subseteq Nat /\ ones # {}
    BY <1>1
  <2> HIDE DEF ones
  <2> QED BY <2>1, Least
<1> DEFINE twos == {p[2] : p \in {q \in work : q[1] = m}}
<1>3. PICK k \in twos : \A n \in twos : k <= n
  <2>1. twos \subseteq Nat /\ twos # {}
    BY <1>1, <1>2
  <2> HIDE DEF twos
  <2> QED BY <2>1, Least
<1>4. PICK p \in work : p[1] = m /\ p[2] = k
  BY <1>3
<1>5. \A q \in work : p[1] < q[1] \/ (p[1] = q[1] /\ p[2] <= q[2])
  <2> SUFFICES ASSUME NEW q \in work PROVE p[1] < q[1] \/ (p[1] = q[1] /\ p[2] <= q[2])
    OBVIOUS
  <2>1. m <= q[1] /\ (q[1] = m => k <= q[2])
    BY <1>2, <1>3
  <2> HIDE DEF ones, twos
  <2> QED BY <1>1, <1>4, <2>1
<1> QED BY <1>5 DEF Curates!FirstPair

\* Resolving deprecates the one of a pair that the other goes before.
LEMMA CurateResolveKeeps == ASSUME CurateIInv, Curates!Resolve PROVE CurateIInv'
<1> DEFINE p == Curates!FirstPair
           first == Curates!Score(p[1]) >= Curates!Score(p[2])
           winner == IF first THEN p[1] ELSE p[2]
           loser == IF winner = p[1] THEN p[2] ELSE p[1]
<1>1. /\ UNCHANGED <<edges, phase, sweeps, touched>> /\ work' = work \ {p}
      /\ phase = "resolve" /\ work # {}
      /\ \/ /\ {p[1], p[2]} \subseteq Curates!There
            /\ row' = [e \in Entry |->
                  IF e = loser THEN [Curates!Accessed(row[e]) EXCEPT !.deprecated = TRUE]
                  ELSE IF e = winner THEN Curates!Accessed(row[e]) ELSE row[e]]
         \/ UNCHANGED row
  BY DEF Curates!Resolve
<1>2. CuratePairs'
  BY <1>1 DEF CurateIInv, CuratePairs
<1>3. CASE UNCHANGED row
  BY <1>1, <1>2, <1>3, CurateOthersKeep DEF CurateIInv, CurateTyped, CurateRow
<1>4. CASE /\ {p[1], p[2]} \subseteq Curates!There
           /\ row' = [e \in Entry |->
                  IF e = loser THEN [Curates!Accessed(row[e]) EXCEPT !.deprecated = TRUE]
                  ELSE IF e = winner THEN Curates!Accessed(row[e]) ELSE row[e]]
  <2>0. row[loser].there /\ row[winner].there
    BY <1>4 DEF Curates!There
  <2>1. \A e \in Entry : row'[e].there => row[e].there
    BY <1>4, <2>0
  <2>2. row' = [e \in Entry |-> row'[e]]
    BY <1>4
  <2>3. ASSUME CurateAll, NEW e \in Entry
        PROVE  CurateRow(e)' /\ row'[e].confidence = row[e].confidence
               /\ row'[e].created = row[e].created
               /\ (row'[e].deprecated => row[e].deprecated \/ \E f \in Entry : Beats(f, e))
    <3>0. CurateRow(e)
      BY <2>3 DEF CurateIInv, CurateTyped
    <3> DEFINE r == Curates!Accessed(row[e])
    <3>1. /\ r = [there |-> r.there, accesses |-> r.accesses,
                 importance |-> r.importance, confidence |-> r.confidence,
                 created |-> r.created, deprecated |-> r.deprecated]
          /\ r.confidence = row[e].confidence /\ r.created = row[e].created
          /\ r.deprecated = row[e].deprecated
      BY <3>0, CurateAccessed
    <3> HIDE DEF r
    <3>2. CASE e # loser
      <4>1. row'[e] = r \/ row'[e] = row[e]
        BY <1>4, <3>2 DEF r
      <4> QED BY <3>0, <3>1, <4>1 DEF CurateRow
    <3>3. CASE e = loser
      <4>1. row'[e] = [r EXCEPT !.deprecated = TRUE]
        BY <1>4, <3>3 DEF r
      <4>2. CurateRow(e)' /\ row'[e].confidence = row[e].confidence
               /\ row'[e].created = row[e].created
        BY <3>0, <3>1, <4>1 DEF CurateRow
      <4>3. Beats(winner, e) /\ winner \in Entry
        <5>1. p \in work
          BY <1>1, CurateFirst DEF CurateIInv
        <5>2. p \in Entry \X Entry /\ p[1] < p[2]
          BY <1>1, <5>1 DEF CurateIInv, CuratePairs
        <5>3. p[1] \in Entry /\ p[2] \in Entry /\ p[1] \in Nat /\ p[2] \in Nat
              /\ Curates!Score(p[1]) \in Nat /\ Curates!Score(p[2]) \in Nat
          BY <2>3, <5>2, CuratorAssumption
             DEF CurateIInv, CurateTyped, CurateRow, Curates!Score
        <5> HIDE DEF p
        <5> QED BY <3>3, <5>2, <5>3 DEF Beats
      <4> QED BY <4>2, <4>3
    <3> QED BY <3>2, <3>3
  <2> QED BY <1>1, <1>2, <2>1, <2>2, <2>3, CurateOthersKeep
<1> QED BY <1>1, <1>3, <1>4

\* Every step of a sweep, and every access and change, keep it.
LEMMA CurateInductive == CurateIInv /\ [Curates!Next]_(Curates!vars) => CurateIInv'
<1> SUFFICES ASSUME CurateIInv, [Curates!Next]_(Curates!vars) PROVE CurateIInv'
  OBVIOUS
<1>1. ASSUME UNCHANGED <<row, edges, touched>>, CuratePairs' PROVE CurateIInv'
  BY <1>1, CurateOthersKeep DEF CurateIInv, CurateTyped, CurateRow
<1>2. ASSUME Curates!Begin \/ Curates!Cancel PROVE CurateIInv'
  BY <1>1, <1>2 DEF Curates!Begin, Curates!Cancel, CuratePairs
<1>3. ASSUME Curates!NextPhase PROVE CurateIInv'
  <2>1. phase' = "resolve" => work' \subseteq Curates!find_contradictions
    BY <1>3 DEF Curates!NextPhase
  <2>2. CuratePairs'
    BY <2>1 DEF CuratePairs, Curates!find_contradictions, CurateIInv, CurateTyped
  <2> QED BY <1>1, <1>3, <2>2 DEF Curates!NextPhase
<1>4. ASSUME NEW e, Curates!Removed(e), touched' \in {touched, touched + 1}, CuratePairs'
      PROVE  CurateIInv'
  <2>1. CASE e \notin Entry
    <3>1. row' = row
      BY <1>4, <2>1 DEF Curates!Removed, CurateIInv, CurateTyped
    <3>2. CASE touched' = touched
      BY <1>4, <3>1, <3>2, CurateOthersKeep
         DEF Curates!Removed, CurateIInv, CurateTyped, CurateRow
    <3>3. CASE touched' = touched + 1
      BY <1>4, <3>1, <3>3
         DEF Curates!Removed, CurateIInv, CurateTyped, CurateBest, CurateAll
    <3> QED BY <1>4, <3>2, <3>3
  <2>2. CASE e \in Entry
    <3>1. ~CurateAll'
      <4>1. ~row'[e].there
        BY <1>4, <2>2 DEF Curates!Removed, CurateIInv, CurateTyped, Curates!Gone
      <4> QED BY <2>2, <4>1 DEF CurateAll, Curates!There
    <3>2. touched' \in Nat /\ row' = [d \in Entry |-> row'[d]] /\ edges' \subseteq edges
      BY <1>4 DEF Curates!Removed, CurateIInv, CurateTyped
    <3> QED BY <1>4, <3>1, <3>2 DEF CurateIInv, CurateTyped, CurateBest
  <2> QED BY <2>1, <2>2
<1>5. ASSUME Curates!Prune PROVE CurateIInv'
  <2>1. CuratePairs' /\ touched' = touched
    BY <1>5 DEF Curates!Prune, CuratePairs
  <2>2. CASE UNCHANGED <<row, edges>>
    BY <1>1, <2>1, <2>2
  <2>3. ASSUME NEW e, Curates!Removed(e) PROVE CurateIInv'
    BY <1>4, <2>1, <2>3
  <2> QED BY <1>5, <2>2, <2>3 DEF Curates!Prune
<1>6. ASSUME Curates!Strengthen PROVE CurateIInv'
  <2>1. CuratePairs' /\ UNCHANGED <<edges, touched>>
    BY <1>6 DEF Curates!Strengthen, CuratePairs
  <2>2. CASE UNCHANGED row
    BY <1>1, <2>1, <2>2
  <2>3. ASSUME NEW e, NEW n, row[e].there, row' = [row EXCEPT ![e].importance = n]
        PROVE  CurateIInv'
    <3>1. row' = [d \in Entry |-> row'[d]]
      BY <2>3 DEF CurateIInv, CurateTyped
    <3>2. ASSUME NEW d \in Entry
          PROVE row'[d] = row[d] \/ (d = e /\ row'[d] = [row[d] EXCEPT !.importance = n])
      BY <2>3 DEF CurateIInv, CurateTyped
    <3>3. \A d \in Entry : row'[d].there => row[d].there
      BY <2>3, <3>2
    <3>4. ASSUME CurateAll, NEW d \in Entry
          PROVE  CurateRow(d)' /\ row'[d].confidence = row[d].confidence
               /\ row'[d].created = row[d].created /\ row'[d].deprecated = row[d].deprecated
      <4>1. CurateRow(d)
        BY <3>4 DEF CurateIInv, CurateTyped
      <4> QED BY <3>2, <4>1 DEF CurateRow
    <3> QED BY <2>1, <3>1, <3>3, <3>4, CurateOthersKeep
  <2>4. row' = row \/ \E e, n : row[e].there /\ row' = [row EXCEPT ![e].importance = n]
    BY <1>6 DEF Curates!Strengthen
  <2> QED BY <2>2, <2>3, <2>4
<1>7. ASSUME NEW e \in Entry, Curates!Access(e) PROVE CurateIInv'
  <2>1. UNCHANGED <<edges, phase, work, touched>> /\ row[e].there
        /\ row' = [row EXCEPT ![e] = Curates!Accessed(row[e])]
    BY <1>7 DEF Curates!Access, Curates!There
  <2>2. row' = [d \in Entry |-> row'[d]]
    BY <2>1 DEF CurateIInv, CurateTyped
  <2>3. row'[e] = Curates!Accessed(row[e]) /\ \A d \in Entry \ {e} : row'[d] = row[d]
    BY <2>1 DEF CurateIInv, CurateTyped
  <2>4. \A d \in Entry : row'[d].there => row[d].there
    BY <2>1, <2>3
  <2>5. ASSUME CurateAll, NEW d \in Entry
        PROVE  CurateRow(d)' /\ row'[d].confidence = row[d].confidence
               /\ row'[d].created = row[d].created /\ row'[d].deprecated = row[d].deprecated
    <3>1. CurateRow(d)
      BY <2>5 DEF CurateIInv, CurateTyped
    <3>2. CASE d # e
      BY <2>3, <3>1, <3>2 DEF CurateRow
    <3>3. CASE d = e
      <4> DEFINE r == row'[e]
      <4>1. /\ r = [there |-> r.there, accesses |-> r.accesses,
                 importance |-> r.importance, confidence |-> r.confidence,
                 created |-> r.created, deprecated |-> r.deprecated]
            /\ r.confidence = row[e].confidence /\ r.created = row[e].created
            /\ r.deprecated = row[e].deprecated
        BY <2>3, <3>1, <3>3, CurateAccessed
      <4> QED BY <3>1, <3>3, <4>1 DEF CurateRow
    <3> QED BY <3>2, <3>3
  <2>6. CuratePairs'
    BY <2>1 DEF CurateIInv, CuratePairs
  <2> QED BY <2>1, <2>2, <2>4, <2>5, <2>6, CurateOthersKeep
<1>8. ASSUME NEW e \in Entry, NEW confidence \in Confidences, Curates!Touch(e, confidence)
      PROVE  CurateIInv'
  <2>1. touched' = touched + 1 /\ UNCHANGED <<phase, work>>
    BY <1>8 DEF Curates!Touch
  <2>2. CuratePairs'
    BY <2>1 DEF CurateIInv, CuratePairs
  <2>3. CASE Curates!Removed(e)
    BY <1>4, <2>1, <2>2, <2>3
  <2>4. CASE row' = [row EXCEPT ![e].confidence = confidence] /\ UNCHANGED edges
    <3>1. ~CurateAll' /\ touched' \in Nat
      BY <2>1 DEF CurateAll, CurateIInv, CurateTyped
    <3>2. row' = [d \in Entry |-> row'[d]]
      BY <2>4 DEF CurateIInv, CurateTyped
    <3> QED BY <2>2, <2>4, <3>1, <3>2 DEF CurateIInv, CurateTyped, CurateBest
  <2> QED BY <1>8, <2>3, <2>4 DEF Curates!Touch
<1>9. CASE UNCHANGED Curates!vars
  BY <1>1, <1>9 DEF Curates!vars, CurateIInv, CuratePairs
<1> QED BY <1>2, <1>3, <1>5, <1>6, <1>7, <1>8, <1>9, CurateResolveKeeps DEF Curates!Next

(***************************************************************************)
(* The bundles: an import that returned has left the whole bundle, for any *)
(* folders, and whatever is exported, removed and imported before it.      *)
(***************************************************************************)

\* A record of three parts.
BundleFolder(n) ==
    folder[n] = [code |-> folder[n].code, weights |-> folder[n].weights,
                 knowledge |-> folder[n].knowledge]
BundleTyped ==
    /\ folder = [n \in Folder |-> folder[n]] /\ \A n \in Folder : BundleFolder(n)
    /\ evals = [n \in Folder |-> evals[n]] /\ stage = [n \in Folder |-> stage[n]]
    /\ \A b \in exported : b.name \in Folder
    /\ importing # Archive!Nothing =>
         /\ importing = [bundle |-> importing.bundle, at |-> importing.at]
         /\ importing.bundle.name \in Folder
\* The module an import is at is empty, but for the parts that are done, and is not the
\* one whose import is remembered.
BundleBegun ==
    importing # Archive!Nothing =>
        LET b == importing.bundle
        IN  /\ imported = Archive!NoBundle \/ imported.name # b.name
            /\ folder[b.name].weights =
                 IF importing.at \in {"scaffold", "weights"} THEN 0 ELSE b.weights
            /\ folder[b.name].knowledge =
                 IF importing.at \in {"scaffold", "weights", "knowledge"} THEN 0
                 ELSE b.knowledge
            /\ importing.at = "stage" => evals[b.name] = b.evals \/ b.evals = 0
\* What is remembered of a finished import.
BundleLeft(b, n) ==
    /\ n \in Folder
    /\ folder[n].weights = b.weights /\ folder[n].knowledge = b.knowledge
    /\ evals[n] = b.evals \/ b.evals = 0
    /\ stage[n] = b.stage
BundleDone == imported # Archive!NoBundle => BundleLeft(imported, imported.name)
BundleIInv == BundleTyped /\ BundleBegun /\ BundleDone

\* Nothing was imported.
LEMMA BundleInitially == Archive!Init => BundleIInv
<1> SUFFICES ASSUME Archive!Init PROVE BundleIInv
  OBVIOUS
<1>1. \A n \in Folder : BundleFolder(n)
  BY DEF Archive!Init, BundleFolder, Archive!Absent, Archive!Scaffold
<1>2. BundleTyped
  BY <1>1 DEF Archive!Init, BundleTyped
<1> QED BY <1>2 DEF Archive!Init, BundleIInv, BundleBegun, BundleDone

\* A step of one module, after which no import is remembered of it.
LEMMA BundleOfOne ==
    ASSUME BundleIInv, BundleTyped', BundleBegun', NEW n, Archive!Changed(n),
           \A m \in Folder \ {n} :
              folder'[m] = folder[m] /\ evals'[m] = evals[m] /\ stage'[m] = stage[m]
    PROVE  BundleIInv'
<1>1. imported' = Archive!NoBundle \/ (imported' = imported /\ imported.name # n)
  BY DEF Archive!Changed
<1>2. BundleDone'
  BY <1>1 DEF BundleIInv, BundleDone, BundleLeft
<1> QED BY <1>2 DEF BundleIInv

\* A step that leaves the modules, and what is remembered of them.
LEMMA BundleOthersKeep ==
    ASSUME BundleIInv, UNCHANGED <<folder, evals, stage, imported>>,
           \A b \in exported' : b.name \in Folder, importing' \in {importing, Archive!Nothing}
    PROVE  BundleIInv'
<1>1. BundleTyped'
  BY DEF BundleIInv, BundleTyped, BundleFolder
<1>2. BundleBegun'
  BY DEF BundleIInv, BundleBegun
<1>3. BundleDone'
  BY DEF BundleIInv, BundleDone, BundleLeft
<1> QED BY <1>1, <1>2, <1>3 DEF BundleIInv

\* A folder of which one part is given another value.
BundleSets(n, p, value) == folder' = [folder EXCEPT ![n][p] = value]
LEMMA BundlePart ==
    ASSUME BundleIInv, NEW n \in Folder, NEW p \in {"weights", "knowledge"}, NEW value,
           BundleSets(n, p, value)
    PROVE  /\ folder' = [m \in Folder |-> folder'[m]]
           /\ \A m \in Folder : BundleFolder(m)'
           /\ \A m \in Folder \ {n} : folder'[m] = folder[m]
           /\ folder'[n].weights = IF p = "weights" THEN value ELSE folder[n].weights
           /\ folder'[n].knowledge = IF p = "knowledge" THEN value ELSE folder[n].knowledge
<1>1. /\ folder' = [m \in Folder |-> folder'[m]]
      /\ \A m \in Folder \ {n} : folder'[m] = folder[m]
  BY DEF BundleSets, BundleIInv, BundleTyped
<1>2. folder'[n] = [folder[n] EXCEPT ![p] = value]
  BY DEF BundleSets, BundleIInv, BundleTyped
<1>3. BundleFolder(n)
  BY DEF BundleIInv, BundleTyped
<1>4. CASE p = "weights"
  <2>1. folder'[n] = [code |-> folder[n].code, weights |-> value,
                      knowledge |-> folder[n].knowledge]
    BY <1>2, <1>3, <1>4 DEF BundleFolder
  <2> QED BY <1>1, <1>4, <2>1 DEF BundleFolder, BundleIInv, BundleTyped
<1>5. CASE p = "knowledge"
  <2>1. folder'[n] = [code |-> folder[n].code, weights |-> folder[n].weights,
                      knowledge |-> value]
    BY <1>2, <1>3, <1>5 DEF BundleFolder
  <2> QED BY <1>1, <1>5, <2>1 DEF BundleFolder, BundleIInv, BundleTyped
<1> QED BY <1>4, <1>5

\* A folder that is made or goes.
LEMMA BundleWhole ==
    ASSUME BundleIInv, NEW n, NEW to \in {Archive!Absent, Archive!Scaffold},
           folder' = [folder EXCEPT ![n] = to]
    PROVE  /\ folder' = [m \in Folder |-> folder'[m]]
           /\ \A m \in Folder : BundleFolder(m)'
           /\ \A m \in Folder \ {n} : folder'[m] = folder[m]
           /\ n \in Folder => folder'[n].weights = 0 /\ folder'[n].knowledge = 0
<1>1. /\ folder' = [m \in Folder |-> folder'[m]]
      /\ \A m \in Folder \ {n} : folder'[m] = folder[m]
  BY DEF BundleIInv, BundleTyped
<1>2. to = [code |-> to.code, weights |-> 0, knowledge |-> 0]
  BY DEF Archive!Absent, Archive!Scaffold
<1>3. n \in Folder => folder'[n] = to
  BY DEF BundleIInv, BundleTyped
<1> HIDE DEF Archive!Absent, Archive!Scaffold
<1>4. \A m \in Folder : BundleFolder(m)'
  BY <1>1, <1>2, <1>3 DEF BundleFolder, BundleIInv, BundleTyped
<1> QED BY <1>1, <1>2, <1>3, <1>4

\* A folder that is filled is not the one an import is at.
LEMMA BundleFillKeeps ==
    ASSUME BundleIInv, NEW n \in Folder, NEW p \in {"weights", "knowledge", "evals"},
           Archive!Fill(n, p)
    PROVE  BundleIInv'
<1>1. /\ importing = Archive!Nothing /\ Archive!Changed(n)
      /\ stage' = [stage EXCEPT ![n] = IF p = "weights" THEN "native" ELSE @]
      /\ IF p = "evals" THEN evals' = [evals EXCEPT ![n] = contents'] /\ UNCHANGED folder
         ELSE folder' = [folder EXCEPT ![n][p] = contents'] /\ UNCHANGED evals
  BY Zenon DEF Archive!Fill
<1>2. UNCHANGED <<exported, importing>>
  BY DEF Archive!Fill
<1>3. /\ evals' = [m \in Folder |-> evals'[m]] /\ stage' = [m \in Folder |-> stage'[m]]
      /\ \A m \in Folder \ {n} : evals'[m] = evals[m] /\ stage'[m] = stage[m]
  <2>1. evals' = evals \/ evals' = [evals EXCEPT ![n] = contents']
    BY <1>1
  <2>2. stage' = [stage EXCEPT ![n] = IF p = "weights" THEN "native" ELSE @]
    BY <1>1
  <2> QED BY <2>1, <2>2 DEF BundleIInv, BundleTyped
<1>4. BundleBegun'
  BY <1>1, <1>2 DEF BundleBegun, Archive!Nothing
<1>5. /\ folder' = [m \in Folder |-> folder'[m]] /\ \A m \in Folder : BundleFolder(m)'
      /\ \A m \in Folder \ {n} : folder'[m] = folder[m]
  <2>1. CASE p = "evals"
    BY <1>1, <2>1 DEF BundleIInv, BundleTyped, BundleFolder
  <2>2. CASE p \in {"weights", "knowledge"}
    <3>1. folder' = [folder EXCEPT ![n][p] = contents']
      BY <1>1, <2>2
    <3>2. BundleSets(n, p, contents')
      BY <3>1, Zenon DEF BundleSets
    <3> QED BY <2>2, <3>2, BundlePart, Zenon
  <2> QED BY <2>1, <2>2
<1>6. BundleTyped'
  BY <1>1, <1>2, <1>3, <1>5 DEF BundleIInv, BundleTyped, Archive!Nothing
<1> QED BY <1>1, <1>3, <1>4, <1>5, <1>6, BundleOfOne

\* A module is made in place of one that is absent.
LEMMA BundleCreated ==
    ASSUME BundleIInv, NEW n, Archive!Create(n)
    PROVE  /\ folder' = [m \in Folder |-> folder'[m]]
           /\ stage' = [m \in Folder |-> stage'[m]]
           /\ \A m \in Folder : BundleFolder(m)'
           /\ \A m \in Folder \ {n} : folder'[m] = folder[m] /\ stage'[m] = stage[m]
           /\ n \in Folder => folder'[n].weights = 0 /\ folder'[n].knowledge = 0
<1>1. folder' = [folder EXCEPT ![n] = Archive!Scaffold]
  BY DEF Archive!Create
<1>2. stage' = [stage EXCEPT ![n] = "bootstrap"]
  BY DEF Archive!Create
<1>3. stage' = [m \in Folder |-> stage'[m]] /\ \A m \in Folder \ {n} : stage'[m] = stage[m]
  BY <1>2 DEF BundleIInv, BundleTyped
<1> QED BY <1>1, <1>3, BundleWhole

\* A bundle that is exported names a folder.
LEMMA BundleNewKeeps ==
    ASSUME BundleIInv, NEW n \in Folder, Archive!NewModule(n) PROVE BundleIInv'
<1>1. /\ importing = Archive!Nothing /\ Archive!Create(Lower[n])
      /\ Archive!Changed(Lower[n])
      /\ UNCHANGED <<evals, exported, importing>>
  BY DEF Archive!NewModule
<1>2. BundleTyped'
  BY <1>1, BundleCreated DEF BundleIInv, BundleTyped
<1>3. BundleBegun'
  BY <1>1 DEF BundleBegun, Archive!Nothing
<1> QED BY <1>1, <1>2, <1>3, BundleCreated, BundleOfOne

\* An import begins by emptying its module.
LEMMA BundleImportKeeps ==
    ASSUME BundleIInv, NEW b \in exported, NEW overwrite, Archive!Import(b, overwrite)
    PROVE  BundleIInv'
<1>1. /\ UNCHANGED <<evals, stage, exported>> /\ Archive!Changed(b.name)
      /\ importing' = [bundle |-> b, at |-> "scaffold"]
      /\ folder' = [folder EXCEPT ![b.name] = Archive!Absent]
  BY DEF Archive!Import, Archive!Remove
<1>2. b.name \in Folder
  BY DEF BundleIInv, BundleTyped
<1>3. /\ folder' = [m \in Folder |-> folder'[m]] /\ \A m \in Folder : BundleFolder(m)'
      /\ \A m \in Folder \ {b.name} : folder'[m] = folder[m]
      /\ folder'[b.name].weights = 0 /\ folder'[b.name].knowledge = 0
  BY <1>1, <1>2, BundleWhole
<1>4. BundleTyped'
  BY <1>1, <1>2, <1>3 DEF BundleIInv, BundleTyped
<1>5. imported' = Archive!NoBundle \/ imported'.name # b.name
  BY <1>1 DEF Archive!Changed
<1>6. BundleBegun'
  BY <1>1, <1>3, <1>5 DEF BundleBegun, Archive!Nothing
<1> QED BY <1>1, <1>3, <1>4, <1>6, BundleOfOne

\* The scaffold has neither weights nor knowledge.
LEMMA BundleScaffoldedKeeps == ASSUME BundleIInv, Archive!Scaffolded PROVE BundleIInv'
<1> DEFINE n == Lower[importing.bundle.name]
           b == importing.bundle
<1>1. /\ importing # Archive!Nothing /\ importing.at = "scaffold"
      /\ importing' = [importing EXCEPT !.at = "weights"]
      /\ UNCHANGED <<evals, exported>>
      /\ \/ UNCHANGED <<folder, stage, imported>>
         \/ Archive!Create(n) /\ Archive!Changed(n)
  BY DEF Archive!Scaffolded, Archive!At, Archive!Then
<1>2. importing' = [bundle |-> b, at |-> "weights"] /\ b.name \in Folder
  BY <1>1 DEF BundleIInv, BundleTyped
<1>3. /\ folder[b.name].weights = 0 /\ folder[b.name].knowledge = 0
      /\ imported = Archive!NoBundle \/ imported.name # b.name
  BY <1>1 DEF BundleIInv, BundleBegun
<1>4. CASE UNCHANGED <<folder, stage, imported>>
  <2>1. BundleTyped'
    BY <1>1, <1>2, <1>4 DEF BundleIInv, BundleTyped, BundleFolder
  <2>2. BundleBegun'
    BY <1>2, <1>3, <1>4 DEF BundleBegun
  <2> QED BY <1>1, <1>4, <2>1, <2>2 DEF BundleIInv, BundleDone, BundleLeft
<1>5. CASE Archive!Create(n) /\ Archive!Changed(n)
  <2>1. BundleTyped'
    <3> HIDE DEF n
    <3> QED BY <1>1, <1>2, <1>5, BundleCreated DEF BundleIInv, BundleTyped
  <2>2. folder'[b.name].weights = 0 /\ folder'[b.name].knowledge = 0
    <3> HIDE DEF n
    <3> QED BY <1>2, <1>3, <1>5, BundleCreated
  <2>3. imported' = Archive!NoBundle \/ imported'.name # b.name
    BY <1>3, <1>5 DEF Archive!Changed
  <2>4. BundleBegun'
    BY <1>2, <2>2, <2>3 DEF BundleBegun
  <2> HIDE DEF n
  <2> QED BY <1>1, <1>5, <2>1, <2>4, BundleCreated, BundleOfOne
<1> QED BY <1>1, <1>4, <1>5

\* Each part is there once it is restored.
LEMMA BundleRestoreKeeps ==
    ASSUME BundleIInv,
           \/ Archive!Restore("weights", "knowledge") \/ Archive!Restore("knowledge", "evals")
    PROVE  BundleIInv'
<1> DEFINE b == importing.bundle
           n == b.name
<1>1. ASSUME NEW p \in {"weights", "knowledge"}, NEW to, Archive!Restore(p, to),
             \/ (p = "weights" /\ to = "knowledge")
             \/ (p = "knowledge" /\ to = "evals")
      PROVE  BundleIInv'
  <2>1. /\ importing # Archive!Nothing /\ importing.at = p
        /\ importing' = [importing EXCEPT !.at = to]
        /\ UNCHANGED <<evals, stage, exported, imported>>
    BY <1>1 DEF Archive!Restore, Archive!At, Archive!Then
  <2> DEFINE value == Archive!Copied(folder[n][p], b[p])
  <2>2. folder' = [folder EXCEPT ![n][p] = value]
    BY <1>1 DEF Archive!Restore, BundleIInv, BundleTyped
  <2>3. importing' = [bundle |-> b, at |-> to] /\ n \in Folder
    BY <2>1 DEF BundleIInv, BundleTyped
  <2>4. /\ folder[n].weights = IF p = "weights" THEN 0 ELSE b.weights
        /\ folder[n].knowledge = 0
        /\ imported = Archive!NoBundle \/ imported.name # n
    BY <1>1, <2>1 DEF BundleIInv, BundleBegun
  <2>5. value = IF p = "weights" THEN b.weights ELSE b.knowledge
    BY <1>1, <2>4 DEF Archive!Copied
  <2>6. /\ folder' = [m \in Folder |-> folder'[m]] /\ \A m \in Folder : BundleFolder(m)'
        /\ \A m \in Folder \ {n} : folder'[m] = folder[m]
        /\ folder'[n].weights = b.weights
        /\ folder'[n].knowledge = IF p = "knowledge" THEN b.knowledge ELSE 0
    <3> HIDE DEF value, n
    <3>1. /\ folder' = [m \in Folder |-> folder'[m]] /\ \A m \in Folder : BundleFolder(m)'
          /\ \A m \in Folder \ {n} : folder'[m] = folder[m]
          /\ folder'[n].weights = IF p = "weights" THEN value ELSE folder[n].weights
          /\ folder'[n].knowledge = IF p = "knowledge" THEN value ELSE folder[n].knowledge
      <4>1. BundleSets(n, p, value)
        BY <2>2, Zenon DEF BundleSets
      <4> QED BY <2>3, <4>1, BundlePart, Zenon
    <3> QED BY <1>1, <2>4, <2>5, <3>1
  <2>7. BundleTyped'
    BY <2>1, <2>3, <2>6 DEF BundleIInv, BundleTyped
  <2>8. BundleBegun'
    BY <1>1, <2>1, <2>3, <2>4, <2>6 DEF BundleBegun
  <2>9. BundleDone'
    BY <2>1, <2>4, <2>6 DEF BundleIInv, BundleDone, BundleLeft
  <2> QED BY <2>7, <2>8, <2>9 DEF BundleIInv
<1> QED BY <1>1

\* An import that returns went through every part.
LEMMA BundleEndKeeps ==
    ASSUME BundleIInv, Archive!RestoreEvals \/ Archive!SetStage PROVE BundleIInv'
<1> DEFINE b == importing.bundle
           n == b.name
<1>1. CASE Archive!RestoreEvals
  <2>1. /\ importing # Archive!Nothing /\ importing.at = "evals"
        /\ importing' = [importing EXCEPT !.at = "stage"]
        /\ evals' = [evals EXCEPT ![n] = Archive!Copied(evals[n], b.evals)]
        /\ UNCHANGED <<folder, stage, exported, imported>>
    BY <1>1 DEF Archive!RestoreEvals, Archive!At, Archive!Then, BundleIInv, BundleTyped
  <2>2. importing' = [bundle |-> b, at |-> "stage"] /\ n \in Folder
    BY <2>1 DEF BundleIInv, BundleTyped
  <2>3. /\ evals' = [m \in Folder |-> evals'[m]]
        /\ \A m \in Folder \ {n} : evals'[m] = evals[m]
        /\ evals'[n] = b.evals \/ b.evals = 0
    BY <2>1, <2>2 DEF BundleIInv, BundleTyped, Archive!Copied
  <2>4. BundleTyped'
    BY <2>1, <2>2, <2>3 DEF BundleIInv, BundleTyped, BundleFolder
  <2>5. BundleBegun'
    BY <2>1, <2>2, <2>3 DEF BundleIInv, BundleBegun
  <2>6. BundleDone'
    BY <2>1, <2>3 DEF BundleIInv, BundleBegun, BundleDone, BundleLeft
  <2> QED BY <2>4, <2>5, <2>6 DEF BundleIInv
<1>2. CASE Archive!SetStage
  <2>1. /\ importing # Archive!Nothing /\ importing.at = "stage"
        /\ importing' = Archive!Nothing /\ imported' = b
        /\ stage' = [stage EXCEPT ![n] = b.stage]
        /\ UNCHANGED <<folder, evals, exported>>
    BY <1>2 DEF Archive!SetStage, Archive!At
  <2>2. BundleTyped'
    BY <2>1 DEF BundleIInv, BundleTyped, BundleFolder
  <2>3. BundleBegun'
    BY <2>1 DEF BundleBegun
  <2>4. /\ n \in Folder
        /\ folder[n].weights = b.weights /\ folder[n].knowledge = b.knowledge
        /\ evals[n] = b.evals \/ b.evals = 0
        /\ stage'[n] = b.stage
    BY <2>1 DEF BundleIInv, BundleTyped, BundleBegun
  <2> HIDE DEF b
  <2>5. BundleDone'
    BY <2>1, <2>4 DEF BundleDone, BundleLeft
  <2> QED BY <2>2, <2>3, <2>5 DEF BundleIInv
<1> QED BY <1>1, <1>2

\* Every step of an export, an import and a removal keeps it.
LEMMA BundleInductive == BundleIInv /\ [Archive!Next]_(Archive!vars) => BundleIInv'
<1> SUFFICES ASSUME BundleIInv, [Archive!Next]_(Archive!vars) PROVE BundleIInv'
  OBVIOUS
<1>1. ASSUME NEW n \in Folder, Archive!Export(n) PROVE BundleIInv'
  BY <1>1, BundleOthersKeep DEF Archive!Export, BundleIInv, BundleTyped
<1>2. ASSUME Archive!Refused \/ Archive!Raises \/ Archive!Restart PROVE BundleIInv'
  BY <1>2, BundleOthersKeep
     DEF Archive!Refused, Archive!Raises, Archive!Restart, BundleIInv, BundleTyped
<1>3. CASE UNCHANGED Archive!vars
  BY <1>3, BundleOthersKeep DEF Archive!vars, BundleIInv, BundleTyped
<1> QED BY <1>1, <1>2, <1>3, BundleFillKeeps, BundleNewKeeps, BundleImportKeeps,
           BundleScaffoldedKeeps, BundleRestoreKeeps, BundleEndKeeps DEF Archive!Next

\* What is kept of an import is that it left the bundle.
LEMMA BundleKept == BundleIInv => Archive!ImportedIsBundle
BY DEF BundleIInv, BundleDone, BundleLeft, Archive!ImportedIsBundle

(***************************************************************************)
(* The streamed request: whatever the classifier and the decomposer say,   *)
(* every task is reached, and done is the last that is sent.               *)
(***************************************************************************)

\* A task waits for the one before it, or for tasks that wait for none.
StreamInOrder ==
    \E n \in Nat : DOMAIN needs = 1..n /\ \A i \in 1..n : needs[i] \subseteq {i - 1} \ {0}
StreamInTwo ==
    \E first \in SUBSET DOMAIN needs : \A i \in DOMAIN needs :
        needs[i] \subseteq first /\ (i \in first => needs[i] = {})
StreamNeeds == StreamInOrder \/ StreamInTwo
StreamStarts == pc = "asked" => needs = <<>> /\ finished = {}
\* The node is settled before the last word is sent, and stays so.
StreamSettled ==
    /\ pc \in {"announcing", "sending", "closing", "saving", "over"}
          => node \in {"COMPLETED", "FAILED"}
    /\ done => pc \in {"saving", "over"}
StreamIInv ==
    /\ finished \subseteq DOMAIN needs
    /\ StreamNeeds /\ StreamStarts /\ StreamSettled

\* No task is known before the request is split.
LEMMA StreamInitially == Streaming!Init => StreamIInv
<1> SUFFICES ASSUME Streaming!Init PROVE StreamIInv
  OBVIOUS
<1>1. needs = <<>> /\ finished = {} /\ DOMAIN <<>> = {}
  BY DEF Streaming!Init
<1>2. StreamNeeds
  BY <1>1 DEF StreamNeeds, StreamInTwo
<1> QED BY <1>1, <1>2 DEF StreamIInv, StreamStarts, StreamSettled, Streaming!Init

\* A task that is not done and waits for none that is not done is ready.
LEMMA StreamNoneIsDropped == StreamIInv => Streaming!NoTaskDropped
<1> SUFFICES ASSUME StreamIInv, finished # DOMAIN needs PROVE Streaming!Ready # {}
  BY DEF Streaming!NoTaskDropped
<1> DEFINE left == DOMAIN needs \ finished
<1>1. left # {}
  BY DEF StreamIInv
<1>2. CASE StreamInOrder
  <2>1. PICK n \in Nat :
          DOMAIN needs = 1..n /\ \A i \in 1..n : needs[i] \subseteq {i - 1} \ {0}
    BY <1>2 DEF StreamInOrder
  <2>2. PICK m \in left : \A k \in left : m <= k
    <3>1. left \subseteq Nat
      BY <2>1
    <3> HIDE DEF left
    <3> QED BY <1>1, <3>1, Least
  <2>3. \A k \in 1..n : k < m => k \in finished
    BY <2>1, <2>2
  <2>4. needs[m] \subseteq finished
    BY <2>1, <2>2, <2>3
  <2> QED BY <2>2, <2>4 DEF Streaming!Ready
<1>3. CASE StreamInTwo
  <2>1. PICK first \in SUBSET DOMAIN needs : \A i \in DOMAIN needs :
          needs[i] \subseteq first /\ (i \in first => needs[i] = {})
    BY <1>3 DEF StreamInTwo
  <2>2. CASE \E i \in first : i \notin finished
    BY <2>1, <2>2 DEF Streaming!Ready
  <2>3. CASE first \subseteq finished
    BY <1>1, <2>1, <2>3 DEF Streaming!Ready
  <2> QED BY <2>2, <2>3
<1> QED BY <1>2, <1>3 DEF StreamIInv, StreamNeeds

\* The tasks wait in order, or in two levels.
LEMMA StreamClassifyKeeps == ASSUME StreamIInv, Streaming!Classify PROVE StreamIInv'
<1>1. PICK s \in Streaming!SetToSeqs(Streaming!Confident) \union {<<Fallback>>} :
        /\ needs' = [i \in DOMAIN s |-> Streaming!Deps(s, i)]
        /\ pc' \in {"single", "multi"}
  BY DEF Streaming!Classify
<1>2. \E n \in Nat : DOMAIN s = 1..n
  <2>1. CASE s = <<Fallback>>
    BY <2>1
  <2>2. CASE s \in Streaming!SetToSeqs(Streaming!Confident)
    <3> DEFINE D == Streaming!Cardinality(Streaming!Confident)
    <3>1. D \in Nat
      <4>1. IsFiniteSet(Streaming!Confident)
        BY StreamingAssumption, FS_Subset DEF Streaming!Confident
      <4>2. D = Cardinality(Streaming!Confident)
        BY DEF Streaming!Cardinality, Cardinality
      <4> QED BY <4>1, <4>2, FS_CardinalityType
    <3>2. DOMAIN s = 1..D
      BY <2>2 DEF Streaming!SetToSeqs
    <3> HIDE DEF D
    <3> QED BY <3>1, <3>2
  <2> QED BY <2>1, <2>2
<1>3. StreamNeeds'
  <2>1. CASE sequential'
    <3>1. \A i \in DOMAIN s : Streaming!Deps(s, i) = {i - 1} \ {0}
      BY <2>1 DEF Streaming!Deps
    <3>2. StreamInOrder'
      BY <1>1, <1>2, <3>1 DEF StreamInOrder
    <3> QED BY <3>2 DEF StreamNeeds
  <2>2. CASE ~sequential'
    <3> DEFINE first == {j \in DOMAIN s : s[j] = WebSearch}
    <3>1. \A i \in DOMAIN s :
            Streaming!Deps(s, i) = {j \in DOMAIN s : s[i] = Coding /\ s[j] = WebSearch}
      BY <2>2 DEF Streaming!Deps
    <3>2. DOMAIN needs' = DOMAIN s /\ \A i \in DOMAIN s : needs'[i] = Streaming!Deps(s, i)
      BY <1>1
    <3>3. \A i \in DOMAIN s :
            needs'[i] \subseteq first /\ (i \in first => needs'[i] = {})
      BY <3>1, <3>2, StreamingAssumption
    <3>4. StreamInTwo'
      BY <3>2, <3>3 DEF StreamInTwo
    <3> QED BY <3>4 DEF StreamNeeds
  <2> QED BY <2>1, <2>2
<1>4. finished' = {} /\ ~done'
  BY DEF Streaming!Classify, StreamIInv, StreamStarts, StreamSettled
<1> QED BY <1>1, <1>3, <1>4 DEF StreamIInv, StreamStarts, StreamSettled

\* Every step of the stream keeps it.
LEMMA StreamInductive == StreamIInv /\ [Streaming!Next]_(Streaming!vars) => StreamIInv'
<1> SUFFICES ASSUME StreamIInv, [Streaming!Next]_(Streaming!vars) PROVE StreamIInv'
  OBVIOUS
<1>1. ASSUME UNCHANGED needs, finished' \subseteq DOMAIN needs, StreamStarts',
             StreamSettled'
      PROVE  StreamIInv'
  BY <1>1 DEF StreamIInv, StreamNeeds, StreamInOrder, StreamInTwo
<1>2. ASSUME Streaming!Round PROVE StreamIInv'
  <2>1. UNCHANGED <<needs, pc, node, done>> /\ finished' = finished \union Streaming!Ready
    BY <1>2 DEF Streaming!Round, Streaming!response
  <2>2. finished' \subseteq DOMAIN needs
    BY <2>1 DEF StreamIInv, Streaming!Ready
  <2>3. pc # "asked"
    BY <1>2 DEF Streaming!Round, Streaming!Ready, StreamIInv, StreamStarts
  <2> QED BY <1>1, <2>1, <2>2, <2>3 DEF StreamIInv, StreamStarts, StreamSettled
<1>3. ASSUME UNCHANGED <<needs, finished>>, pc' # "asked", StreamSettled' PROVE StreamIInv'
  BY <1>1, <1>3 DEF StreamIInv, StreamStarts
<1>4. ASSUME Streaming!ClassifyFails PROVE StreamIInv'
  BY <1>3, <1>4 DEF Streaming!ClassifyFails, StreamIInv, StreamSettled
<1>5. ASSUME Streaming!Token PROVE StreamIInv'
  BY <1>3, <1>5 DEF Streaming!Token, StreamIInv, StreamSettled
<1>6. ASSUME Streaming!Answered \/ Streaming!Announced PROVE StreamIInv'
  BY <1>3, <1>6 DEF Streaming!Answered, Streaming!Announced, StreamIInv, StreamSettled
<1>7. ASSUME Streaming!Raised \/ Streaming!Orchestrated PROVE StreamIInv'
  BY <1>3, <1>7 DEF Streaming!Raised, Streaming!Orchestrated, StreamIInv, StreamSettled
<1>8. ASSUME Streaming!PiecesEnd \/ Streaming!Close PROVE StreamIInv'
  BY <1>3, <1>8 DEF Streaming!PiecesEnd, Streaming!Close, StreamIInv, StreamSettled
<1>9. ASSUME Streaming!SaveContext \/ Streaming!Disconnect PROVE StreamIInv'
  BY <1>3, <1>9 DEF Streaming!SaveContext, Streaming!Disconnect, StreamIInv, StreamSettled
<1>10. CASE UNCHANGED Streaming!vars
  BY <1>1, <1>10 DEF Streaming!vars, StreamIInv, StreamStarts, StreamSettled
<1> QED BY <1>2, <1>4, <1>5, <1>6, <1>7, <1>8, <1>9, <1>10, StreamClassifyKeeps
        DEF Streaming!Next

\* A task that is left can start, and the last word is last.
LEMMA StreamKept == StreamIInv => Streaming!NoTaskDropped /\ Streaming!DoneIsSettled
BY StreamNoneIsDropped DEF StreamIInv, StreamSettled, Streaming!DoneIsSettled

(***************************************************************************)
(* The context memory: what is served is what would be computed, and of the *)
(* caller's scope, for any scopes and number of turns.                     *)
(***************************************************************************)

\* The scopes of the turns, and the prompts that are kept.
ContextKept ==
    /\ dirty => DOMAIN prompts = {}
    /\ Context!PromptsAreFresh
ContextIInv == ContextKept /\ Context!ScopesAreSeparate

\* What is computed for a scope is of its turns only.
LEMMA ContextPrompt ==
    ASSUME NEW key, key[2] # "any"
    PROVE  \A t \in Context!Prompt(key).recent : t.scope = key[2]
BY DEF Context!Prompt, Context!LastN, Context!Turns

\* No prompt is kept.
LEMMA ContextInitially == Context!Init => ContextIInv
BY DEF Context!Init, ContextIInv, ContextKept, Context!PromptsAreFresh,
   Context!ScopesAreSeparate

\* Every save and memory drops the prompts, and what is served is computed or kept.
LEMMA ContextInductive == ContextIInv /\ [Context!Next]_(Context!vars) => ContextIInv'
<1> SUFFICES ASSUME ContextIInv, [Context!Next]_(Context!vars) PROVE ContextIInv'
  OBVIOUS
<1>1. ASSUME Context!Invalid, UNCHANGED served PROVE ContextIInv'
  BY <1>1 DEF Context!Invalid, ContextIInv, ContextKept, Context!PromptsAreFresh,
              Context!ScopesAreSeparate
<1>2. ASSUME UNCHANGED <<turns, memories, prompts, dirty, served>> PROVE ContextIInv'
  <2>1. \A key : Context!Prompt(key)' = Context!Prompt(key)
    BY <1>2 DEF Context!Prompt, Context!LastN, Context!Turns
  <2> QED BY <1>2, <2>1 DEF ContextIInv, ContextKept, Context!PromptsAreFresh,
              Context!ScopesAreSeparate
<1>3. ASSUME NEW key \in Context!Key, Context!FromCache(key) \/ Context!Compute(key)
      PROVE  ContextIInv'
  <2>1. \A k : Context!Prompt(k)' = Context!Prompt(k)
    <3>1. turns' = turns /\ memories' = memories
      BY <1>3 DEF Context!FromCache, Context!Compute
    <3> QED BY <3>1 DEF Context!Prompt, Context!LastN, Context!Turns
  <2>2. served' = [key |-> key, prompt |-> Context!Prompt(key)]
    BY <1>3 DEF Context!FromCache, Context!Compute, Context!CachedPrompt, ContextIInv,
                ContextKept, Context!PromptsAreFresh
  <2>3. Context!ScopesAreSeparate'
    BY <2>2, ContextPrompt DEF Context!ScopesAreSeparate
  <2>4. CASE Context!FromCache(key)
    <3>1. UNCHANGED <<prompts, dirty>>
      BY <2>4 DEF Context!FromCache
    <3>2. ContextKept'
      BY <2>1, <3>1 DEF ContextIInv, ContextKept, Context!PromptsAreFresh
    <3> QED BY <2>3, <3>2 DEF ContextIInv
  <2>5. CASE Context!Compute(key)
    <3>1. /\ dirty' = FALSE
          /\ prompts' = [k \in DOMAIN prompts \union {key} |->
                     IF k = key THEN Context!Prompt(key) ELSE prompts[k]]
      BY <2>5 DEF Context!Compute
    <3>2. \A k \in DOMAIN prompts : prompts[k] = Context!Prompt(k)
      BY DEF ContextIInv, ContextKept, Context!PromptsAreFresh
    <3>3. ContextKept'
      BY <2>1, <3>1, <3>2 DEF ContextKept, Context!PromptsAreFresh
    <3> QED BY <2>3, <3>3 DEF ContextIInv
  <2> QED BY <1>3, <2>4, <2>5
<1>4. ASSUME NEW s \in Scope, NEW e, Context!Save(s, e) PROVE ContextIInv'
  BY <1>1, <1>4 DEF Context!Save
<1>5. ASSUME NEW s \in Scope, Context!SaveFails(s) PROVE ContextIInv'
  BY <1>2, <1>5 DEF Context!SaveFails
<1>6. ASSUME NEW s \in Scope, NEW m, Context!Remember(s, m) PROVE ContextIInv'
  BY <1>1, <1>6 DEF Context!Remember
<1>7. CASE UNCHANGED Context!vars
  BY <1>2, <1>7 DEF Context!vars
<1> QED BY <1>3, <1>4, <1>5, <1>6, <1>7 DEF Context!Next

(***************************************************************************)
(* The modules' knowledge: the cache is bounded and fresh, for any size,   *)
(* queries and chunks.                                                     *)
(***************************************************************************)

\* What a sequence holds, and that it holds it once.
Held(s) == {s[i] : i \in 1..Len(s)}
Once(s) == \A i, j \in 1..Len(s) : s[i] = s[j] => i = j

\* The cache of the modules' knowledge: no query is cached twice, ...
KnowledgeCached ==
    /\ cache = [q \in Query |-> cache[q]]
    /\ order \in Seq(Query) /\ Len(order) <= CacheSize
    /\ Once(order) /\ Held(order) = {q \in Query : cache[q] # Knowledge!Absent}
KnowledgeTyped ==
    /\ db \subseteq Chunk
    /\ reader = [r \in Reader |-> reader[r]] /\ result = [r \in Reader |-> result[r]]
    /\ writer = [w \in Writer |-> writer[w]] /\ asks = [r \in Reader |-> asks[r]]
    /\ \A r \in Reader : reader[r] # "idle" => asks[r] \in Query
    /\ \A r \in Reader : reader[r] = "storing" => result[r] \subseteq Chunk
\* ... and while no ingest is under way what is about to be stored is what the collection
\* answers, unless an ingest ended in between.
KnowledgeRead ==
    (\A w \in Writer : writer[w] = "idle") =>
        \A r \in Reader \ crossed : reader[r] = "storing" => result[r] = Knowledge!Served(db)
KnowledgeIInv ==
    /\ KnowledgeTyped /\ KnowledgeCached /\ KnowledgeRead /\ Knowledge!CacheIsFresh

\* A query that is taken out of a list that holds it once is out, and nothing else is.
LEMMA WithoutOne ==
    ASSUME NEW S, NEW s \in Seq(S), Once(s), NEW q, NEW t, t = Knowledge!Without(s, q)
    PROVE  /\ t \in Seq(S) /\ Len(t) <= Len(s)
           /\ Once(t) /\ Held(t) = Held(s) \ {q}
<1>0. Len(s) \in Nat /\ DOMAIN s = 1..Len(s)
  BY LenProperties
<1>1. CASE ~ \E i \in DOMAIN s : s[i] = q
  <2>1. t = s
    BY <1>1 DEF Knowledge!Without
  <2> QED BY <1>0, <1>1, <2>1 DEF Held
<1>2. CASE \E i \in DOMAIN s : s[i] = q
  <2> DEFINE k == CHOOSE i \in DOMAIN s : s[i] = q
             head == SubSeq(s, 1, k - 1)
             tail == SubSeq(s, k + 1, Len(s))
  <2>0. \A i, j \in 1..Len(s) : s[i] = s[j] => i = j
    BY DEF Once
  <2>1. k \in 1..Len(s) /\ s[k] = q
    BY <1>0, <1>2
  <2>2. t = head \o tail
    BY <1>2 DEF Knowledge!Without, Knowledge!RemoveAt
  <2> HIDE DEF k
  <2>3. \A i \in 1..Len(s) : s[i] \in S
    BY ElementOfSeq
  <2>4. /\ head \in Seq(S) /\ Len(head) = k - 1
        /\ \A i \in 1..(k - 1) : head[i] = s[i]
    <3>1. /\ head \in Seq(S)
          /\ Len(head) = IF 1 <= k - 1 THEN k - 1 - 1 + 1 ELSE 0
          /\ \A i \in 1..(k - 1 - 1 + 1) : head[i] = s[1 + i - 1]
      <4>1. \A i \in 1..(k - 1) : s[i] \in S
        BY <1>0, <2>1, <2>3
      <4>2. k - 1 \in Int
        BY <1>0, <2>1
      <4> QED BY <4>1, <4>2, SubSeqProperties
    <3> HIDE DEF head
    <3> QED BY <1>0, <2>1, <3>1
  <2>5. /\ tail \in Seq(S) /\ Len(tail) = Len(s) - k
        /\ \A i \in 1..(Len(s) - k) : tail[i] = s[k + i]
    <3>1. /\ tail \in Seq(S)
          /\ Len(tail) = IF k + 1 <= Len(s) THEN Len(s) - (k + 1) + 1 ELSE 0
          /\ \A i \in 1..(Len(s) - (k + 1) + 1) : tail[i] = s[(k + 1) + i - 1]
      <4>1. \A i \in (k + 1)..Len(s) : s[i] \in S
        BY <1>0, <2>1, <2>3
      <4>2. k + 1 \in Int /\ Len(s) \in Int
        BY <1>0, <2>1
      <4> QED BY <4>1, <4>2, SubSeqProperties
    <3> HIDE DEF tail
    <3>2. Len(s) - (k + 1) + 1 = Len(s) - k /\ (k + 1 <= Len(s) \/ Len(s) - k = 0)
      <4>1. \A n \in Nat : \A i \in 1..n :
              n - (i + 1) + 1 = n - i /\ (i + 1 <= n \/ n - i = 0)
        OBVIOUS
      <4> QED BY <1>0, <2>1, <4>1
    <3>3. \A i \in 1..(Len(s) - k) : (k + 1) + i - 1 = k + i
      BY <1>0, <2>1
    <3> QED BY <3>1, <3>2, <3>3
  <2> HIDE DEF head, tail
  <2>6. /\ t \in Seq(S) /\ Len(t) = Len(s) - 1
        /\ \A i \in 1..(Len(s) - 1) : t[i] = IF i <= k - 1 THEN head[i] ELSE tail[i - (k - 1)]
    <3>1. /\ t \in Seq(S) /\ Len(t) = Len(head) + Len(tail)
          /\ \A i \in 1..(Len(head) + Len(tail)) :
                t[i] = IF i <= Len(head) THEN head[i] ELSE tail[i - Len(head)]
      <4>1. head \in Seq(S) /\ tail \in Seq(S)
        BY <2>4, <2>5
      <4>2. /\ head \o tail \in Seq(S) /\ Len(head \o tail) = Len(head) + Len(tail)
            /\ \A i \in 1 .. Len(head) + Len(tail) : (head \o tail)[i] =
                     IF i <= Len(head) THEN head[i] ELSE tail[i - Len(head)]
        BY <4>1, ConcatProperties
      <4> QED BY <2>2, <4>2, Zenon
    <3>2. Len(head) + Len(tail) = Len(s) - 1
      BY <1>0, <2>1, <2>4, <2>5
    <3> QED BY <2>4, <3>1, <3>2
  <2>7. \A i \in 1..(Len(s) - 1) : t[i] = IF i < k THEN s[i] ELSE s[i + 1]
    <3> SUFFICES ASSUME NEW i \in 1..(Len(s) - 1)
                 PROVE  t[i] = IF i < k THEN s[i] ELSE s[i + 1]
      OBVIOUS
    <3>1. CASE i < k
      BY <1>0, <2>1, <2>4, <2>6, <3>1
    <3>2. CASE ~(i < k)
      <4>1. i - (k - 1) \in 1..(Len(s) - k) /\ k + (i - (k - 1)) = i + 1
        BY <1>0, <2>1, <3>2
      <4>2. t[i] = tail[i - (k - 1)]
        BY <1>0, <2>1, <2>6, <3>2
      <4> QED BY <2>5, <3>2, <4>1, <4>2
    <3> QED BY <3>1, <3>2
  <2>8. \A i, j \in 1..Len(t) : t[i] = t[j] => i = j
    <3> DEFINE at(i) == IF i < k THEN i ELSE i + 1
    <3>1. \A i \in 1..Len(t) : at(i) \in 1..Len(s) /\ t[i] = s[at(i)]
      BY <1>0, <2>1, <2>6, <2>7
    <3>2. \A i, j \in 1..Len(t) : at(i) = at(j) => i = j
      BY <1>0, <2>1, <2>6
    <3> HIDE DEF at
    <3> QED BY <2>0, <3>1, <3>2
  <2>9. {t[i] : i \in 1..Len(t)} \subseteq {s[i] : i \in 1..Len(s)} \ {q}
    <3> SUFFICES ASSUME NEW i \in 1..Len(t)
                 PROVE  t[i] # q /\ \E j \in 1..Len(s) : t[i] = s[j]
      OBVIOUS
    <3>1. CASE i < k
      <4>1. i \in 1..Len(s) /\ t[i] = s[i] /\ i # k
        BY <1>0, <2>1, <2>6, <2>7, <3>1
      <4> QED BY <2>0, <2>1, <4>1
    <3>2. CASE ~(i < k)
      <4>1. i + 1 \in 1..Len(s) /\ t[i] = s[i + 1] /\ i + 1 # k
        BY <1>0, <2>1, <2>6, <2>7, <3>2
      <4> QED BY <2>0, <2>1, <4>1
    <3> QED BY <3>1, <3>2
  <2>10. {s[i] : i \in 1..Len(s)} \ {q} \subseteq {t[i] : i \in 1..Len(t)}
    <3> SUFFICES ASSUME NEW i \in 1..Len(s), s[i] # q PROVE \E j \in 1..Len(t) : s[i] = t[j]
      OBVIOUS
    <3>1. CASE i < k
      BY <1>0, <2>1, <2>6, <2>7, <3>1
    <3>2. CASE ~(i < k)
      <4>0. i # k
        BY <2>1
      <4>1. i - 1 \in 1..Len(t) /\ ~(i - 1 < k) /\ (i - 1) + 1 = i
        BY <1>0, <2>1, <2>6, <3>2, <4>0
      <4>2. t[i - 1] = s[(i - 1) + 1]
        BY <2>6, <2>7, <4>1
      <4> QED BY <4>1, <4>2
    <3> QED BY <3>1, <3>2
  <2>11. Len(t) <= Len(s)
    BY <1>0, <2>6
  <2>12. {t[i] : i \in 1..Len(t)} = {s[i] : i \in 1..Len(s)} \ {q}
    BY <2>9, <2>10, Zenon
  <2> QED BY <2>6, <2>8, <2>11, <2>12 DEF Held, Once
<1> QED BY <1>1, <1>2

\* The cached keys stay what they are.
LEMMA KnowledgeCacheStays ==
    ASSUME KnowledgeCached, UNCHANGED <<cache, order>> PROVE KnowledgeCached'
<1>1. Once(order)'
  BY DEF KnowledgeCached, Once
<1>2. Held(order)' = Held(order)
  BY DEF Held
<1>3. \A q \in Query : (cache[q] # Knowledge!Absent)' <=> cache[q] # Knowledge!Absent
  BY DEF Knowledge!Absent
<1> QED BY <1>1, <1>2, <1>3 DEF KnowledgeCached

\* A step that leaves the cache and the collection.
LEMMA KnowledgeOthersKeep ==
    ASSUME KnowledgeIInv, UNCHANGED <<db, cache, order, writer, crossed, raced>>,
           NEW r \in Reader,
           result' = [d \in Reader |-> result'[d]], reader' = [d \in Reader |-> reader'[d]],
           asks' = [d \in Reader |-> asks'[d]],
           \A d \in Reader \ {r} :
              reader'[d] = reader[d] /\ result'[d] = result[d] /\ asks'[d] = asks[d],
           reader'[r] # "idle" => asks'[r] \in Query,
           reader'[r] = "storing" => result'[r] = Knowledge!Served(db)
    PROVE  KnowledgeIInv'
<1>1. Knowledge!Served(db) \subseteq Chunk
  BY DEF KnowledgeIInv, KnowledgeTyped, Knowledge!Served
<1>2. KnowledgeTyped'
  BY <1>1 DEF KnowledgeIInv, KnowledgeTyped
<1>3. KnowledgeCached'
  BY KnowledgeCacheStays DEF KnowledgeIInv
<1>4. KnowledgeRead' /\ Knowledge!CacheIsFresh'
  BY DEF KnowledgeIInv, KnowledgeRead, Knowledge!CacheIsFresh, Knowledge!Served
<1> QED BY <1>2, <1>3, <1>4 DEF KnowledgeIInv

\* The cache is empty.
LEMMA KnowledgeInitially == Knowledge!Init => KnowledgeIInv
<1> SUFFICES ASSUME Knowledge!Init PROVE KnowledgeIInv
  OBVIOUS
<1>1. KnowledgeTyped
  BY DEF Knowledge!Init, KnowledgeTyped
<1>2. KnowledgeCached
  BY KnowledgeAssumption DEF Knowledge!Init, KnowledgeCached, Held, Once
<1>3. KnowledgeRead
  BY DEF Knowledge!Init, KnowledgeRead
<1>4. Knowledge!CacheIsFresh
  BY DEF Knowledge!Init, Knowledge!CacheIsFresh
<1> QED BY <1>1, <1>2, <1>3, <1>4 DEF KnowledgeIInv

\* A miss forgets one query at most.
LEMMA KnowledgeMissKeeps ==
    ASSUME KnowledgeIInv, NEW r \in Reader, NEW q \in Query, Knowledge!Miss(r, q)
    PROVE  KnowledgeIInv'
<1>1. /\ cache' = [cache EXCEPT ![q] = Knowledge!Absent]
      /\ order' = Knowledge!Without(order, q)
      /\ reader' = [reader EXCEPT ![r] = "asking"] /\ asks' = [asks EXCEPT ![r] = q]
      /\ crossed' = crossed \ {r} /\ raced' = raced \ {q}
      /\ UNCHANGED <<db, result, writer>>
  BY DEF Knowledge!Miss
<1>2. KnowledgeTyped'
  BY <1>1 DEF KnowledgeIInv, KnowledgeTyped
<1>3. KnowledgeCached'
  <2>1. cache' = [p \in Query |-> IF p = q THEN Knowledge!Absent ELSE cache[p]]
    BY <1>1 DEF KnowledgeIInv, KnowledgeCached
  <2>2. /\ order' \in Seq(Query) /\ Len(order') <= Len(order)
        /\ Once(order') /\ Held(order') = Held(order) \ {q}
    <3>1. order \in Seq(Query) /\ Once(order)
      BY DEF KnowledgeIInv, KnowledgeCached
    <3> QED BY <1>1, <3>1, WithoutOne
  <2>3. Held(order) = {p \in Query : cache[p] # Knowledge!Absent}
    BY DEF KnowledgeIInv, KnowledgeCached
  <2>4. {p \in Query : cache'[p] # Knowledge!Absent}
            = {p \in Query : cache[p] # Knowledge!Absent} \ {q}
    BY <2>1
  <2>5. Len(order') <= CacheSize
    BY <2>2, LenProperties, KnowledgeAssumption DEF KnowledgeIInv, KnowledgeCached
  <2> QED BY <2>1, <2>2, <2>3, <2>4, <2>5 DEF KnowledgeCached, Knowledge!Absent, Held, Once
<1>4. KnowledgeRead'
  BY <1>1 DEF KnowledgeIInv, KnowledgeTyped, KnowledgeRead
<1>5. Knowledge!CacheIsFresh'
  BY <1>1 DEF KnowledgeIInv, KnowledgeCached, Knowledge!CacheIsFresh, Knowledge!Absent
<1> QED BY <1>2, <1>3, <1>4, <1>5 DEF KnowledgeIInv

\* What is stored is what the collection serves, unless a write crossed the retrieval.
LEMMA KnowledgeStoreKeeps ==
    ASSUME KnowledgeIInv, NEW r \in Reader, Knowledge!Store(r) PROVE KnowledgeIInv'
<1> DEFINE q == asks[r]
           full == Knowledge!Full(order)
           evicted == IF full THEN {Head(order)} ELSE {}
           kept == IF full THEN Tail(order) ELSE order
           rest == Knowledge!Without(kept, q)
<1>1. /\ reader[r] = "storing" /\ reader' = [reader EXCEPT ![r] = "idle"]
      /\ cache' = [p \in Query |-> IF p = q THEN result[r]
                                   ELSE IF p \in evicted THEN Knowledge!Absent ELSE cache[p]]
      /\ order' = Append(rest, q)
      /\ raced' = IF r \in crossed THEN raced \union {q} ELSE raced \ {q}
      /\ UNCHANGED <<db, result, asks, writer, crossed>>
  BY DEF Knowledge!Store
<1>2. q \in Query /\ result[r] \subseteq Chunk /\ result[r] # Knowledge!Absent
  BY <1>1, KnowledgeAssumption DEF KnowledgeIInv, KnowledgeTyped, Knowledge!Absent
<1>3. KnowledgeTyped'
  BY <1>1 DEF KnowledgeIInv, KnowledgeTyped
<1>4. /\ order \in Seq(Query) /\ Len(order) <= CacheSize /\ Len(order) \in Nat
      /\ Once(order) /\ Held(order) = {p \in Query : cache[p] # Knowledge!Absent}
  BY LenProperties DEF KnowledgeIInv, KnowledgeCached
<1>5. /\ kept \in Seq(Query) /\ Len(kept) + 1 <= CacheSize
      /\ Once(kept) /\ Held(kept) = Held(order) \ evicted
  <2>1. CASE ~full
    BY <1>4, <2>1, KnowledgeAssumption DEF Knowledge!Full
  <2>2. CASE full
    <3>1. order # <<>>
      BY <1>4, <2>2, KnowledgeAssumption DEF Knowledge!Full
    <3>2. /\ Tail(order) \in Seq(Query) /\ Len(Tail(order)) = Len(order) - 1
          /\ \A i \in 1..Len(Tail(order)) : Tail(order)[i] = order[i + 1]
          /\ Head(order) = order[1]
      BY <1>4, <3>1, HeadTailProperties
    <3> DEFINE s == Tail(order)
    <3> HIDE DEF s
    <3>3. /\ s \in Seq(Query) /\ Len(s) = Len(order) - 1
          /\ \A i \in 1..Len(s) : s[i] = order[i + 1]
      BY <3>2 DEF s
    <3>4. Len(order) # 0
      BY <1>4, <2>2, KnowledgeAssumption DEF Knowledge!Full
    <3>a. \A i, j \in 1..Len(order) : order[i] = order[j] => i = j
      BY <1>4 DEF Once
    <3>b. \A i \in 1..Len(s) : i + 1 \in 1..Len(order) /\ i + 1 # 1 /\ 1 \in 1..Len(order)
      BY <1>4, <3>3, <3>4
    <3>5. \A i, j \in 1..Len(s) : s[i] = s[j] => i = j
      <4>1. \A i, j \in 1..Len(s) : s[i] = s[j] => i + 1 = j + 1
        BY <3>3, <3>a, <3>b
      <4> QED BY <4>1
    <3>6. Held(s) \subseteq Held(order) \ {order[1]}
      BY <3>3, <3>a, <3>b DEF Held
    <3>7. Held(order) \ {order[1]} \subseteq Held(s)
      <4> SUFFICES ASSUME NEW i \in 1..Len(order), i # 1
                   PROVE  \E j \in 1..Len(s) : order[i] = s[j]
        BY DEF Held
      <4>1. i - 1 \in 1..Len(s) /\ (i - 1) + 1 = i
        BY <1>4, <3>3
      <4> QED BY <3>3, <4>1
    <3>8. Len(s) + 1 <= CacheSize
      BY <1>4, <3>3
    <3>9. kept = s /\ evicted = {order[1]}
      BY <2>2, <3>2 DEF s
    <3> HIDE DEF kept, evicted
    <3> QED BY <3>3, <3>5, <3>6, <3>7, <3>8, <3>9 DEF Once
  <2> QED BY <2>1, <2>2
<1> HIDE DEF kept, evicted, full
<1>6. /\ rest \in Seq(Query) /\ Len(rest) <= Len(kept)
      /\ Once(rest) /\ Held(rest) = Held(kept) \ {q}
  BY <1>5, WithoutOne
<1> HIDE DEF rest
<1>7. KnowledgeCached'
  <2>1. /\ order' \in Seq(Query) /\ Len(order') = Len(rest) + 1 /\ Len(rest) \in Nat
        /\ \A i \in 1..Len(rest) : order'[i] = rest[i]
        /\ order'[Len(rest) + 1] = q
    BY <1>1, <1>2, <1>6, LenProperties
  <2>2. Len(order') <= CacheSize
    BY <1>5, <1>6, <2>1, LenProperties, KnowledgeAssumption
  <2>3. \A i \in 1..Len(rest) : rest[i] # q
    BY <1>6 DEF Held
  <2>4. Once(order)'
    BY <1>6, <2>1, <2>3 DEF Once
  <2>5. Held(order') = Held(rest) \union {q}
    <3>1. 1..Len(order') = 1..Len(rest) \union {Len(rest) + 1}
      BY <2>1
    <3> QED BY <2>1, <3>1 DEF Held
  <2>6. {p \in Query : cache'[p] # Knowledge!Absent}
            = ({p \in Query : cache[p] # Knowledge!Absent} \ evicted) \union {q}
    BY <1>1, <1>2
  <2>7. Held(order') = {p \in Query : cache'[p] # Knowledge!Absent}
    BY <1>4, <1>5, <1>6, <2>5, <2>6
  <2>8. cache' = [p \in Query |-> cache'[p]]
    BY <1>1
  <2> QED BY <2>1, <2>2, <2>4, <2>7, <2>8 DEF KnowledgeCached, Knowledge!Absent, Held
<1>8. KnowledgeRead'
  BY <1>1 DEF KnowledgeIInv, KnowledgeTyped, KnowledgeRead
<1>9. Knowledge!CacheIsFresh'
  <2> SUFFICES ASSUME \A w \in Writer : writer[w] = "idle", NEW p \in Query \ raced'
               PROVE  cache'[p] = Knowledge!Absent \/ cache'[p] = Knowledge!Served(db)
    BY <1>1 DEF Knowledge!CacheIsFresh, Knowledge!Absent, Knowledge!Served
  <2>1. CASE p = q
    <3>1. r \notin crossed
      BY <1>1, <2>1
    <3>2. result[r] = Knowledge!Served(db)
      BY <1>1, <3>1 DEF KnowledgeIInv, KnowledgeRead
    <3> QED BY <1>1, <2>1, <3>2
  <2>2. CASE p # q
    <3>1. p \notin raced
      BY <1>1, <2>2
    <3>2. cache[p] = Knowledge!Absent \/ cache[p] = Knowledge!Served(db)
      BY <3>1 DEF KnowledgeIInv, Knowledge!CacheIsFresh
    <3> QED BY <1>1, <2>2, <3>2
  <2> QED BY <2>1, <2>2
<1> QED BY <1>3, <1>7, <1>8, <1>9 DEF KnowledgeIInv

\* Every step of the readers and writers keeps it.
LEMMA KnowledgeInductive ==
    KnowledgeIInv /\ [Knowledge!Next]_(Knowledge!vars) => KnowledgeIInv'
<1> SUFFICES ASSUME KnowledgeIInv, [Knowledge!Next]_(Knowledge!vars) PROVE KnowledgeIInv'
  OBVIOUS
<1>1. ASSUME NEW r \in Reader, NEW q \in Query, Knowledge!Hit(r, q) PROVE KnowledgeIInv'
  <2>1. /\ UNCHANGED <<db, cache, order, reader, writer, crossed, raced>>
        /\ reader[r] = "idle"
        /\ asks' = [asks EXCEPT ![r] = q] /\ result' = [result EXCEPT ![r] = cache[q]]
    BY <1>1 DEF Knowledge!Hit
  <2> QED BY <2>1, KnowledgeOthersKeep DEF KnowledgeIInv, KnowledgeTyped
<1>2. ASSUME NEW r \in Reader, Knowledge!FindNothing(r) \/ Knowledge!AskDb(r)
      PROVE  KnowledgeIInv'
  <2>1. /\ UNCHANGED <<db, cache, order, asks, writer, crossed, raced>>
        /\ reader[r] = "asking"
        /\ \/ /\ reader' = [reader EXCEPT ![r] = "idle"]
              /\ result' = [result EXCEPT ![r] = {}]
           \/ /\ reader' = [reader EXCEPT ![r] = "storing"]
              /\ result' = [result EXCEPT ![r] = Knowledge!Served(db)]
    BY <1>2 DEF Knowledge!FindNothing, Knowledge!AskDb
  <2>2. /\ result' = [d \in Reader |-> result'[d]]
        /\ reader' = [d \in Reader |-> reader'[d]]
        /\ asks' = [d \in Reader |-> asks'[d]] /\ asks'[r] \in Query
        /\ \A d \in Reader \ {r} :
              reader'[d] = reader[d] /\ result'[d] = result[d] /\ asks'[d] = asks[d]
        /\ reader'[r] = "storing" => result'[r] = Knowledge!Served(db)
    BY <2>1 DEF KnowledgeIInv, KnowledgeTyped
  <2> QED BY <2>1, <2>2, KnowledgeOthersKeep
<1>3. ASSUME NEW w \in Writer, Knowledge!Upsert(w) PROVE KnowledgeIInv'
  <2>1. PICK c \in Chunk \ db : db' = db \union {c}
    BY <1>3 DEF Knowledge!Upsert
  <2>2. /\ UNCHANGED <<cache, order, reader, result, asks, crossed, raced>>
        /\ writer' = [writer EXCEPT ![w] = "stored"]
    BY <1>3 DEF Knowledge!Upsert
  <2>3. KnowledgeTyped'
    BY <2>1, <2>2 DEF KnowledgeIInv, KnowledgeTyped
  <2>4. ~ \A v \in Writer : writer'[v] = "idle"
    BY <2>2 DEF KnowledgeIInv, KnowledgeTyped
  <2>5. KnowledgeRead' /\ Knowledge!CacheIsFresh'
    BY <2>4 DEF KnowledgeRead, Knowledge!CacheIsFresh
  <2>6. KnowledgeCached'
    BY <2>2, KnowledgeCacheStays DEF KnowledgeIInv
  <2> QED BY <2>3, <2>5, <2>6 DEF KnowledgeIInv
<1>4. ASSUME NEW w \in Writer, Knowledge!Invalidate(w) PROVE KnowledgeIInv'
  <2>1. /\ cache' = [q \in Query |-> Knowledge!Absent] /\ order' = <<>> /\ raced' = {}
        /\ crossed' = {r \in Reader : reader[r] # "idle"}
        /\ writer' = [writer EXCEPT ![w] = "idle"]
        /\ UNCHANGED <<db, reader, result, asks>>
    BY <1>4 DEF Knowledge!Invalidate
  <2>2. KnowledgeTyped'
    BY <2>1 DEF KnowledgeIInv, KnowledgeTyped
  <2>3. KnowledgeCached'
    BY <2>1, KnowledgeAssumption DEF KnowledgeCached, Knowledge!Absent, Held, Once
  <2>4. KnowledgeRead' /\ Knowledge!CacheIsFresh'
    BY <2>1 DEF KnowledgeRead, Knowledge!CacheIsFresh, Knowledge!Absent
  <2> QED BY <2>2, <2>3, <2>4 DEF KnowledgeIInv
<1>5. CASE UNCHANGED Knowledge!vars
  <2>1. KnowledgeTyped'
    BY <1>5 DEF Knowledge!vars, KnowledgeIInv, KnowledgeTyped
  <2>2. KnowledgeCached'
    BY <1>5, KnowledgeCacheStays DEF Knowledge!vars, KnowledgeIInv
  <2>3. KnowledgeRead' /\ Knowledge!CacheIsFresh'
    BY <1>5 DEF Knowledge!vars, KnowledgeIInv, KnowledgeRead,
                Knowledge!CacheIsFresh, Knowledge!Served, Knowledge!Absent
  <2> QED BY <2>1, <2>2, <2>3 DEF KnowledgeIInv
<1> QED BY <1>1, <1>2, <1>3, <1>4, <1>5, KnowledgeMissKeeps, KnowledgeStoreKeeps
        DEF Knowledge!Next

\* The cache is bounded and fresh.
LEMMA KnowledgeKept == KnowledgeIInv => Knowledge!CacheBounded /\ Knowledge!CacheIsFresh
BY LenProperties DEF KnowledgeIInv, KnowledgeCached, Knowledge!CacheBounded, Held

(***************************************************************************)
(* The interpreter: the goals are the request's, all of it, for any words  *)
(* and separators, and requests of any length.                             *)
(***************************************************************************)

\* The interpreter: what a request and its hypotheses are.
IntentTyped ==
    /\ request \in Seq(Term \union Separator \union Forbidden)
    /\ hypotheses \in Seq(Interprets!Candidates \union {Interprets!Novel})
IntentIInv == IntentTyped /\ Interprets!MeantByRequest /\ Interprets!EveryPartIsAGoal

\* A bounded sequence is a sequence.
LEMMA BoundedIsSeq ==
    ASSUME NEW S, NEW n, NEW s \in Interprets!BoundedSeq(S, n) PROVE s \in Seq(S)
<1>1. PICK m \in 0..n : s \in [1..m -> S]
  BY Zenon DEF Interprets!BoundedSeq, Interprets!SeqOf
<1> QED BY <1>1, SeqDef

\* Nothing is interpreted.
LEMMA IntentInitially == Interprets!Init => IntentIInv
<1> SUFFICES ASSUME Interprets!Init PROVE IntentIInv
  OBVIOUS
<1>1. request \in Interprets!Texts /\ interpreting = "asked" /\ hypotheses = <<>>
  BY DEF Interprets!Init
<1>2. IntentTyped
  BY <1>1, BoundedIsSeq, EmptySeq DEF Interprets!Texts, IntentTyped
<1> QED BY <1>1, <1>2 DEF IntentIInv, Interprets!MeantByRequest, Interprets!EveryPartIsAGoal

\* What is kept of a completion is the beginning of it.
LEMMA IntentContained ==
    ASSUME NEW S, NEW hs \in Seq(S) PROVE Interprets!Contained(hs) \in Seq(S)
<1> DEFINE good == {n \in 0 .. Len(hs) :
                      n <= MAX_HYPOTHESES /\ Interprets!Ranked(SubSeq(hs, 1, n))}
           best == CHOOSE n \in good : \A m \in good : m <= n
<1>0. Len(hs) \in Nat
  BY LenProperties
<1>1. good # {}
  <2>1. SubSeq(hs, 1, 0) = <<>>
    BY SubSeqEmpty
  <2>2. Interprets!Ranked(<<>>)
    BY DEF Interprets!Ranked
  <2>3. 0 \in good
    <3>1. 0 \in 0..Len(hs) /\ 0 <= MAX_HYPOTHESES
      BY <1>0, IntentAssumption
    <3> QED BY <2>1, <2>2, <3>1
  <2> QED BY <2>3
<1>2. best \in good
  <2>1. good \subseteq 0..Len(hs)
    OBVIOUS
  <2> HIDE DEF good
  <2>2. \E n \in good : \A m \in good : m <= n
    BY <1>0, <1>1, <2>1, Greatest
  <2> QED BY <2>2
<1>3. Interprets!Contained(hs) = SubSeq(hs, 1, best)
  BY Zenon DEF Interprets!Contained
<1>4. best \in Int /\ 1 \in Int /\ \A i \in 1..best : hs[i] \in S
  <2>1. best \in 0..Len(hs)
    BY <1>2
  <2> HIDE DEF best
  <2> QED BY <1>0, <2>1, ElementOfSeq
<1> HIDE DEF best
<1> QED BY <1>3, <1>4, SubSeqProperties

\* Of the hypotheses that are eligible the first of the best is selected.
LEMMA IntentSelects ==
    ASSUME IntentTyped, NEW chosen, chosen = Interprets!select_hypothesis(hypotheses)
    PROVE  /\ chosen = Interprets!Novel \/ chosen.label \intersect Interprets!ToSet(request) # {}
           /\ \A h \in Interprets!ToSet(hypotheses) :
                h.source = Interprets!FromRequest
                  /\ h.label \intersect Interprets!ToSet(request) # {} => h.score <= chosen.score
<1> DEFINE eligible == {i \in DOMAIN hypotheses : Interprets!Eligible(hypotheses[i])}
           Best(i) == \A j \in eligible :
             /\ hypotheses[j].score <= hypotheses[i].score
             /\ j < i => hypotheses[j].score < hypotheses[i].score
<1>1. chosen = IF eligible = {} THEN Interprets!Novel
               ELSE hypotheses[CHOOSE i \in eligible : Best(i)]
  BY Zenon DEF Interprets!select_hypothesis
<1>2. \A h : Interprets!Eligible(h) <=>
          h.source = Interprets!FromRequest
            /\ h.label \intersect Interprets!ToSet(request) # {}
  BY DEF Interprets!Eligible, Interprets!SourceVerified, Interprets!ContentGrounded,
         Interprets!FromRequest
<1>3. \A h \in Interprets!ToSet(hypotheses) :
         Interprets!Eligible(h) => \E i \in eligible : h = hypotheses[i]
  BY DEF Interprets!ToSet
<1>4. CASE eligible = {}
  BY <1>1, <1>2, <1>3, <1>4
<1>5. CASE eligible # {}
  <2>1. \E i \in eligible : Best(i)
    <3>1. \A i \in eligible : i \in 1..Len(hypotheses) /\ i \in Nat
      BY LenProperties DEF IntentTyped
    <3>2. \A i \in eligible : hypotheses[i].score \in 0..100
      <4>1. \A i \in eligible : hypotheses[i] \in Interprets!Candidates \union {Interprets!Novel}
        BY <3>1, ElementOfSeq DEF IntentTyped
      <4>2. \A h \in Interprets!Candidates : h.score \in Scores
        BY DEF Interprets!Candidates
      <4>3. Interprets!Novel.score = 10
        BY DEF Interprets!Novel
      <4>4. 10 \in 0..100
        OBVIOUS
      <4> SUFFICES ASSUME NEW i \in eligible PROVE hypotheses[i].score \in 0..100
        OBVIOUS
      <4> DEFINE h == hypotheses[i]
      <4>5. h \in Interprets!Candidates \/ h = Interprets!Novel
        BY <4>1
      <4> HIDE DEF h
      <4>6. h.score \in 0..100
        BY <4>2, <4>3, <4>4, <4>5, IntentAssumption
      <4> QED BY <4>6 DEF h
    <3> HIDE DEF eligible
    <3> DEFINE scores == {hypotheses[i].score : i \in eligible}
    <3>3. scores \subseteq 0..100 /\ scores # {}
      BY <1>5, <3>2
    <3>4. PICK top \in scores : \A s \in scores : s <= top
      <4> HIDE DEF scores
      <4> QED BY <3>3, Greatest
    <3> DEFINE tops == {i \in eligible : hypotheses[i].score = top}
    <3>5. tops \subseteq Nat /\ tops # {}
      BY <3>1, <3>4
    <3>6. PICK i \in tops : \A j \in tops : i <= j
      <4> HIDE DEF tops
      <4> QED BY <3>5, Least
    <3>7. Best(i)
      <4> SUFFICES ASSUME NEW j \in eligible
                   PROVE  /\ hypotheses[j].score <= hypotheses[i].score
                          /\ j < i => hypotheses[j].score < hypotheses[i].score
        OBVIOUS
      <4>1. hypotheses[j].score <= top /\ hypotheses[i].score = top
        BY <3>4, <3>6
      <4>2. hypotheses[j].score = top => i <= j
        BY <3>6
      <4>3. j \in Nat /\ i \in Nat /\ hypotheses[j].score \in Nat /\ top \in Nat
        <5>1. i \in eligible /\ top \in 0..100
          BY <3>3, <3>4, <3>6
        <5> HIDE DEF eligible, scores, tops
        <5>2. j \in Nat /\ i \in Nat
          BY <3>1, <5>1
        <5>3. hypotheses[j].score \in 0..100
          BY <3>2
        <5>4. \A k \in 0..100 : k \in Nat
          OBVIOUS
        <5> QED BY <5>1, <5>2, <5>3, <5>4, Zenon
      <4>4. hypotheses[j].score = top \/ hypotheses[j].score < top
        BY <4>1, <4>3
      <4>5. j < i => hypotheses[j].score # top
        BY <4>2, <4>3
      <4> HIDE DEF eligible, scores, tops
      <4> QED BY <4>1, <4>4, <4>5
    <3> QED BY <3>6, <3>7
  <2>2. PICK i \in eligible : Best(i) /\ chosen = hypotheses[i]
    <3> HIDE DEF eligible, Best
    <3> QED BY <1>1, <1>5, <2>1
  <2> QED BY <1>2, <1>3, <2>2
<1> QED BY <1>4, <1>5

\* A run of words that begins where a separator is before it has an end.
LEMMA IntentEnds ==
    ASSUME NEW S, NEW t \in Seq(S), NEW i \in Interprets!Starts(t)
    PROVE  /\ Interprets!End(t, i) \in i..Len(t)
           /\ Interprets!Unbroken(t, i, Interprets!End(t, i))
           /\ Interprets!End(t, i) = Len(t) \/ t[Interprets!End(t, i) + 1] \in Separator
<1> DEFINE runs == {j \in i..Len(t) : Interprets!Unbroken(t, i, j)}
<1>0. Len(t) \in Nat /\ i \in 1..Len(t) /\ t[i] \notin Separator
  BY LenProperties DEF Interprets!Starts
<1>1. PICK j \in runs : \A k \in runs : k <= j
  <2>1. i \in runs
    BY <1>0 DEF Interprets!Unbroken
  <2>2. runs \subseteq 0..Len(t) /\ runs # {}
    BY <1>0, <2>1
  <2> HIDE DEF runs
  <2> QED BY <1>0, <2>2, Greatest
<1>2. j = Len(t) \/ t[j + 1] \in Separator
  <2> SUFFICES ASSUME j # Len(t), t[j + 1] \notin Separator PROVE FALSE
    OBVIOUS
  <2>1. j + 1 \in i..Len(t) /\ \A k \in i..(j + 1) : k \in i..j \/ k = j + 1
    BY <1>0
  <2>2. j + 1 \in runs
    BY <2>1 DEF Interprets!Unbroken
  <2> QED BY <1>0, <1>1, <2>2
<1> QED BY <1>2 DEF Interprets!End

\* Each word between separators is in the run that begins before it.
LEMMA IntentParts ==
    ASSUME NEW S, NEW t \in Seq(S), NEW n \in DOMAIN t, t[n] \notin Separator
    PROVE  \E i \in Interprets!Starts(t) : n \in i..Interprets!End(t, i)
<1> DEFINE from == {k \in 1..n : Interprets!Unbroken(t, k, n)}
<1>0. Len(t) \in Nat /\ n \in 1..Len(t) /\ DOMAIN t = 1..Len(t)
  BY LenProperties
<1>1. PICK i \in from : \A k \in from : i <= k
  <2>1. n \in from
    BY <1>0 DEF Interprets!Unbroken
  <2>2. from \subseteq Nat /\ from # {}
    BY <2>1
  <2> HIDE DEF from
  <2> QED BY <2>2, Least
<1>2. i = 1 \/ t[i - 1] \in Separator
  <2> SUFFICES ASSUME i # 1, t[i - 1] \notin Separator PROVE FALSE
    OBVIOUS
  <2>1. i - 1 \in 1..n /\ \A k \in (i - 1)..n : k \in i..n \/ k = i - 1
    BY <1>0
  <2>2. i - 1 \in from
    BY <2>1 DEF Interprets!Unbroken
  <2> QED BY <1>0, <1>1, <2>2
<1>3. i \in Interprets!Starts(t)
  <2>1. i \in i..n /\ i \in 1..Len(t)
    BY <1>0
  <2> QED BY <1>0, <1>2, <2>1 DEF Interprets!Starts, Interprets!Unbroken
<1>a. i \in 1..n /\ Interprets!Unbroken(t, i, n)
  OBVIOUS
<1>4. n <= Interprets!End(t, i)
  <2> DEFINE e == Interprets!End(t, i)
  <2>1. e \in i..Len(t) /\ (e = Len(t) \/ t[e + 1] \in Separator)
    BY <1>3, IntentEnds
  <2> HIDE DEF e
  <2> SUFFICES ASSUME ~(n <= e) PROVE FALSE
    BY DEF e
  <2>2. e + 1 \in i..n /\ e # Len(t)
    <3>1. \A l \in Nat : \A b \in 1..l : \A a \in 1..b : \A c \in a..l :
            ~(b <= c) => c + 1 \in a..b /\ c # l
      OBVIOUS
    <3> HIDE DEF from
    <3> QED BY <1>0, <1>a, <2>1, <3>1
  <2> QED BY <1>a, <2>1, <2>2 DEF Interprets!Unbroken
<1>5. Interprets!End(t, i) \in i..Len(t)
  BY <1>3, IntentEnds
<1> QED BY <1>0, <1>3, <1>4, <1>5

\* The words of a part are those from its beginning to its end.
LEMMA IntentPart ==
    ASSUME NEW S, NEW t \in Seq(S), NEW i \in 1..Len(t), NEW j \in i..Len(t)
    PROVE  Interprets!ToSet(SubSeq(t, i, j)) = {t[k] : k \in i..j}
<1>0. Len(t) \in Nat
  BY LenProperties
<1> DEFINE s == SubSeq(t, i, j)
<1>1. /\ s \in Seq(S) /\ Len(s) = j - i + 1
      /\ \A k \in 1..(j - i + 1) : s[k] = t[i + k - 1]
  <2>1. \A k \in i..j : t[k] \in S
    BY <1>0, ElementOfSeq
  <2>2. i \in Int /\ j \in Int /\ i <= j
    BY <1>0
  <2> QED BY <2>1, <2>2, SubSeqProperties
<1> HIDE DEF s
<1>2. DOMAIN s = 1..(j - i + 1)
  BY <1>1, LenProperties
<1>3. \A k \in i..j : (k - i + 1) \in 1..(j - i + 1) /\ i + (k - i + 1) - 1 = k
  BY <1>0
<1>4. \A k \in 1..(j - i + 1) : i + k - 1 \in i..j
  BY <1>0
<1>5. {t[k] : k \in i..j} \subseteq Interprets!ToSet(s)
  <2> SUFFICES ASSUME NEW k \in i..j PROVE \E l \in DOMAIN s : s[l] = t[k]
    BY DEF Interprets!ToSet
  <2> QED BY <1>1, <1>2, <1>3
<1>6. Interprets!ToSet(s) \subseteq {t[k] : k \in i..j}
  BY <1>1, <1>2, <1>4 DEF Interprets!ToSet
<1> QED BY <1>5, <1>6 DEF s

\* The goals that are formed hold every word and mix no parts.
LEMMA IntentGoals ==
    ASSUME IntentTyped, NEW formed,
           formed = Interprets!form_goals(request, hypotheses, selected)
    PROVE  /\ Interprets!ToSet(request) \ Separator
                \subseteq UNION {Interprets!ToSet(formed[n].description) : n \in DOMAIN formed}
           /\ \A n \in DOMAIN formed : formed[n].siblings # {}
                => Interprets!ToSet(formed[n].description) \intersect Separator = {}
<1> DEFINE parts == Interprets!split_compound_goals(request)
           starts == Interprets!Starts(request)
<1>1. DOMAIN formed = DOMAIN parts
      /\ \A n \in DOMAIN parts :
           formed[n].description = parts[n] /\ formed[n].siblings = DOMAIN parts \ {n}
  BY DEF Interprets!form_goals
<1> HIDE DEF parts
<1>2. CASE \E i, j \in starts : i # j
  <2>1. parts = [i \in starts |-> SubSeq(request, i, Interprets!End(request, i))]
    BY <1>2 DEF parts, Interprets!split_compound_goals
  <2>2. \A i \in starts : i \in 1..Len(request)
    BY LenProperties DEF Interprets!Starts, IntentTyped
  <2>3. \A i \in starts : Interprets!ToSet(parts[i])
                            = {request[k] : k \in i..Interprets!End(request, i)}
    BY <2>1, <2>2, IntentEnds, IntentPart DEF IntentTyped
  <2>4. \A i \in starts : Interprets!ToSet(parts[i]) \intersect Separator = {}
    <3> SUFFICES ASSUME NEW i \in starts, NEW k \in i..Interprets!End(request, i)
                 PROVE  request[k] \notin Separator
      BY <2>3
    <3>1. Interprets!Unbroken(request, i, Interprets!End(request, i))
      BY IntentEnds DEF IntentTyped
    <3> QED BY <3>1 DEF Interprets!Unbroken
  <2>5. ASSUME NEW w \in Interprets!ToSet(request) \ Separator
        PROVE  \E i \in starts : w \in Interprets!ToSet(parts[i])
    <3>1. PICK n \in DOMAIN request : w = request[n]
      BY DEF Interprets!ToSet
    <3>2. PICK i \in starts : n \in i..Interprets!End(request, i)
      BY <3>1, IntentParts DEF IntentTyped
    <3> QED BY <2>3, <3>1, <3>2
  <2>6. DOMAIN parts = starts
    BY <2>1
  <2> QED BY <1>1, <2>4, <2>5, <2>6
<1>3. CASE ~ \E i, j \in starts : i # j
  <2>1. parts = [i \in {1} |-> request]
    BY <1>3, Zenon DEF parts, Interprets!split_compound_goals
  <2> QED BY <1>1, <2>1
<1> QED BY <1>2, <1>3

\* Every step from the request to its goals keeps it.
LEMMA IntentInductive == IntentIInv /\ [Interprets!Next]_(Interprets!vars) => IntentIInv'
<1> SUFFICES ASSUME IntentIInv, [Interprets!Next]_(Interprets!vars) PROVE IntentIInv'
  OBVIOUS
<1>1. ASSUME IntentTyped', interpreting' \notin {"interpreted", "formed"} PROVE IntentIInv'
  BY <1>1 DEF IntentIInv, Interprets!MeantByRequest, Interprets!EveryPartIsAGoal
<1>2. CASE Interprets!normalize_request
  BY <1>1, <1>2 DEF Interprets!normalize_request, IntentIInv, IntentTyped
<1>3. CASE Interprets!Assemble
  BY <1>1, <1>3 DEF Interprets!Assemble, IntentIInv, IntentTyped, Interprets!Novel,
                    Interprets!Candidates, Interprets!Uncited
<1>4. CASE Interprets!Complete
  <2>1. PICK completion \in Interprets!BoundedSeq(Interprets!Candidates, MaxCandidates) :
          hypotheses' = IF completion = <<>> THEN <<Interprets!Novel>>
                        ELSE Interprets!Contained(completion)
    BY <1>4 DEF Interprets!Complete
  <2> DEFINE S == Interprets!Candidates \union {Interprets!Novel}
  <2>2. completion \in Seq(S)
    BY BoundedIsSeq, SeqMonotonic
  <2>3. hypotheses' \in Seq(S)
    <3> HIDE DEF S
    <3>1. Interprets!Novel \in S
      BY DEF S
    <3> QED BY <2>1, <2>2, <3>1, IntentContained
  <2> QED BY <1>1, <1>4, <2>3 DEF Interprets!Complete, IntentIInv, IntentTyped
<1>5. CASE Interprets!Interpret
  <2>1. /\ selected' = Interprets!select_hypothesis(hypotheses)
        /\ interpreting' = "interpreted" /\ UNCHANGED <<request, blocks, hypotheses, goals>>
    BY <1>5 DEF Interprets!Interpret
  <2>2. Interprets!MeantByRequest'
    <3>1. selected' = Interprets!Novel
            \/ selected'.label \intersect Interprets!ToSet(request) # {}
      BY <2>1, IntentSelects DEF IntentIInv
    <3>2. \A h \in Interprets!ToSet(hypotheses) :
                h.source = Interprets!FromRequest
                  /\ h.label \intersect Interprets!ToSet(request) # {}
                => h.score <= selected'.score
      BY <2>1, IntentSelects DEF IntentIInv
    <3> QED BY <2>1, <3>1, <3>2 DEF Interprets!MeantByRequest, Interprets!ToSet,
               Interprets!Novel, Interprets!FromRequest, Interprets!Uncited
  <2> QED BY <2>1, <2>2 DEF IntentIInv, IntentTyped, Interprets!EveryPartIsAGoal,
             Interprets!Novel, Interprets!Candidates, Interprets!Uncited
<1>6. CASE Interprets!FormGoals
  <2>1. /\ goals' = Interprets!form_goals(request, hypotheses, selected)
        /\ interpreting = "interpreted" /\ interpreting' = "formed"
        /\ UNCHANGED <<request, blocks, hypotheses, selected>>
    BY <1>6 DEF Interprets!FormGoals
  <2>2. Interprets!EveryPartIsAGoal'
    <3>1. /\ Interprets!ToSet(request) \ Separator
                \subseteq UNION {Interprets!ToSet(goals'[n].description) : n \in DOMAIN goals'}
           /\ \A n \in DOMAIN goals' : goals'[n].siblings # {}
                => Interprets!ToSet(goals'[n].description) \intersect Separator = {}
      BY <2>1, IntentGoals DEF IntentIInv
    <3> QED BY <2>1, <3>1 DEF Interprets!EveryPartIsAGoal, Interprets!ToSet
  <2>3. Interprets!MeantByRequest'
    BY <2>1 DEF IntentIInv, Interprets!MeantByRequest, Interprets!ToSet,
               Interprets!Novel, Interprets!FromRequest, Interprets!Uncited
  <2> QED BY <2>1, <2>2, <2>3 DEF IntentIInv, IntentTyped,
             Interprets!Novel, Interprets!Candidates, Interprets!Uncited
<1>7. CASE Interprets!Fail
  BY <1>1, <1>7 DEF Interprets!Fail, IntentIInv, IntentTyped, Interprets!Novel,
                    Interprets!Candidates, Interprets!Uncited
<1>8. CASE UNCHANGED Interprets!vars
  <2>1. UNCHANGED <<interpreting, request, blocks, hypotheses, selected, goals>>
    BY <1>8 DEF Interprets!vars
  <2>2. Interprets!MeantByRequest'
    BY <2>1 DEF IntentIInv, Interprets!MeantByRequest, Interprets!ToSet,
               Interprets!Novel, Interprets!FromRequest, Interprets!Uncited
  <2>3. Interprets!EveryPartIsAGoal'
    BY <2>1 DEF IntentIInv, Interprets!EveryPartIsAGoal, Interprets!ToSet
  <2> QED BY <2>1, <2>2, <2>3 DEF IntentIInv, IntentTyped,
             Interprets!Novel, Interprets!Candidates, Interprets!Uncited
<1> QED BY <1>2, <1>3, <1>4, <1>5, <1>6, <1>7, <1>8 DEF Interprets!Next

(***************************************************************************)
(* The planner: what contradicts itself is not planned, and what is        *)
(* compiled is fit for its steps, for any words, windows and registry.     *)
(***************************************************************************)

\* A short sequence is a sequence.
LEMMA PlanBounded ==
    ASSUME NEW S, NEW n, NEW s \in Plans!BoundedSeq(S, n) PROVE s \in Seq(S)
<1>1. PICK m \in 0..n : s \in [1..m -> S]
  BY Zenon DEF Plans!BoundedSeq, Plans!SeqOf
<1> QED BY <1>1, SeqDef

\* What a score is, in hundredths.
LEMMA PlanScores ==
    ASSUME NEW a \in Nat, NEW b \in Nat, b > 0
    PROVE  /\ (100 * a) \div b \in Nat
           /\ a <= b => (100 * a) \div b <= 100
           /\ (100 * a) \div b >= 50 => 2 * a >= b
           /\ ~((100 * a) \div b >= 1) => 100 * a < b
<1> DEFINE q == (100 * a) \div b
<1>1. q \in Nat /\ b * q <= 100 * a /\ (~(q >= 1) => 100 * a < b)
  OBVIOUS
<1> HIDE DEF q
<1>2. ASSUME q >= 50 PROVE 2 * a >= b
  <2>1. PICK r \in Nat : q = 50 + r
    <3>1. q - 50 \in Nat /\ q = 50 + (q - 50)
      BY <1>1, <1>2
    <3> QED BY <3>1
  <2>2. b * q = b * 50 + b * r /\ b * r >= 0
    BY <2>1
  <2> QED BY <1>1, <2>2
<1>3. ASSUME a <= b PROVE q <= 100
  <2> SUFFICES ASSUME q > 100 PROVE FALSE
    BY <1>1
  <2>1. PICK r \in Nat : q = 101 + r
    <3>1. q - 101 \in Nat /\ q = 101 + (q - 101)
      BY <1>1
    <3> QED BY <3>1
  <2>2. b * q = b * 101 + b * r /\ b * r >= 0
    BY <2>1
  <2> QED BY <1>1, <1>3, <2>2
<1> QED BY <1>1, <1>2, <1>3 DEF q

\* What a stretch of a text holds.
LEMMA PlanPart ==
    ASSUME NEW S, NEW t \in Seq(S), NEW i \in 1..Len(t), NEW j \in i..Len(t)
    PROVE  Plans!ToSet(SubSeq(t, i, j)) = {t[k] : k \in i..j}
<1>0. Len(t) \in Nat
  BY LenProperties
<1> DEFINE s == SubSeq(t, i, j)
<1>1. /\ s \in Seq(S) /\ Len(s) = j - i + 1
      /\ \A k \in 1..(j - i + 1) : s[k] = t[i + k - 1]
  <2>1. \A k \in i..j : t[k] \in S
    BY <1>0, ElementOfSeq
  <2>2. i \in Int /\ j \in Int /\ i <= j
    BY <1>0
  <2> QED BY <2>1, <2>2, SubSeqProperties
<1> HIDE DEF s
<1>2. DOMAIN s = 1..(j - i + 1)
  BY <1>1, LenProperties
<1>3. \A k \in i..j : (k - i + 1) \in 1..(j - i + 1) /\ i + (k - i + 1) - 1 = k
  BY <1>0
<1>4. \A k \in 1..(j - i + 1) : i + k - 1 \in i..j
  BY <1>0
<1>5. {t[k] : k \in i..j} \subseteq Plans!ToSet(s)
  <2> SUFFICES ASSUME NEW k \in i..j PROVE \E l \in DOMAIN s : s[l] = t[k]
    BY DEF Plans!ToSet
  <2> QED BY <1>1, <1>2, <1>3
<1>6. Plans!ToSet(s) \subseteq {t[k] : k \in i..j}
  BY <1>1, <1>2, <1>4 DEF Plans!ToSet
<1> QED BY <1>5, <1>6 DEF s

\* The two stretches that are matched by one word, and by two.
LEMMA PlanStretch ==
    ASSUME NEW S, NEW t \in Seq(S), NEW i \in 1..Len(t)
    PROVE  /\ SubSeq(t, i, i) = <<t[i]>>
           /\ i + 1 <= Len(t) => SubSeq(t, i, i + 1) = <<t[i], t[i + 1]>>
<1>0. Len(t) \in Nat /\ i \in Int /\ \A k \in 1..Len(t) : t[k] \in S
  BY LenProperties, ElementOfSeq
<1>1. SubSeq(t, i, i) = <<t[i]>>
  <2> DEFINE s == SubSeq(t, i, i)
  <2>1. \A k \in i..i : t[k] \in S
    BY <1>0
  <2>2. /\ s \in Seq(S) /\ Len(s) = (IF i <= i THEN i - i + 1 ELSE 0)
        /\ \A k \in 1..(i - i + 1) : s[k] = t[i + k - 1]
    BY <1>0, <2>1, SubSeqProperties
  <2>3. Len(s) = 1 /\ s[1] = t[i]
    BY <1>0, <2>2
  <2>4. <<t[i]>> \in Seq(S) /\ Len(<<t[i]>>) = 1 /\ <<t[i]>>[1] = t[i]
    BY <1>0
  <2> HIDE DEF s
  <2>5. s = <<t[i]>>
    BY <2>2, <2>3, <2>4, SeqEqual
  <2> QED BY <2>5 DEF s
<1>2. ASSUME i + 1 <= Len(t) PROVE SubSeq(t, i, i + 1) = <<t[i], t[i + 1]>>
  <2> DEFINE s == SubSeq(t, i, i + 1)
             u == <<t[i], t[i + 1]>>
  <2>1. \A k \in i..(i + 1) : t[k] \in S
    BY <1>0, <1>2
  <2>2. /\ s \in Seq(S) /\ Len(s) = (IF i <= i + 1 THEN i + 1 - i + 1 ELSE 0)
        /\ \A k \in 1..(i + 1 - i + 1) : s[k] = t[i + k - 1]
    BY <1>0, <2>1, SubSeqProperties
  <2>3. Len(s) = 2 /\ s[1] = t[i] /\ s[2] = t[i + 1]
    BY <1>0, <2>2
  <2>4. u \in Seq(S) /\ Len(u) = 2 /\ u[1] = t[i] /\ u[2] = t[i + 1]
    BY <1>0, <1>2
  <2>5. \A k \in 1..2 : k = 1 \/ k = 2
    OBVIOUS
  <2> HIDE DEF s, u
  <2>6. \A k \in 1..Len(s) : s[k] = u[k]
    BY <2>3, <2>4, <2>5
  <2>7. s = u
    BY <2>2, <2>3, <2>4, <2>6, SeqEqual
  <2> QED BY <2>7 DEF s, u
<1> QED BY <1>1, <1>2

\* What each pattern matches that a contradiction is made of.
PlanNegation(i) == [type |-> "negation", hard |-> TRUE, from |-> i, to |-> i + 1]
PlanRequirement(i) == [type |-> "requirement", hard |-> TRUE, from |-> i, to |-> i]
PlanMustNot(t, i) == i + 1 <= Len(t) /\ t[i] = "must" /\ t[i + 1] = "not"
LEMMA PlanMatch ==
    ASSUME NEW t \in Seq(PlanWord \union Marker)
    PROVE  /\ \A m \in Plans!Matches(t, Plans!Patterns[1]) :
                m.type = "word_count" /\ m.from \in DOMAIN t /\ m.to = m.from /\ t[m.from] = "count"
           /\ Plans!Matches(t, Plans!Patterns[2]) =
                {PlanNegation(i) : i \in {i \in DOMAIN t : PlanMustNot(t, i)}}
           /\ Plans!Matches(t, Plans!Patterns[3]) =
                {PlanRequirement(i) : i \in {i \in DOMAIN t : t[i] = "must"}}
           /\ \A k \in 4..7 : \A m \in Plans!Matches(t, Plans!Patterns[k]) :
                m.type \notin {"requirement", "negation"}
<1>0. /\ Len(t) \in Nat /\ DOMAIN t = 1..Len(t)
      /\ \A i \in DOMAIN t : i + 1 - 1 = i /\ i + 2 - 1 = i + 1 /\ i <= Len(t)
  BY LenProperties
<1>1. /\ Plans!Patterns[1] = [type |-> "word_count", hard |-> TRUE, match |-> <<"count">>]
      /\ Plans!Patterns[2] = [type |-> "negation", hard |-> TRUE, match |-> <<"must", "not">>]
      /\ Plans!Patterns[3] = [type |-> "requirement", hard |-> TRUE, match |-> <<"must">>]
      /\ \A k \in 4..7 : Plans!Patterns[k].type \notin {"requirement", "negation"}
  BY DEF Plans!Patterns
<1>2. ASSUME NEW p, NEW w, p.match = <<w>>
      PROVE  Plans!Matches(t, p) = {[type |-> p.type, hard |-> p.hard, from |-> i, to |-> i] :
                                      i \in {i \in DOMAIN t : t[i] = w}}
  <2>1. Len(p.match) = 1
    BY <1>2
  <2>2. \A i \in DOMAIN t :
            (/\ i + Len(p.match) - 1 <= Len(t)
             /\ SubSeq(t, i, i + Len(p.match) - 1) = p.match) <=> t[i] = w
    BY <1>0, <1>2, <2>1, PlanStretch
  <2> QED BY <1>0, <2>1, <2>2 DEF Plans!Matches
<1>3. ASSUME NEW p, p.match = <<"must", "not">>
      PROVE  Plans!Matches(t, p) = {[type |-> p.type, hard |-> p.hard, from |-> i, to |-> i + 1] :
                                      i \in {i \in DOMAIN t : PlanMustNot(t, i)}}
  <2>1. Len(p.match) = 2
    BY <1>3
  <2>2. \A i \in DOMAIN t :
            (/\ i + Len(p.match) - 1 <= Len(t)
             /\ SubSeq(t, i, i + Len(p.match) - 1) = p.match) <=> PlanMustNot(t, i)
    BY <1>0, <1>3, <2>1, PlanStretch DEF PlanMustNot
  <2> QED BY <1>0, <2>1, <2>2 DEF Plans!Matches
<1>4. \A p : \A m \in Plans!Matches(t, p) : m.type = p.type
  BY DEF Plans!Matches
<1>5. \A m \in Plans!Matches(t, Plans!Patterns[1]) :
        m.type = "word_count" /\ m.from \in DOMAIN t /\ m.to = m.from /\ t[m.from] = "count"
  BY <1>1, <1>2
<1>6. Plans!Matches(t, Plans!Patterns[2]) =
                {PlanNegation(i) : i \in {i \in DOMAIN t : PlanMustNot(t, i)}}
  <2> DEFINE p == Plans!Patterns[2]
  <2>1. p.match = <<"must", "not">> /\ p.type = "negation" /\ p.hard = TRUE
    BY <1>1
  <2> HIDE DEF p
  <2>2. Plans!Matches(t, p) = {[type |-> p.type, hard |-> p.hard, from |-> i, to |-> i + 1] :
           i \in {i \in DOMAIN t : PlanMustNot(t, i)}}
    BY <1>3, <2>1, Zenon
  <2> QED BY <2>1, <2>2 DEF p, PlanNegation
<1>7. Plans!Matches(t, Plans!Patterns[3]) =
                {PlanRequirement(i) : i \in {i \in DOMAIN t : t[i] = "must"}}
  <2> DEFINE p == Plans!Patterns[3]
  <2>1. p.match = <<"must">> /\ p.type = "requirement" /\ p.hard = TRUE
    BY <1>1
  <2> HIDE DEF p
  <2>2. Plans!Matches(t, p) = {[type |-> p.type, hard |-> p.hard, from |-> i, to |-> i] :
           i \in {i \in DOMAIN t : t[i] = "must"}}
    BY <1>2, <2>1, Zenon
  <2> QED BY <2>1, <2>2 DEF p, PlanRequirement
<1>8. \A k \in 4..7 : \A m \in Plans!Matches(t, Plans!Patterns[k]) :
                m.type \notin {"requirement", "negation"}
  BY <1>1, <1>4
<1> QED BY <1>5, <1>6, <1>7, <1>8

\* What is found is a "must" that is no "must not", and a "must not"; and each is found.
LEMMA PlanFound ==
    ASSUME NEW t \in Seq(PlanWord \union Marker)
    PROVE  /\ \A i \in DOMAIN t : PlanMustNot(t, i) => PlanNegation(i) \in Plans!Explicit(t)
           /\ \A i \in DOMAIN t :
                t[i] = "must" /\ ~PlanMustNot(t, i) => PlanRequirement(i) \in Plans!Explicit(t)
           /\ \A m \in Plans!Explicit(t) : m.type = "negation" =>
                \E i \in DOMAIN t : PlanMustNot(t, i) /\ m = PlanNegation(i)
           /\ \A m \in Plans!Explicit(t) : m.type = "requirement" =>
                \E i \in DOMAIN t :
                   t[i] = "must" /\ ~PlanMustNot(t, i) /\ m = PlanRequirement(i)
<1> DEFINE M(k) == Plans!Matches(t, Plans!Patterns[k])
           More(f, k) == f \union {m \in M(k) : \A g \in f : ~Plans!Overlap(g, m)}
           P(f) == [n \in 0..Len(Plans!Patterns) |->
                      IF n = 0 THEN {} ELSE
                      f[n - 1] \union {m \in Plans!Matches(t, Plans!Patterns[n]) :
                                        \A g \in f[n - 1] : ~Plans!Overlap(g, m)}]
           found == CHOOSE f : f = P(f)
<1>1. Len(Plans!Patterns) = 7
  BY DEF Plans!Patterns
<1>2. Plans!Explicit(t) = found[7]
  BY <1>1 DEF Plans!Explicit
<1>3. \E f : f = P(f)
  <2> DEFINE F1 == More({}, 1)
             F2 == More(F1, 2)
             F3 == More(F2, 3)
             F4 == More(F3, 4)
             F5 == More(F4, 5)
             F6 == More(F5, 6)
             F7 == More(F6, 7)
             G == [n \in 0..7 |->
                     IF n = 0 THEN {} ELSE IF n = 1 THEN F1 ELSE IF n = 2 THEN F2
                     ELSE IF n = 3 THEN F3 ELSE IF n = 4 THEN F4 ELSE IF n = 5 THEN F5
                     ELSE IF n = 6 THEN F6 ELSE F7]
  <2>1. F1 = More({}, 1) /\ F2 = More(F1, 2) /\ F3 = More(F2, 3) /\ F4 = More(F3, 4)
        /\ F5 = More(F4, 5) /\ F6 = More(F5, 6) /\ F7 = More(F6, 7)
    OBVIOUS
  <2> HIDE DEF F1, F2, F3, F4, F5, F6, F7, More
  <2>2. /\ G[0] = {} /\ G[1] = F1 /\ G[2] = F2 /\ G[3] = F3 /\ G[4] = F4 /\ G[5] = F5
        /\ G[6] = F6 /\ G[7] = F7 /\ DOMAIN G = 0..7 /\ G = [n \in 0..7 |-> G[n]]
    OBVIOUS
  <2> HIDE DEF G
  <2>3. \A n \in 0..7 : n = 0 \/ n = 1 \/ n = 2 \/ n = 3 \/ n = 4 \/ n = 5 \/ n = 6 \/ n = 7
    OBVIOUS
  <2>4. \A n \in 0..7 : G[n] = IF n = 0 THEN {} ELSE More(G[n - 1], n)
    <3>1. /\ 1 - 1 = 0 /\ 2 - 1 = 1 /\ 3 - 1 = 2 /\ 4 - 1 = 3 /\ 5 - 1 = 4 /\ 6 - 1 = 5
          /\ 7 - 1 = 6
      OBVIOUS
    <3> SUFFICES ASSUME NEW n \in 0..7 PROVE G[n] = IF n = 0 THEN {} ELSE More(G[n - 1], n)
      OBVIOUS
    <3>2. CASE n \in {0, 1, 2, 3}
      BY <2>1, <2>2, <3>1, <3>2
    <3>3. CASE n \in {4, 5, 6, 7}
      BY <2>1, <2>2, <3>1, <3>3
    <3> QED BY <2>3, <3>2, <3>3
  <2>5. P(G) = [n \in 0..7 |-> IF n = 0 THEN {} ELSE More(G[n - 1], n)]
    BY <1>1 DEF More
  <2>6. G = P(G)
    <3> HIDE DEF P
    <3> QED BY <2>2, <2>4, <2>5
  <2> QED BY <2>6, Zenon
<1>4. found = P(found)
  <2> HIDE DEF P
  <2> QED BY <1>3, Zenon
<1> HIDE DEF found
<1>5. \A n \in 1..7 : found[n] = More(found[n - 1], n)
  <2>1. \A n \in 0..7 : P(found)[n] = IF n = 0 THEN {} ELSE More(found[n - 1], n)
    BY <1>1
  <2> HIDE DEF P, More
  <2>2. \A n \in 1..7 : n \in 0..7 /\ n # 0
    OBVIOUS
  <2> QED BY <1>4, <2>1, <2>2, Zenon
<1>6. found[0] = {}
  <2>1. P(found)[0] = {}
    BY <1>1
  <2> HIDE DEF P
  <2> QED BY <1>4, <2>1, Zenon
<1> HIDE DEF P
<1>7. /\ found[1] = More({}, 1) /\ found[2] = More(found[1], 2)
      /\ found[3] = More(found[2], 3) /\ found[4] = More(found[3], 4)
      /\ found[5] = More(found[4], 5) /\ found[6] = More(found[5], 6)
      /\ found[7] = More(found[6], 7)
  <2> HIDE DEF More
  <2>1. /\ 1 - 1 = 0 /\ 2 - 1 = 1 /\ 3 - 1 = 2 /\ 4 - 1 = 3 /\ 5 - 1 = 4 /\ 6 - 1 = 5
        /\ 7 - 1 = 6
    OBVIOUS
  <2>2. /\ 1 \in 1..7 /\ 2 \in 1..7 /\ 3 \in 1..7 /\ 4 \in 1..7 /\ 5 \in 1..7
        /\ 6 \in 1..7 /\ 7 \in 1..7
    OBVIOUS
  <2> QED BY <1>5, <1>6, <2>1, <2>2, Zenon
<1>8. /\ \A m \in M(1) : m.type = "word_count" /\ m.from \in DOMAIN t /\ m.to = m.from
                         /\ t[m.from] = "count"
      /\ M(2) = {PlanNegation(i) : i \in {i \in DOMAIN t : PlanMustNot(t, i)}}
      /\ M(3) = {PlanRequirement(i) : i \in {i \in DOMAIN t : t[i] = "must"}}
      /\ \A k \in 4..7 : \A m \in M(k) : m.type \notin {"requirement", "negation"}
  BY PlanMatch
<1>9. Len(t) \in Nat /\ DOMAIN t = 1..Len(t)
  BY LenProperties
<1> HIDE DEF M
<1>10. found[1] = M(1)
  BY <1>7
<1>11. found[2] = M(1) \union M(2)
  <2>1. \A m \in M(2), g \in M(1) : ~Plans!Overlap(g, m)
    <3> SUFFICES ASSUME NEW i \in DOMAIN t, PlanMustNot(t, i), NEW g \in M(1)
                 PROVE  ~Plans!Overlap(g, PlanNegation(i))
      BY <1>8
    <3>1. /\ t[i] = "must" /\ t[i + 1] = "not" /\ t[g.from] = "count"
          /\ g.to = g.from /\ g.from \in Int /\ i \in Int
      BY <1>8, <1>9 DEF PlanMustNot
    <3>2. g.from # i /\ g.from # i + 1
      BY <3>1
    <3> QED BY <3>1, <3>2 DEF Plans!Overlap, PlanNegation
  <2> QED BY <1>7, <1>10, <2>1
<1>12. found[3] = M(1) \union M(2) \union
                  {PlanRequirement(i) :
                     i \in {i \in DOMAIN t : t[i] = "must" /\ ~PlanMustNot(t, i)}}
  <2>1. ASSUME NEW i \in DOMAIN t, t[i] = "must"
        PROVE  (\A g \in M(1) \union M(2) : ~Plans!Overlap(g, PlanRequirement(i)))
                 <=> ~PlanMustNot(t, i)
    <3>1. \A g \in M(1) : ~Plans!Overlap(g, PlanRequirement(i))
      <4> SUFFICES ASSUME NEW g \in M(1) PROVE ~Plans!Overlap(g, PlanRequirement(i))
        OBVIOUS
      <4>1. g.from # i /\ g.to = g.from /\ g.from \in Int /\ i \in Int
        BY <1>8, <1>9, <2>1
      <4> QED BY <4>1 DEF Plans!Overlap, PlanRequirement
    <3>2. \A k \in DOMAIN t : PlanMustNot(t, k) =>
             (Plans!Overlap(PlanNegation(k), PlanRequirement(i)) <=> k = i)
      <4> SUFFICES ASSUME NEW k \in DOMAIN t, PlanMustNot(t, k)
                   PROVE  Plans!Overlap(PlanNegation(k), PlanRequirement(i)) <=> k = i
        OBVIOUS
      <4>1. k + 1 # i /\ i \in Int /\ k \in Int
        BY <1>9, <2>1 DEF PlanMustNot
      <4> QED BY <4>1 DEF Plans!Overlap, PlanNegation, PlanRequirement
    <3> QED BY <1>8, <3>1, <3>2
  <2>2. found[3] = M(1) \union M(2)
                   \union {m \in M(3) : \A g \in M(1) \union M(2) : ~Plans!Overlap(g, m)}
    BY <1>7, <1>11, Zenon
  <2>3. {m \in M(3) : \A g \in M(1) \union M(2) : ~Plans!Overlap(g, m)}
          = {PlanRequirement(i) : i \in {i \in DOMAIN t : t[i] = "must" /\ ~PlanMustNot(t, i)}}
    BY <1>8, <2>1
  <2> QED BY <2>2, <2>3
<1>13. /\ found[3] \subseteq found[7]
       /\ \A m \in found[7] : m.type \in {"requirement", "negation"} => m \in found[3]
  <2>1. /\ found[3] \subseteq found[4] /\ found[4] \subseteq found[3] \union M(4)
        /\ found[4] \subseteq found[5] /\ found[5] \subseteq found[4] \union M(5)
        /\ found[5] \subseteq found[6] /\ found[6] \subseteq found[5] \union M(6)
        /\ found[6] \subseteq found[7] /\ found[7] \subseteq found[6] \union M(7)
    BY <1>7
  <2>2. 4 \in 4..7 /\ 5 \in 4..7 /\ 6 \in 4..7 /\ 7 \in 4..7
    OBVIOUS
  <2> QED BY <1>8, <2>1, <2>2, Zenon
<1>14. \A i : PlanNegation(i).type = "negation" /\ PlanRequirement(i).type = "requirement"
  BY DEF PlanNegation, PlanRequirement
<1> QED BY <1>2, <1>8, <1>12, <1>13, <1>14

\* The less and the greater of two numbers, and the least of many.
LEMMA PlanTwo ==
    ASSUME NEW a \in Int, NEW b \in Int
    PROVE  /\ Plans!Min({a, b}) = IF a <= b THEN a ELSE b
           /\ Plans!Max({a, b}) = IF a >= b THEN a ELSE b
<1>1. \A m, n \in {a, b} : (\A k \in {a, b} : m <= k) /\ (\A k \in {a, b} : n <= k) => m = n
  OBVIOUS
<1>2. \A m, n \in {a, b} : (\A k \in {a, b} : m >= k) /\ (\A k \in {a, b} : n >= k) => m = n
  OBVIOUS
<1>3. \E m \in {a, b} : \A k \in {a, b} : m <= k
  OBVIOUS
<1>4. \E m \in {a, b} : \A k \in {a, b} : m >= k
  OBVIOUS
<1>5. /\ Plans!Min({a, b}) \in {a, b} /\ \A k \in {a, b} : Plans!Min({a, b}) <= k
  BY <1>3 DEF Plans!Min
<1>6. /\ Plans!Max({a, b}) \in {a, b} /\ \A k \in {a, b} : Plans!Max({a, b}) >= k
  BY <1>4 DEF Plans!Max
<1> QED BY <1>5, <1>6

LEMMA PlanMin ==
    ASSUME NEW T, T \subseteq Nat, T # {}
    PROVE  Plans!Min(T) \in T /\ \A k \in T : Plans!Min(T) <= k
BY Least DEF Plans!Min

\* The words that follow what was found are part of the text around it.
LEMMA PlanWindow ==
    ASSUME NEW t \in Seq(PlanWord \union Marker), NEW m,
           m.from \in 1..Len(t), m.to \in m.from..Len(t),
           NEW j \in m.to + 1 .. Plans!Min({Len(t), m.to + WordsAfter}), t[j] \in PlanWord
    PROVE  t[j] \in Plans!Context(t, m)
<1> DEFINE low == Plans!Max({1, m.from - WordsBefore})
           high == Plans!Min({Len(t), m.to + WordsAfter})
<1>1. /\ Len(t) \in Nat /\ m.from \in Int /\ m.to \in Int /\ m.from - WordsBefore \in Int
      /\ m.to + WordsAfter \in Int /\ m.from - WordsBefore <= m.from
      /\ m.to <= m.to + WordsAfter
  BY LenProperties, PlannerAssumption
<1>2. high = IF Len(t) <= m.to + WordsAfter THEN Len(t) ELSE m.to + WordsAfter
  BY <1>1, PlanTwo
<1>3. low = IF 1 >= m.from - WordsBefore THEN 1 ELSE m.from - WordsBefore
  <2> DEFINE start == m.from - WordsBefore
  <2>1. start \in Int /\ 1 \in Int
    BY <1>1
  <2> HIDE DEF start
  <2>2. Plans!Max({1, start}) = IF 1 >= start THEN 1 ELSE start
    BY <2>1, PlanTwo
  <2> QED BY <2>2 DEF start
<1>4. j \in m.to + 1 .. high
  OBVIOUS
<1> HIDE DEF low, high
<1>5. low \in 1..Len(t) /\ high \in low..Len(t) /\ j \in low..high
  BY <1>1, <1>2, <1>3, <1>4
<1>6. Plans!ToSet(SubSeq(t, low, high)) = {t[k] : k \in low..high}
  BY <1>5, PlanPart
<1>7. t[j] \notin {"must", "not", "should"}
  BY PlannerAssumption
<1> QED BY <1>5, <1>6, <1>7 DEF Plans!Context, low, high

\* A goal contradicts itself only with a "must not" and a "must", and when it asks for
\* what it rules out.
LEMMA PlanPrecheck ==
    ASSUME goal \in Seq(PlanWord \union Marker)
    PROVE  /\ Plans!detect_contradictions(goal) =>
                \E i, j \in DOMAIN goal : Plans!MustNot(i) /\ Plans!Must(j)
           /\ ~Plans!detect_contradictions(goal) =>
                Plans!Required \intersect Plans!RuledOut = {}
<1>1. Len(goal) \in Nat /\ DOMAIN goal = 1..Len(goal)
  BY LenProperties
<1>2. \A i \in DOMAIN goal : Plans!MustNot(i) <=> PlanMustNot(goal, i)
  BY <1>1 DEF Plans!MustNot, PlanMustNot
<1>3. ASSUME Plans!detect_contradictions(goal)
      PROVE  \E i, j \in DOMAIN goal : Plans!MustNot(i) /\ Plans!Must(j)
  <2>1. PICK r \in Plans!Explicit(goal), n \in Plans!Explicit(goal) :
            r.type = "requirement" /\ n.type = "negation"
    BY <1>3 DEF Plans!detect_contradictions
  <2>2. PICK i \in DOMAIN goal : PlanMustNot(goal, i)
    BY <2>1, PlanFound
  <2>3. PICK j \in DOMAIN goal : goal[j] = "must" /\ ~PlanMustNot(goal, j)
    BY <2>1, PlanFound
  <2> QED BY <1>2, <2>2, <2>3 DEF Plans!Must
<1>4. ASSUME NEW w \in Plans!Required \intersect Plans!RuledOut
      PROVE  Plans!detect_contradictions(goal)
  <2>1. PICK j \in DOMAIN goal : Plans!Must(j) /\ w \in Plans!Asked(j)
    BY <1>4 DEF Plans!Required
  <2>2. PICK i \in DOMAIN goal : Plans!MustNot(i) /\ w \in Plans!Asked(i + 1)
    BY <1>4 DEF Plans!RuledOut
  <2> DEFINE r == PlanRequirement(j)
             n == PlanNegation(i)
  <2>3. /\ r \in Plans!Explicit(goal) /\ n \in Plans!Explicit(goal)
        /\ r.type = "requirement" /\ r.from = j /\ r.to = j
        /\ n.type = "negation" /\ n.from = i /\ n.to = i + 1
    BY <1>2, <2>1, <2>2, PlanFound DEF Plans!Must, PlanRequirement, PlanNegation
  <2> HIDE DEF r, n
  <2>4. i + 1 <= Len(goal) /\ i \in 1..Len(goal) /\ j \in 1..Len(goal)
    BY <1>1, <1>2, <2>2 DEF PlanMustNot
  <2>5. w \in Plans!Context(goal, r)
    <3>1. PICK k \in j + 1 .. Plans!Min({Len(goal), j + WordsAfter}) :
              w = goal[k] /\ \A l \in j + 1 .. k : goal[l] \in PlanWord
      BY <2>1 DEF Plans!Asked
    <3>2. goal[k] \in PlanWord
      BY <2>4, <3>1
    <3>3. r.from \in 1..Len(goal) /\ r.to \in r.from..Len(goal)
      BY <1>1, <2>3, <2>4
    <3>4. k \in r.to + 1 .. Plans!Min({Len(goal), r.to + WordsAfter})
      BY <2>3
    <3> QED BY <3>1, <3>2, <3>3, <3>4, PlanWindow
  <2>6. w \in Plans!Context(goal, n)
    <3>1. PICK k \in i + 1 + 1 .. Plans!Min({Len(goal), i + 1 + WordsAfter}) :
              w = goal[k] /\ \A l \in i + 1 + 1 .. k : goal[l] \in PlanWord
      BY <2>2 DEF Plans!Asked
    <3>2. goal[k] \in PlanWord
      BY <2>4, <3>1
    <3>3. n.from \in 1..Len(goal) /\ n.to \in n.from..Len(goal)
      BY <1>1, <2>3, <2>4
    <3>4. k \in n.to + 1 .. Plans!Min({Len(goal), n.to + WordsAfter})
      BY <2>3
    <3> QED BY <3>1, <3>2, <3>3, <3>4, PlanWindow
  <2> QED BY <2>3, <2>5, <2>6 DEF Plans!detect_contradictions
<1> QED BY <1>3, <1>4

\* A score is a percentage; below one the words in common are less than a hundredth of
\* all, and from fifty on they are half of them.
LEMMA PlanScore ==
    ASSUME registry \in Plans!Registries, NEW words \in SUBSET PlanWord,
           NEW c \in Capability
    PROVE  LET shared == words \intersect registry[c].words
               all == words \union registry[c].words
           IN  /\ Plans!Score(words, c) \in 0..100
               /\ shared # {} /\ ~(Plans!Score(words, c) >= 1) =>
                    100 * Plans!Cardinality(shared) < Plans!Cardinality(all)
               /\ Plans!Score(words, c) >= 50 =>
                    2 * Plans!Cardinality(shared) >= Plans!Cardinality(words)
<1> DEFINE shared == words \intersect registry[c].words
           all == words \union registry[c].words
<1>1. registry[c].words \in SUBSET PlanWord
  BY DEF Plans!Registries
<1>2. IsFiniteSet(all) /\ IsFiniteSet(shared) /\ IsFiniteSet(words)
  BY <1>1, PlannerAssumption, FS_Subset
<1>3. \A S : Plans!Cardinality(S) = Cardinality(S)
  BY DEF Plans!Cardinality, Cardinality
<1>4. /\ Cardinality(shared) \in Nat /\ Cardinality(all) \in Nat
      /\ Cardinality(words) \in Nat
      /\ Cardinality(shared) <= Cardinality(all) /\ Cardinality(words) <= Cardinality(all)
  BY <1>2, FS_CardinalityType, FS_Subset
<1>5. CASE words = {} \/ registry[c].words = {}
  <2>1. Plans!Score(words, c) = 0
    BY <1>5 DEF Plans!Score
  <2>2. shared = {}
    BY <1>5
  <2> QED BY <2>1, <2>2
<1>6. CASE ~(words = {} \/ registry[c].words = {})
  <2>1. Cardinality(all) > 0
    <3>1. all # {}
      BY <1>6
    <3> HIDE DEF all
    <3> QED BY <1>2, <1>4, <3>1, FS_EmptySet
  <2>2. Plans!Score(words, c) = (100 * Cardinality(shared)) \div Cardinality(all)
    BY <1>3, <1>6, Zenon DEF Plans!Score
  <2> HIDE DEF shared, all
  <2>3. /\ Plans!Score(words, c) \in Nat /\ Plans!Score(words, c) <= 100
        /\ Plans!Score(words, c) >= 50 => 2 * Cardinality(shared) >= Cardinality(all)
        /\ ~(Plans!Score(words, c) >= 1) => 100 * Cardinality(shared) < Cardinality(all)
    BY <1>4, <2>1, <2>2, PlanScores
  <2>4. /\ Plans!Score(words, c) \in 0..100
        /\ Plans!Score(words, c) >= 50 => 2 * Cardinality(shared) >= Cardinality(words)
    BY <1>4, <2>3
  <2> QED BY <1>3, <2>3, <2>4 DEF shared, all
<1> QED BY <1>5, <1>6

\* The best candidate is one, and ahead of every other.
LEMMA PlanBest ==
    ASSUME registry \in Plans!Registries, NEW words \in SUBSET PlanWord,
           Plans!Candidates(words) # {}
    PROVE  /\ Plans!Best(words) \in Plans!Candidates(words)
           /\ \A d \in Plans!Candidates(words) \ {Plans!Best(words)} :
                Plans!Ahead(words, Plans!Best(words), d)
<1> DEFINE C == Plans!Candidates(words)
           D == IF C \ General # {} THEN C \ General ELSE C
           Points == {Plans!Score(words, c) : c \in D}
<1>1. C \subseteq Capability /\ C # {} /\ D # {} /\ D \subseteq C
  BY DEF Plans!Candidates
<1>2. \A c \in C : Plans!Score(words, c) \in 0..100
  BY <1>1, PlanScore
<1> HIDE DEF C
<1>3. Points \subseteq 0..100 /\ Points # {}
  BY <1>1, <1>2
<1>4. PICK s \in Points : \A k \in Points : k <= s
  <2> HIDE DEF Points
  <2> QED BY <1>3, Greatest
<1> DEFINE E == {c \in D : Plans!Score(words, c) = s}
<1>5. E # {} /\ E \subseteq Nat
  BY <1>1, <1>4, PlannerAssumption
<1>6. PICK m \in E : \A n \in E : m <= n
  <2> HIDE DEF E
  <2> QED BY <1>5, Least
<1>7. m \in C /\ Plans!Score(words, m) = s /\ m \in D
  BY <1>1, <1>6
<1>8. ASSUME NEW d \in C \ {m} PROVE Plans!Ahead(words, m, d)
  <2>1. CASE d \in D
    <3>1. (m \in General) <=> (d \in General)
      BY <1>7, <2>1
    <3>2. Plans!Score(words, d) <= s /\ s \in 0..100 /\ Plans!Score(words, d) \in 0..100
      BY <1>2, <1>3, <1>4, <2>1
    <3>3. CASE Plans!Score(words, d) = s
      <4>1. m <= d /\ m \in Nat /\ d \in Nat /\ m # d
        BY <1>5, <1>6, <1>8, <2>1, <3>3
      <4>2. m < d
        BY <4>1
      <4> QED BY <1>7, <3>1, <3>3, <4>2 DEF Plans!Ahead
    <3>4. CASE Plans!Score(words, d) # s
      <4>1. s > Plans!Score(words, d)
        BY <3>2, <3>4
      <4> QED BY <1>7, <3>1, <4>1 DEF Plans!Ahead
    <3> QED BY <3>3, <3>4
  <2>2. CASE d \notin D
    <3>1. d \in General /\ m \notin General
      BY <1>7, <1>8, <2>2
    <3> QED BY <3>1 DEF Plans!Ahead
  <2> QED BY <2>1, <2>2
<1> HIDE DEF D, E
<1>9. Plans!Best(words) = CHOOSE c \in C : \A d \in C \ {c} : Plans!Ahead(words, c, d)
  BY DEF Plans!Best, C
<1>10. /\ Plans!Best(words) \in C
       /\ \A d \in C \ {Plans!Best(words)} : Plans!Ahead(words, Plans!Best(words), d)
  BY <1>7, <1>8, <1>9, Zenon
<1> QED BY <1>10 DEF C

\* What the governors approve is not something to be unsure of.
LEMMA PlanApproved ==
    ASSUME NEW a, Plans!evaluate_action(a) = "approve" PROVE ~Plans!Unsure(a)
<1> DEFINE verdicts == <<Plans!Recursion(a), Plans!Budget(a), Plans!Evolution(a),
                         Plans!Orchestration(a), Plans!Agent(a), Plans!Guardrails(a),
                         Plans!Memory(a, 5000)>>
           firm == {i \in DOMAIN verdicts : verdicts[i] # "approve"}
<1>1. DOMAIN verdicts = 1..7 /\ verdicts[4] = Plans!Orchestration(a)
  OBVIOUS
<1>2. Plans!evaluate_action(a) = IF firm = {} THEN "approve" ELSE verdicts[Plans!Min(firm)]
  <2>1. Plans!evaluate_action(a) = Plans!Evaluate(a, 5000)
    BY DEF Plans!evaluate_action
  <2>2. Plans!Evaluate(a, 5000) = IF firm = {} THEN "approve" ELSE verdicts[Plans!Min(firm)]
    BY SMT DEF Plans!Evaluate
  <2> QED BY <2>1, <2>2, SMT
<1> HIDE DEF verdicts
<1>3. firm = {}
  <2> SUFFICES ASSUME firm # {} PROVE FALSE
    OBVIOUS
  <2>1. firm \subseteq Nat
    BY <1>1
  <2>2. Plans!Min(firm) \in firm
    <3> HIDE DEF firm
    <3> QED BY <2>1, PlanMin
  <2> QED BY <1>2, <2>2
<1>4. Plans!Orchestration(a) = "approve"
  BY <1>1, <1>3
<1> QED BY <1>4 DEF Plans!Orchestration, Plans!RejectIf

(* The inductive invariant: a plan is made only of steps that something can do, and  *)
(* says what the registry says of them; a node is compiled from such a plan.         *)
PlanTyped ==
    /\ goal \in Seq(PlanWord \union Marker) /\ registry \in Plans!Registries
    /\ plan.steps \in Seq(SUBSET PlanWord)
PlanMade ==
    planning = "planned" =>
        /\ \A s \in Plans!ToSet(plan.steps) : Plans!Candidates(s) # {}
        /\ plan.confidence = Plans!Confidence(plan.steps)
        /\ plan.general = Plans!GeneralOnly(plan.steps)
PlanSound ==
    /\ nodes # <<>> => planning = "compiled"
    /\ Plans!PrecheckIsRight /\ Plans!SpecificFirst /\ Plans!CompiledIsSure
PlanIInv == PlanTyped /\ PlanMade /\ PlanSound

\* Nothing is planned.
LEMMA PlanInitially == Plans!Init => PlanIInv
<1> SUFFICES ASSUME Plans!Init PROVE PlanIInv
  OBVIOUS
<1>1. goal \in Seq(PlanWord \union Marker)
  BY PlanBounded DEF Plans!Init, Plans!Texts
<1>2. registry \in Plans!Registries
  <2> DEFINE one == [words |-> {}, adapted |-> FALSE]
  <2>1. one \in [words : SUBSET PlanWord, adapted : BOOLEAN]
    OBVIOUS
  <2> HIDE DEF one
  <2>2. [c \in Capability |-> one] \in Plans!Registries
    BY <2>1 DEF Plans!Registries
  <2> QED BY <2>2, Zenon DEF Plans!Init, one
<1>3. plan.steps = <<>> /\ nodes = <<>> /\ planning = "asked"
  BY DEF Plans!Init, Plans!NoPlan
<1>4. PlanTyped /\ PlanMade
  BY <1>1, <1>2, <1>3, EmptySeq DEF PlanTyped, PlanMade
<1>5. PlanSound
  BY <1>3 DEF PlanSound, Plans!PrecheckIsRight, Plans!Rejected, Plans!SpecificFirst,
              Plans!CompiledIsSure
<1> QED BY <1>4, <1>5 DEF PlanIInv

\* Whatever is found in the goal, what contradicts itself goes no further.
LEMMA PlanExtractKeeps ==
    ASSUME PlanIInv, NEW u, NEW c, Plans!ExtractConstraints(u, c) PROVE PlanIInv'
<1>1. /\ goal' = goal /\ registry' = registry /\ plan' = plan /\ nodes' = nodes
      /\ planning = "asked"
      /\ planning' = IF Plans!detect_contradictions(goal) THEN "rejected_precheck"
                     ELSE "constrained"
  BY DEF Plans!ExtractConstraints
<1>2. nodes = <<>> /\ goal \in Seq(PlanWord \union Marker)
  BY <1>1 DEF PlanIInv, PlanSound, PlanTyped
<1>3. PlanTyped' /\ PlanMade'
  BY <1>1 DEF PlanIInv, PlanTyped, PlanMade
<1>4. /\ Plans!Required' = Plans!Required /\ Plans!RuledOut' = Plans!RuledOut
      /\ \A i : Plans!MustNot(i)' = Plans!MustNot(i) /\ Plans!Must(i)' = Plans!Must(i)
  BY <1>1 DEF Plans!Required, Plans!RuledOut, Plans!Asked, Plans!MustNot, Plans!Must
<1>5. Plans!PrecheckIsRight'
  <2>1. CASE Plans!detect_contradictions(goal)
    <3>1. \E i, j \in DOMAIN goal : Plans!MustNot(i) /\ Plans!Must(j)
      BY <1>2, <2>1, PlanPrecheck
    <3>2. planning' = "rejected_precheck"
      BY <1>1, <2>1
    <3> QED BY <1>1, <1>4, <3>1, <3>2 DEF Plans!PrecheckIsRight
  <2>2. CASE ~Plans!detect_contradictions(goal)
    <3>1. Plans!Required \intersect Plans!RuledOut = {}
      BY <1>2, <2>2, PlanPrecheck
    <3>2. planning' = "constrained"
      BY <1>1, <2>2
    <3> QED BY <1>4, <3>1, <3>2 DEF Plans!PrecheckIsRight, Plans!Rejected
  <2> QED BY <2>1, <2>2
<1>6. PlanSound'
  BY <1>1, <1>2, <1>5 DEF PlanSound, Plans!SpecificFirst, Plans!CompiledIsSure
<1> QED BY <1>3, <1>6 DEF PlanIInv

\* The steps are made of words.
LEMMA PlanDecomposeKeeps ==
    ASSUME PlanIInv, NEW steps \in Plans!BoundedSeq(SUBSET PlanWord \ {{}}, MaxPlanSteps),
           Plans!Decompose(steps)
    PROVE  PlanIInv'
<1>1. /\ planning = "constrained" /\ planning' = "decomposed" /\ goal' = <<>>
      /\ registry' = registry /\ nodes' = nodes
      /\ plan' = [Plans!NoPlan EXCEPT !.steps =
                    IF steps = <<>> THEN <<Plans!ToSet(goal) \intersect PlanWord>> ELSE steps]
  BY DEF Plans!Decompose
<1>2. nodes' = <<>>
  BY <1>1 DEF PlanIInv, PlanSound
<1>3. plan'.steps = IF steps = <<>> THEN <<Plans!ToSet(goal) \intersect PlanWord>> ELSE steps
  BY <1>1 DEF Plans!NoPlan
<1>4. steps \in Seq(SUBSET PlanWord)
  <2>1. steps \in Seq(SUBSET PlanWord \ {{}})
    BY PlanBounded
  <2> QED BY <2>1, SeqDef
<1>5. <<Plans!ToSet(goal) \intersect PlanWord>> \in Seq(SUBSET PlanWord)
  OBVIOUS
<1>6. PlanTyped' /\ PlanMade'
  BY <1>1, <1>3, <1>4, <1>5, EmptySeq DEF PlanIInv, PlanTyped, PlanMade
<1>7. PlanSound'
  BY <1>1, <1>2 DEF PlanSound, Plans!PrecheckIsRight, Plans!Rejected, Plans!SpecificFirst,
                    Plans!CompiledIsSure
<1> QED BY <1>6, <1>7 DEF PlanIInv

\* The registry is what it is when it is asked.
LEMMA PlanDiscoverKeeps ==
    ASSUME PlanIInv, NEW reg \in Plans!Registries, Plans!Discover(reg) PROVE PlanIInv'
<1>1. /\ planning = "decomposed" /\ planning' = "discovered" /\ goal' = goal
      /\ registry' = reg /\ plan' = plan /\ nodes' = nodes
  BY DEF Plans!Discover
<1>2. nodes' = <<>>
  BY <1>1 DEF PlanIInv, PlanSound
<1>3. PlanTyped' /\ PlanMade'
  BY <1>1 DEF PlanIInv, PlanTyped, PlanMade
<1>4. PlanSound'
  BY <1>1, <1>2 DEF PlanSound, Plans!PrecheckIsRight, Plans!Rejected, Plans!SpecificFirst,
                    Plans!CompiledIsSure
<1> QED BY <1>3, <1>4 DEF PlanIInv

\* A plan has candidates for each of its steps.
LEMMA PlanMakeKeeps == ASSUME PlanIInv, Plans!MakePlan PROVE PlanIInv'
<1>1. /\ planning = "discovered" /\ goal' = goal /\ registry' = registry /\ nodes' = nodes
      /\ \/ planning' = "impasse" /\ plan' = Plans!NoPlan
         \/ /\ \A s \in Plans!ToSet(plan.steps) : Plans!Candidates(s) # {}
            /\ planning' = "planned"
            /\ plan' = [steps |-> plan.steps,
                        confidence |-> Plans!Confidence(plan.steps),
                        general |-> Plans!GeneralOnly(plan.steps),
                        alternatives |-> Plans!Alternatives(plan.steps)]
  BY DEF Plans!MakePlan
<1>2. nodes' = <<>>
  BY <1>1 DEF PlanIInv, PlanSound
<1>3. PlanSound'
  <2>1. planning' \notin {"constrained", "rejected_precheck"}
    BY <1>1
  <2> QED BY <1>2, <2>1 DEF PlanSound, Plans!PrecheckIsRight, Plans!Rejected,
                            Plans!SpecificFirst, Plans!CompiledIsSure
<1>4. CASE planning' = "impasse" /\ plan' = Plans!NoPlan
  BY <1>1, <1>3, <1>4, EmptySeq DEF PlanIInv, PlanTyped, PlanMade, Plans!NoPlan
<1>5. CASE /\ \A s \in Plans!ToSet(plan.steps) : Plans!Candidates(s) # {}
           /\ planning' = "planned"
           /\ plan' = [steps |-> plan.steps,
                       confidence |-> Plans!Confidence(plan.steps),
                       general |-> Plans!GeneralOnly(plan.steps),
                       alternatives |-> Plans!Alternatives(plan.steps)]
  <2>1. /\ plan'.steps = plan.steps /\ plan'.confidence = Plans!Confidence(plan.steps)
        /\ plan'.general = Plans!GeneralOnly(plan.steps)
    BY <1>5
  <2>2. \A s, c : Plans!Score(s, c)' = Plans!Score(s, c)
    BY <1>1 DEF Plans!Score
  <2>3. \A s : Plans!Candidates(s)' = Plans!Candidates(s)
    BY <1>1, <2>2 DEF Plans!Candidates
  <2>4. \A s, a, b : Plans!Ahead(s, a, b)' = Plans!Ahead(s, a, b)
    BY <2>2 DEF Plans!Ahead
  <2>5. \A s : Plans!Best(s)' = Plans!Best(s)
    BY <2>3, <2>4 DEF Plans!Best
  <2>6. /\ Plans!Confidence(plan.steps)' = Plans!Confidence(plan.steps)
        /\ Plans!GeneralOnly(plan.steps)' = Plans!GeneralOnly(plan.steps)
    BY <2>1, <2>2, <2>5, Zenon DEF Plans!Confidence, Plans!GeneralOnly
  <2>7. PlanMade'
    BY <1>5, <2>1, <2>3, <2>6 DEF PlanMade
  <2> QED BY <1>1, <1>3, <2>1, <2>7 DEF PlanIInv, PlanTyped
<1> QED BY <1>1, <1>4, <1>5

\* What is approved has no general capability where a specific one shares words, and is
\* sure of its steps.
LEMMA PlanCompileKeeps ==
    ASSUME PlanIInv, NEW anchor, NEW attempt, Plans!Compile(anchor, attempt) PROVE PlanIInv'
<1> DEFINE action == Plans!CompileAction(plan, anchor, attempt)
           verdict == Plans!evaluate_action(action)
<1>1. /\ planning = "planned" /\ goal' = goal /\ registry' = registry /\ plan' = plan
      /\ planning' = CASE verdict = "approve" -> "compiled"
                       [] verdict = "reject" -> "rejected"
                       [] OTHER -> "escalated"
      /\ nodes' = IF verdict = "approve"
                  THEN [i \in DOMAIN plan.steps |-> Plans!Best(plan.steps[i])] ELSE <<>>
  BY DEF Plans!Compile
<1>2. /\ registry \in Plans!Registries /\ plan.steps \in Seq(SUBSET PlanWord)
      /\ \A i \in DOMAIN plan.steps : /\ plan.steps[i] \in SUBSET PlanWord
                                      /\ plan.steps[i] \in Plans!ToSet(plan.steps)
                                      /\ Plans!Candidates(plan.steps[i]) # {}
      /\ plan.confidence = Plans!Confidence(plan.steps)
      /\ plan.general = Plans!GeneralOnly(plan.steps)
  <2>1. /\ registry \in Plans!Registries /\ plan.steps \in Seq(SUBSET PlanWord)
        /\ \A s \in Plans!ToSet(plan.steps) : Plans!Candidates(s) # {}
        /\ plan.confidence = Plans!Confidence(plan.steps)
        /\ plan.general = Plans!GeneralOnly(plan.steps)
    BY <1>1 DEF PlanIInv, PlanTyped, PlanMade
  <2>2. \A i \in DOMAIN plan.steps : plan.steps[i] \in Plans!ToSet(plan.steps)
    BY DEF Plans!ToSet
  <2>3. \A i \in DOMAIN plan.steps : plan.steps[i] \in SUBSET PlanWord
    BY <2>1, ElementOfSeq, LenProperties
  <2> QED BY <2>1, <2>2, <2>3
<1>3. PlanTyped'
  BY <1>1 DEF PlanIInv, PlanTyped
<1> HIDE DEF verdict
<1>4. planning' \in {"compiled", "rejected", "escalated"}
  BY <1>1, Zenon
<1>5. PlanMade'
  BY <1>4 DEF PlanMade
<1>6. CASE verdict # "approve"
  <2>1. nodes' = <<>>
    BY <1>1, <1>6
  <2>2. PlanSound'
    BY <1>4, <2>1 DEF PlanSound, Plans!PrecheckIsRight, Plans!Rejected,
                      Plans!SpecificFirst, Plans!CompiledIsSure
  <2> QED BY <1>3, <1>5, <2>2 DEF PlanIInv
<1>7. CASE verdict = "approve"
  <2>1. /\ planning' = "compiled" /\ DOMAIN nodes' = DOMAIN plan.steps
        /\ \A i \in DOMAIN plan.steps : nodes'[i] = Plans!Best(plan.steps[i])
    BY <1>1, <1>7
  <2>2. \A i \in DOMAIN plan.steps :
            /\ Plans!Best(plan.steps[i]) \in Plans!Candidates(plan.steps[i])
            /\ \A d \in Plans!Candidates(plan.steps[i]) \ {Plans!Best(plan.steps[i])} :
                 Plans!Ahead(plan.steps[i], Plans!Best(plan.steps[i]), d)
    BY <1>2, PlanBest
  <2>3. Plans!SpecificFirst'
    <3> SUFFICES ASSUME NEW i \in DOMAIN plan.steps
                 PROVE  LET s == plan.steps[i] best == Plans!Best(s) IN
                        /\ registry[best].adapted
                        /\ best \in General =>
                             \A c \in Capability \ General :
                               registry[c].adapted /\ registry[c].words \intersect s # {} =>
                                 100 * Plans!Cardinality(registry[c].words \intersect s)
                                   < Plans!Cardinality(registry[c].words \union s)
      BY <1>1, <2>1 DEF Plans!SpecificFirst
    <3> DEFINE s == plan.steps[i]
               best == Plans!Best(s)
    <3>1. s \in SUBSET PlanWord /\ best \in Plans!Candidates(s)
          /\ \A d \in Plans!Candidates(s) \ {best} : Plans!Ahead(s, best, d)
      BY <1>2, <2>2
    <3> HIDE DEF s, best
    <3>2. registry[best].adapted
      BY <3>1 DEF Plans!Candidates
    <3>3. ASSUME best \in General, NEW c \in Capability \ General, registry[c].adapted,
                 registry[c].words \intersect s # {}
          PROVE  100 * Plans!Cardinality(registry[c].words \intersect s)
                   < Plans!Cardinality(registry[c].words \union s)
      <4>1. s \intersect registry[c].words = registry[c].words \intersect s
            /\ s \union registry[c].words = registry[c].words \union s
        OBVIOUS
      <4>2. ~(Plans!Score(s, c) >= 1)
        <5> SUFFICES ASSUME Plans!Score(s, c) >= 1 PROVE FALSE
          OBVIOUS
        <5>1. c \in Plans!Candidates(s) \ {best}
          BY <3>3 DEF Plans!Candidates
        <5>2. Plans!Ahead(s, best, c)
          BY <3>1, <5>1
        <5> QED BY <3>3, <5>2 DEF Plans!Ahead
      <4> QED BY <1>2, <3>1, <3>3, <4>1, <4>2, PlanScore
    <3> QED BY <3>2, <3>3 DEF s, best
  <2>4. Plans!CompiledIsSure'
    <3> SUFFICES ASSUME NEW j \in DOMAIN plan.steps,
                        Plans!Best(plan.steps[j]) \notin General
                 PROVE  \A i \in DOMAIN plan.steps :
                          2 * Plans!Cardinality(plan.steps[i]
                                \intersect registry[Plans!Best(plan.steps[i])].words)
                            >= Plans!Cardinality(plan.steps[i])
      BY <1>1, <2>1 DEF Plans!CompiledIsSure
    <3>1. plan.general = FALSE
      BY <1>2 DEF Plans!GeneralOnly
    <3>2. action.confidence = plan.confidence /\ action.general = plan.general
      BY DEF Plans!CompileAction, Plans!Default
    <3>3. ~Plans!Unsure(action)
      BY <1>7, PlanApproved DEF verdict
    <3> HIDE DEF action
    <3> DEFINE Points == {Plans!Score(s, Plans!Best(s)) : s \in Plans!ToSet(plan.steps)}
    <3>4. \A s \in Plans!ToSet(plan.steps) : Plans!Score(s, Plans!Best(s)) \in 0..100
      <4> SUFFICES ASSUME NEW i \in DOMAIN plan.steps
                   PROVE  Plans!Score(plan.steps[i], Plans!Best(plan.steps[i])) \in 0..100
        BY DEF Plans!ToSet
      <4>1. Plans!Best(plan.steps[i]) \in Capability
        BY <2>2 DEF Plans!Candidates
      <4> QED BY <1>2, <4>1, PlanScore
    <3>5. Points \subseteq Nat /\ Points # {}
      <4>1. Plans!Score(plan.steps[j], Plans!Best(plan.steps[j])) \in Points
        BY <1>2, Zenon
      <4>2. \A n \in 0..100 : n \in Nat
        OBVIOUS
      <4> QED BY <3>4, <4>1, <4>2, Zenon
    <3>6. plan.confidence = Plans!Min(Points)
      BY <1>2 DEF Plans!Confidence
    <3>7. plan.confidence \in Nat /\ \A k \in Points : plan.confidence <= k
      <4> HIDE DEF Points
      <4> QED BY <3>5, <3>6, PlanMin
    <3>8. plan.confidence >= 50
      BY <3>1, <3>2, <3>3, <3>7 DEF Plans!Unsure, Plans!Absent, Plans!Threshold
    <3> SUFFICES ASSUME NEW i \in DOMAIN plan.steps
                 PROVE  2 * Plans!Cardinality(plan.steps[i]
                                \intersect registry[Plans!Best(plan.steps[i])].words)
                            >= Plans!Cardinality(plan.steps[i])
      OBVIOUS
    <3> DEFINE point == Plans!Score(plan.steps[i], Plans!Best(plan.steps[i]))
    <3>9. point \in Points /\ point \in Nat
      <4>1. point \in Points
        BY <1>2, Zenon
      <4> HIDE DEF point, Points
      <4> QED BY <3>5, <4>1
    <3>10. point >= 50
      <4> HIDE DEF point, Points
      <4> QED BY <3>7, <3>8, <3>9
    <3>11. Plans!Best(plan.steps[i]) \in Capability
      BY <2>2 DEF Plans!Candidates
    <3> QED BY <1>2, <3>10, <3>11, PlanScore
  <2>5. PlanSound'
    BY <2>1, <2>3, <2>4 DEF PlanSound, Plans!PrecheckIsRight, Plans!Rejected
  <2> QED BY <1>3, <1>5, <2>5 DEF PlanIInv
<1> QED BY <1>6, <1>7

\* An event that cannot be appended leaves nothing compiled.
LEMMA PlanFailKeeps == ASSUME PlanIInv, Plans!Fail PROVE PlanIInv'
<1>1. /\ planning' = "failed" /\ nodes' = <<>> /\ goal' = goal /\ registry' = registry
      /\ plan' = plan
  BY DEF Plans!Fail
<1>2. PlanTyped' /\ PlanMade'
  BY <1>1 DEF PlanIInv, PlanTyped, PlanMade
<1>3. PlanSound'
  BY <1>1 DEF PlanSound, Plans!PrecheckIsRight, Plans!Rejected, Plans!SpecificFirst,
              Plans!CompiledIsSure
<1> QED BY <1>2, <1>3 DEF PlanIInv

\* Every operation keeps the inductive invariant.
LEMMA PlanInductive == PlanIInv /\ [Plans!Next]_(Plans!vars) => PlanIInv'
<1> SUFFICES ASSUME PlanIInv, [Plans!Next]_(Plans!vars) PROVE PlanIInv'
  OBVIOUS
<1>1. CASE Plans!Next
  <2>1. CASE \E u, c \in BOOLEAN : Plans!ExtractConstraints(u, c)
    BY <2>1, PlanExtractKeeps, Zenon
  <2>2. CASE \E steps \in Plans!BoundedSeq(SUBSET PlanWord \ {{}}, MaxPlanSteps) :
                Plans!Decompose(steps)
    BY <2>2, PlanDecomposeKeeps, Zenon
  <2>3. CASE \E reg \in Plans!Registries : Plans!Discover(reg)
    BY <2>3, PlanDiscoverKeeps, Zenon
  <2>4. CASE Plans!MakePlan
    BY <2>4, PlanMakeKeeps, Zenon
  <2>5. CASE \E inScope, delegated \in BOOLEAN, n \in 0..1, attempt \in 0..2 :
                Plans!Compile(Plans!Anchor(inScope, delegated, n), attempt)
    BY <2>5, PlanCompileKeeps, Zenon
  <2>6. CASE Plans!Fail
    BY <2>6, PlanFailKeeps, Zenon
  <2> QED BY <1>1, <2>1, <2>2, <2>3, <2>4, <2>5, <2>6, Zenon DEF Plans!Next
<1>2. CASE UNCHANGED Plans!vars
  <2>1. /\ planning' = planning /\ goal' = goal /\ registry' = registry /\ plan' = plan
        /\ nodes' = nodes
    BY <1>2 DEF Plans!vars
  <2>2. \A s, c : Plans!Score(s, c)' = Plans!Score(s, c)
    BY <2>1 DEF Plans!Score
  <2>3. \A s : Plans!Candidates(s)' = Plans!Candidates(s)
    BY <2>1, <2>2 DEF Plans!Candidates
  <2>4. \A s, a, b : Plans!Ahead(s, a, b)' = Plans!Ahead(s, a, b)
    BY <2>2 DEF Plans!Ahead
  <2>5. \A s : Plans!Best(s)' = Plans!Best(s)
    BY <2>3, <2>4 DEF Plans!Best
  <2>6. /\ Plans!Confidence(plan.steps)' = Plans!Confidence(plan.steps)
        /\ Plans!GeneralOnly(plan.steps)' = Plans!GeneralOnly(plan.steps)
    BY <2>1, <2>2, <2>5, Zenon DEF Plans!Confidence, Plans!GeneralOnly
  <2>7. PlanTyped' /\ PlanMade'
    BY <2>1, <2>3, <2>6 DEF PlanIInv, PlanTyped, PlanMade
  <2>8. /\ Plans!Required' = Plans!Required /\ Plans!RuledOut' = Plans!RuledOut
        /\ \A i : Plans!MustNot(i)' = Plans!MustNot(i) /\ Plans!Must(i)' = Plans!Must(i)
    BY <2>1 DEF Plans!Required, Plans!RuledOut, Plans!Asked, Plans!MustNot, Plans!Must
  <2>9. Plans!PrecheckIsRight'
    BY <2>1, <2>8 DEF PlanIInv, PlanSound, Plans!PrecheckIsRight, Plans!Rejected
  <2>10. PlanSound'
    BY <2>1, <2>9 DEF PlanIInv, PlanSound, Plans!SpecificFirst, Plans!CompiledIsSure
  <2> QED BY <2>7, <2>10 DEF PlanIInv
<1> QED BY <1>1, <1>2

(***************************************************************************)
(* The evidence of a request: Retrieval_proofs proves what the retrieval   *)
(* promises, of any constants and variables.  Its instance with those of a *)
(* request and the request's own instance of Retrieval define the same.    *)
(***************************************************************************)
Evidence == INSTANCE Retrieval_proofs WITH
    Entry <- Item, edges <- graph, stage <- retrieving, hits <- seeds, coding <- forCode

\* What is assumed of a request's limits is what Retrieval_proofs assumes.
LEMMA EvidenceLimited == Evidence!Limited
BY RetrievalAssumption
   DEF Retrieves!Limited, Evidence!Limited, Retrieves!IsFiniteSet, Evidence!IsFiniteSet

\* The two instances begin alike and take the same steps.
LEMMA EvidenceInit == Retrieves!Init => Evidence!Init
BY DEF Retrieves!Init, Evidence!Init, Retrieves!NoContext, Evidence!NoContext,
   Retrieves!Node, Evidence!Node, Retrieves!BoundedSeq, Evidence!BoundedSeq,
   Retrieves!SeqOf, Evidence!SeqOf, Retrieves!IsInjective, Evidence!IsInjective
LEMMA EvidenceSearch ==
    ASSUME NEW g \in BOOLEAN PROVE Retrieves!Search(g) <=> Evidence!Search(g)
BY DEF Retrieves!Search, Evidence!Search, Retrieves!Forget, Evidence!Forget,
   Retrieves!There, Evidence!There, Retrieves!BoundedSeq, Evidence!BoundedSeq,
   Retrieves!SeqOf, Evidence!SeqOf, Retrieves!IsInjective, Evidence!IsInjective,
   Retrieves!Nowhere, Evidence!Nowhere
LEMMA EvidenceExpand ==
    ASSUME NEW f \in BOOLEAN PROVE Retrieves!Expand(f) <=> Evidence!Expand(f)
BY DEF Retrieves!Expand, Evidence!Expand, Retrieves!Visited, Evidence!Visited,
   Retrieves!Found, Evidence!Found, Retrieves!Neighbors, Evidence!Neighbors,
   Retrieves!From, Evidence!From, Retrieves!ToSet, Evidence!ToSet,
   Retrieves!OnNextLevel, Evidence!OnNextLevel, Retrieves!Cardinality,
   Evidence!Cardinality
LEMMA EvidenceDeeper ==
    Retrieves!Deeper <=> Evidence!Deeper
BY DEF Retrieves!Deeper, Evidence!Deeper, Retrieves!Forget, Evidence!Forget
LEMMA EvidenceRead ==
    ASSUME NEW f \in BOOLEAN PROVE Retrieves!Read(f) <=> Evidence!Read(f)
BY DEF Retrieves!Read, Evidence!Read, Retrieves!There, Evidence!There
LEMMA EvidenceRank ==
    Retrieves!Rank <=> Evidence!Rank
BY DEF Retrieves!Rank, Evidence!Rank, Retrieves!Ranked, Evidence!Ranked, Retrieves!ToSet,
   Evidence!ToSet, Retrieves!Before, Evidence!Before, Retrieves!Score, Evidence!Score,
   Retrieves!Bonus, Evidence!Bonus, Retrieves!Nowhere, Evidence!Nowhere,
   Retrieves!traversal, Evidence!traversal, Retrieves!Min, Evidence!Min
LEMMA EvidenceBuild ==
    Retrieves!Build <=> Evidence!Build
BY ZenonT(60) DEF Retrieves!Build, Evidence!Build, Retrieves!Contents, Evidence!Contents,
   Retrieves!Consolidate, Evidence!Consolidate, Retrieves!Join, Evidence!Join,
   Retrieves!Budgeted, Evidence!Budgeted, Retrieves!Place, Evidence!Place,
   Retrieves!Drop, Evidence!Drop, Retrieves!NoContext, Evidence!NoContext,
   Retrieves!traversal, Evidence!traversal, Retrieves!Groups, Evidence!Groups,
   Retrieves!Parents, Evidence!Parents, Retrieves!InOrder, Evidence!InOrder,
   Retrieves!Met, Evidence!Met, Retrieves!Pairs, Evidence!Pairs, Retrieves!BlockOf,
   Evidence!BlockOf, Retrieves!AllOf, Evidence!AllOf, Retrieves!Root, Evidence!Root,
   Retrieves!Union, Evidence!Union, Retrieves!ToSet, Evidence!ToSet,
   Retrieves!Cardinality, Evidence!Cardinality
LEMMA EvidenceChange ==
    ASSUME NEW e \in Item, NEW to PROVE Retrieves!Change(e, to) <=> Evidence!Change(e, to)
BY DEF Retrieves!Change, Evidence!Change, Retrieves!There, Evidence!There,
   Retrieves!traversal, Evidence!traversal
LEMMA EvidenceNext == [Retrieves!Next]_(Retrieves!vars) => [Evidence!Next]_(Evidence!vars)
<1>1. Retrieves!Next => Evidence!Next
  BY EvidenceSearch, EvidenceExpand, EvidenceDeeper, EvidenceRead, EvidenceRank,
     EvidenceBuild, EvidenceChange, Zenon DEF Retrieves!Next, Evidence!Next
<1>2. /\ Retrieves!vars = Evidence!vars
      /\ (UNCHANGED Retrieves!vars => UNCHANGED Evidence!vars)
  BY DEF Retrieves!vars, Evidence!vars
<1> QED BY <1>1, <1>2

\* They mean the same by what is near, placed and grouped.
LEMMA EvidenceNear ==
    Retrieves!NearestSeed <=> Evidence!NearestSeed
BY DEF Retrieves!NearestSeed, Evidence!NearestSeed, Retrieves!LevelDone, Evidence!LevelDone,
   Retrieves!Within, Evidence!Within, Retrieves!ToSet, Evidence!ToSet
LEMMA EvidencePlaces ==
    Retrieves!EveryItemPlaced <=> Evidence!EveryItemPlaced
BY DEF Retrieves!EveryItemPlaced, Evidence!EveryItemPlaced, Retrieves!Places,
   Evidence!Places, Retrieves!Held, Evidence!Held, Retrieves!AllOf, Evidence!AllOf,
   Retrieves!ToSet, Evidence!ToSet, Retrieves!Cardinality, Evidence!Cardinality
LEMMA EvidenceGroups ==
    Retrieves!GroupsAreComponents <=> Evidence!GroupsAreComponents
BY DEF Retrieves!GroupsAreComponents, Evidence!GroupsAreComponents, Retrieves!Pairs,
   Evidence!Pairs, Retrieves!BlockOf, Evidence!BlockOf, Retrieves!AllOf, Evidence!AllOf,
   Retrieves!ToSet, Evidence!ToSet, Retrieves!Min, Evidence!Min

\* The inductive invariant of Retrieval_proofs is one of the retrieval in a request.
LEMMA EvidenceInitially == Retrieves!Init => Evidence!IInv
BY EvidenceInit, Evidence!Initially
LEMMA EvidenceInductive ==
    Evidence!IInv /\ [Retrieves!Next]_(Retrieves!vars) => Evidence!IInv'
BY EvidenceLimited, EvidenceNext, Evidence!Inductive
LEMMA EvidenceKept ==
    Evidence!IInv => /\ Retrieves!NearestSeed /\ Retrieves!EveryItemPlaced
                     /\ Retrieves!GroupsAreComponents
BY EvidenceLimited, Evidence!Kept, EvidenceNear, EvidencePlaces, EvidenceGroups

(***************************************************************************)
(* The texts of a request: no word of one is lost, but where two chunks    *)
(* that are too short follow each other (chunker.py).                      *)
(***************************************************************************)

\* What is assumed of a request's windows is what Retrieval_proofs assumes.
LEMMA TextWindows == Evidence!Windows
BY ChunkerAssumption DEF Splits!Windows, Evidence!Windows

\* The two instances begin alike, split alike and mean the same by a word that is kept.
LEMMA TextUndivided == Splits!Undivided => Evidence!Undivided
BY DEF Splits!Undivided, Evidence!Undivided
LEMMA TextChunks ==
    ASSUME NEW p, NEW d, NEW c PROVE Splits!chunk(p, d, c) = Evidence!chunk(p, d, c)
BY DEF Splits!chunk, Evidence!chunk, Splits!split_prose, Evidence!split_prose,
       Splits!split_code, Evidence!split_code, Splits!split_words, Evidence!split_words,
       Splits!Sentence, Evidence!Sentence, Splits!Sentences, Evidence!Sentences,
       Splits!Paragraph, Evidence!Paragraph, Splits!Flushed, Evidence!Flushed,
       Splits!Ending, Evidence!Ending, Splits!Least, Evidence!Least, Splits!FlattenSeq,
       Evidence!FlattenSeq
LEMMA TextNumbers ==
    ASSUME NEW l PROVE Splits!Numbered(l) = Evidence!Numbered(l)
BY DEF Splits!Numbered, Evidence!Numbered, Splits!Counts, Evidence!Counts, Splits!Count,
       Evidence!Count
LEMMA TextSplit == Splits!Split => Evidence!Split
BY TextChunks, TextNumbers, Zenon
   DEF Splits!Split, Evidence!Split, Splits!UpTo, Evidence!UpTo, Splits!Words,
       Evidence!Words, Splits!FlattenSeq, Evidence!FlattenSeq, Splits!Ending,
       Evidence!Ending, Splits!Least, Evidence!Least
LEMMA TextSame == Splits!EveryWordKept <=> Evidence!EveryWordKept
BY DEF Splits!EveryWordKept, Evidence!EveryWordKept, Splits!Stretch, Evidence!Stretch,
       Splits!Words, Evidence!Words, Splits!FlattenSeq, Evidence!FlattenSeq, Splits!ToSet,
       Evidence!ToSet

\* So what Retrieval_proofs proves of a text is so of one in a request.
LEMMA TextChunkInitially == Splits!Undivided => Splits!EveryWordKept
BY TextUndivided, TextSame, Evidence!TextChunkInitially
LEMMA TextChunkInductive ==
    Splits!EveryWordKept /\ [Splits!Split]_(Splits!splitting) => Splits!EveryWordKept'
<1>1. [Splits!Split]_(Splits!splitting) => [Evidence!Split]_(Evidence!splitting)
  BY TextSplit DEF Splits!splitting, Evidence!splitting
<1>2. Splits!EveryWordKept' <=> Evidence!EveryWordKept'
  BY TextSame, PTL
<1> QED BY <1>1, <1>2, TextWindows, TextSame, Evidence!TextChunkInductive

(***************************************************************************)
(* What a request knows of its user, whatever is written between the reads *)
(* of the two layers.                                                      *)
(***************************************************************************)

\* The module's own cardinality is the library's.
LEMMA UserCardinality == \A S : Profile!Cardinality(S) = Cardinality(S)
BY DEF Profile!Cardinality, Cardinality


UserValue == Text \union {Profile!Absent}
\* No two entries were updated by one write.
UserTyped ==
    /\ record \in [Signal -> [text : UserValue, at : Nat]]
    /\ updates \in Nat /\ reading \in {"none", "l1", "l3", "done"}
    /\ slots \in [Profile!Slot -> Seq(UserValue)] /\ sources \subseteq Signal
    /\ moved \subseteq Signal
UserDistinct ==
    /\ \A e \in Signal : record[e].at <= updates
    /\ \A e, f \in Signal : record[e].at = record[f].at /\ record[e].at > 0 => e = f

UserIsNewest(e, S) == e \in S /\ \A f \in S : record[f].at <= record[e].at
\* What a slot shows of the entries that hold it and of the best of them.
UserShows(s, held, best) ==
    /\ held \subseteq sources
    /\ held = {} => slots[s] = <<>>
    /\ held # {} /\ s \notin ListSlot
           => \E e \in Signal : UserIsNewest(e, best) /\ slots[s] = <<record[e].text>>
    /\ s \in ListSlot => Profile!ToSet(slots[s]) = {record[e].text : e \in held} /\
           Profile!IsInjective(slots[s])
UserRaw(s) == Profile!Holding(s) \ Promoted
UserBest(s) == IF Profile!Holding(s) \intersect Promoted # {}
    THEN Profile!Holding(s) \intersect Promoted ELSE Profile!Holding(s)
UserUntouched(s) == {e \in moved : SlotOf[e] = s} = {}
UserAssembled ==
    Profile!Fits => \A s \in Profile!Slot : UserUntouched(s) =>
        /\ reading = "l1" => slots[s] = <<>>
        /\ reading = "l3" => UserShows(s, UserRaw(s), UserRaw(s))
        /\ reading = "done" => UserShows(s, Profile!Holding(s), UserBest(s))
UserIInv == UserTyped /\ UserDistinct /\ UserAssembled

LEMMA UserInitially == Profile!Init => UserIInv
BY DEF Profile!Init, UserIInv, UserTyped, UserDistinct, UserAssembled, UserValue

\* One entry applied.
LEMMA UserApplies ==
    ASSUME UserTyped, NEW p \in [Profile!Slot -> Seq(UserValue)], NEW e \in Signal
    PROVE  /\ Profile!Apply(p, e) \in [Profile!Slot -> Seq(UserValue)]
           /\ \A s \in Profile!Slot \ {SlotOf[e]} : Profile!Apply(p, e)[s] = p[s]
           /\ SlotOf[e] \notin ListSlot => Profile!Apply(p, e)[SlotOf[e]] = <<record[e].text>>
           /\ SlotOf[e] \in ListSlot =>
                /\ Profile!ToSet(Profile!Apply(p, e)[SlotOf[e]]) =
                       Profile!ToSet(p[SlotOf[e]]) \union {record[e].text}
                /\ Profile!IsInjective(p[SlotOf[e]])
                       => Profile!IsInjective(Profile!Apply(p, e)[SlotOf[e]])
<1> DEFINE s == SlotOf[e]
           t == record[e].text
<1>1. s \in Profile!Slot /\ t \in UserValue /\ p[s] \in Seq(UserValue)
  BY DEF Profile!Slot, UserTyped
<1>2. CASE s \notin ListSlot
  <2>1. Profile!Apply(p, e) = [p EXCEPT ![s] = <<t>>]
    BY <1>2 DEF Profile!Apply
  <2>2. <<t>> \in Seq(UserValue)
    BY <1>1
  <2> HIDE DEF s, t
  <2>3. /\ Profile!Apply(p, e) \in [Profile!Slot -> Seq(UserValue)]
        /\ Profile!Apply(p, e)[s] = <<t>>
        /\ \A r \in Profile!Slot \ {s} : Profile!Apply(p, e)[r] = p[r]
    BY <1>1, <2>1, <2>2
  <2> QED BY <1>2, <2>3 DEF s, t
<1>3. CASE s \in ListSlot /\ t \in Profile!ToSet(p[s])
  BY <1>3 DEF Profile!Apply
<1>4. CASE s \in ListSlot /\ t \notin Profile!ToSet(p[s])
  <2>1. Profile!Apply(p, e) = [p EXCEPT ![s] = Append(@, t)]
    BY <1>4 DEF Profile!Apply
  <2> HIDE DEF s, t
  <2> DEFINE q == Append(p[s], t)
  <2>2. /\ q \in Seq(UserValue) /\ Len(q) = Len(p[s]) + 1 /\ q[Len(p[s]) + 1] = t
        /\ \A i \in 1..Len(p[s]) : q[i] = p[s][i]
    BY <1>1, AppendProperties
  <2>3. Len(p[s]) \in Nat /\ DOMAIN p[s] = 1..Len(p[s]) /\ DOMAIN q = 1..(Len(p[s]) + 1)
    BY <1>1, <2>2, LenProperties
  <2>4. Profile!Apply(p, e) \in [Profile!Slot -> Seq(UserValue)] /\ Profile!Apply(p, e)[s] = q
        /\ \A r \in Profile!Slot \ {s} : Profile!Apply(p, e)[r] = p[r]
    BY <1>1, <2>1, <2>2
  <2> HIDE DEF q
  <2>5. Profile!ToSet(q) = Profile!ToSet(p[s]) \union {t}
    BY <2>2, <2>3 DEF Profile!ToSet
  <2>6. ASSUME Profile!IsInjective(p[s]) PROVE Profile!IsInjective(q)
    <3> SUFFICES ASSUME NEW i \in DOMAIN q, NEW j \in DOMAIN q, q[i] = q[j] PROVE i = j
      BY DEF Profile!IsInjective
    <3>1. CASE i \in 1..Len(p[s]) /\ j \in 1..Len(p[s])
      BY <2>2, <2>3, <2>6, <3>1 DEF Profile!IsInjective
    <3>2. \A k \in 1..Len(p[s]) : q[k] # t
      BY <1>4, <2>2, <2>3 DEF Profile!ToSet
    <3>3. i = Len(p[s]) + 1 \/ i \in 1..Len(p[s])
      BY <2>3
    <3>4. j = Len(p[s]) + 1 \/ j \in 1..Len(p[s])
      BY <2>3
    <3> QED BY <2>2, <3>1, <3>2, <3>3, <3>4
  <2> QED BY <1>4, <2>4, <2>5, <2>6 DEF s, t
<1> QED BY <1>2, <1>3, <1>4

\* Entries applied from the oldest to the newest.
LEMMA UserAppliesAll ==
    ASSUME UserTyped, NEW S, S \subseteq Signal, NEW ranks \in Profile!OldestFirst(S),
           Cardinality(S) \in Nat
    PROVE  /\ Profile!Applied(ranks) \in [Profile!Slot -> Seq(UserValue)]
           /\ \A s \in Profile!Slot :
                LET held == {e \in S : SlotOf[e] = s}
                IN  /\ held = {} => Profile!Applied(ranks)[s] = slots[s]
                    /\ held # {} /\ s \notin ListSlot =>
                         \E e \in Signal : UserIsNewest(e, held) /\
                             Profile!Applied(ranks)[s] = <<record[e].text>>
                    /\ s \in ListSlot =>
                         /\ Profile!ToSet(Profile!Applied(ranks)[s]) =
                                Profile!ToSet(slots[s]) \union {record[e].text : e \in held}
                         /\ Profile!IsInjective(slots[s])
                                => Profile!IsInjective(Profile!Applied(ranks)[s])
<1> DEFINE N == Cardinality(S)
           V == [Profile!Slot -> Seq(UserValue)]
<1>1. /\ ranks \in [1..N -> S] /\ S = {ranks[i] : i \in 1..N}
      /\ \A i, j \in 1..N : i < j => record[ranks[i]].at < record[ranks[j]].at
  BY UserCardinality DEF Profile!OldestFirst, Profile!ToSet
<1>2. ranks \in Seq(S) /\ Len(ranks) = N /\ N \in Nat
  <2>0. N \in Nat
    OBVIOUS
  <2>1. ranks \in Seq(S)
    BY <1>1, <2>0, SeqDef
  <2> QED BY <1>1, <2>1, <2>0, LenProperties
<1> HIDE DEF N
<1> DEFINE P(f) == [n \in 0..Len(ranks) |->
                       IF n = 0 THEN slots ELSE Profile!Apply(f[n - 1], ranks[n])]
           shown == CHOOSE f : f = P(f)
           step == [x \in (1..N) \X V |-> Profile!Apply(x[2], ranks[x[1]])]
<1>3. Profile!Applied(ranks) = shown[N]
  BY <1>2 DEF Profile!Applied
<1>4. \A p \in V, i \in 1..N : Profile!Apply(p, ranks[i]) \in V
  BY <1>1, UserApplies
<1>5. slots \in V
  BY DEF UserTyped
<1>6. \E f : f = P(f)
  <2>1. step \in [(1..N) \X V -> V]
    BY <1>4
  <2>2. PICK f : Evidence!Follows(f, N, V, slots, step)
    <3> HIDE DEF step, V
    <3> QED BY <1>2, <1>5, <2>1, Evidence!Recursion
  <2>3. \A n \in 1..N : f[n] = Profile!Apply(f[n - 1], ranks[n])
    <3> SUFFICES ASSUME NEW n \in 1..N PROVE f[n] = Profile!Apply(f[n - 1], ranks[n])
      OBVIOUS
    <3>1. n - 1 \in 0..N
      BY <1>2
    <3>2. f[n - 1] \in V
      BY <2>2, <3>1 DEF Evidence!Follows
    <3> HIDE DEF V
    <3> QED BY <2>2, <3>2 DEF Evidence!Follows
  <2>4. \A n \in 0..N : f[n] = IF n = 0 THEN slots ELSE Profile!Apply(f[n - 1], ranks[n])
    <3>1. \A n \in 0..N : n = 0 \/ n \in 1..N
      BY <1>2
    <3> QED BY <2>2, <2>3, <3>1 DEF Evidence!Follows
  <2> HIDE DEF V
  <2>5. f = [n \in 0..N |-> f[n]]
    BY <2>2 DEF Evidence!Follows
  <2>6. f = P(f)
    BY <1>2, <2>4, <2>5
  <2> QED BY <2>6
<1>7. shown = P(shown)
  <2> HIDE DEF P
  <2> QED BY <1>6, Zenon
<1> HIDE DEF shown
<1>8. shown[0] = slots /\ \A n \in 1..N : shown[n] = Profile!Apply(shown[n - 1], ranks[n])
  <2>1. /\ P(shown)[0] = slots
        /\ \A n \in 1..N : P(shown)[n] = Profile!Apply(shown[n - 1], ranks[n])
    BY <1>2
  <2> HIDE DEF P
  <2> QED BY <1>7, <2>1
<1> HIDE DEF P, step
<1> DEFINE held(n, s) == {e \in S : SlotOf[e] = s /\ \E i \in 1..n : e = ranks[i]}
           G(n) == /\ shown[n] \in V
                   /\ \A s \in Profile!Slot :
                        /\ held(n, s) = {} => shown[n][s] = slots[s]
                        /\ held(n, s) # {} /\ s \notin ListSlot =>
                             \E e \in Signal :
                                 UserIsNewest(e, held(n, s)) /\ shown[n][s] = <<record[e].text>>
                        /\ s \in ListSlot =>
                             /\ Profile!ToSet(shown[n][s]) = Profile!ToSet(slots[s])
                                    \union {record[e].text : e \in held(n, s)}
                             /\ Profile!IsInjective(slots[s]) => Profile!IsInjective(shown[n][s])
           T == {n \in 0..N : G(n)}
<1>9. 0 \in T
  <2>1. \A s \in Profile!Slot : held(0, s) = {}
    OBVIOUS
  <2> HIDE DEF held, V
  <2> QED BY <1>2, <1>5, <1>8, <2>1
<1>10. ASSUME NEW n \in 1..N, n - 1 \in T PROVE n \in T
  <2> DEFINE e == ranks[n]
  <2>1. /\ e \in S /\ e \in Signal /\ shown[n - 1] \in V
        /\ shown[n] = Profile!Apply(shown[n - 1], e) /\ SlotOf[e] \in Profile!Slot
    BY <1>1, <1>8, <1>10 DEF Profile!Slot
  <2>2. \A s \in Profile!Slot : s # SlotOf[e] => held(n, s) = held(n - 1, s)
    <3>1. \A i \in 1..n : i = n \/ i \in 1..(n - 1)
      BY <1>2
    <3>2. \A i \in 1..(n - 1) : i \in 1..n
      BY <1>2
    <3> QED BY <3>1, <3>2
  <2>3. held(n, SlotOf[e]) = held(n - 1, SlotOf[e]) \union {e}
    <3>1. \A i \in 1..n : i = n \/ i \in 1..(n - 1)
      BY <1>2
    <3>2. \A i \in 1..(n - 1) : i \in 1..n
      BY <1>2
    <3>3. n \in 1..n
      BY <1>2
    <3> QED BY <2>1, <3>1, <3>2, <3>3
  <2>4. UserIsNewest(e, held(n, SlotOf[e]))
    <3> SUFFICES ASSUME NEW i \in 1..n, ranks[i] \in S
                 PROVE  record[ranks[i]].at <= record[e].at
      BY <2>1, <2>3 DEF UserIsNewest
    <3>1. i \in 1..N /\ (i = n \/ i < n) /\ ranks[i] \in Signal
      BY <1>2
    <3>2. record[ranks[i]].at \in Nat /\ record[e].at \in Nat
      BY <2>1 DEF UserTyped
    <3>3. CASE i < n
      <4>1. record[ranks[i]].at < record[ranks[n]].at
        BY <1>1, <3>1, <3>3
      <4> QED BY <3>2, <4>1
    <3>4. CASE i = n
      BY <3>2, <3>4
    <3> QED BY <3>1, <3>3, <3>4
  <2> HIDE DEF e
  <2>5. /\ shown[n] \in V
        /\ \A s \in Profile!Slot \ {SlotOf[e]} : shown[n][s] = shown[n - 1][s]
        /\ SlotOf[e] \notin ListSlot => shown[n][SlotOf[e]] = <<record[e].text>>
        /\ SlotOf[e] \in ListSlot =>
             /\ Profile!ToSet(shown[n][SlotOf[e]]) = Profile!ToSet(shown[n - 1][SlotOf[e]])
                    \union {record[e].text}
             /\ Profile!IsInjective(shown[n - 1][SlotOf[e]])
                    => Profile!IsInjective(shown[n][SlotOf[e]])
    <3> DEFINE p == shown[n - 1]
    <3>1. /\ p \in [Profile!Slot -> Seq(UserValue)] /\ e \in Signal
          /\ shown[n] = Profile!Apply(p, e)
      BY <2>1
    <3> HIDE DEF p
    <3>2. /\ Profile!Apply(p, e) \in [Profile!Slot -> Seq(UserValue)]
          /\ \A s \in Profile!Slot \ {SlotOf[e]} : Profile!Apply(p, e)[s] = p[s]
          /\ SlotOf[e] \notin ListSlot => Profile!Apply(p, e)[SlotOf[e]] = <<record[e].text>>
          /\ SlotOf[e] \in ListSlot =>
               /\ Profile!ToSet(Profile!Apply(p, e)[SlotOf[e]]) =
                      Profile!ToSet(p[SlotOf[e]]) \union {record[e].text}
               /\ Profile!IsInjective(p[SlotOf[e]])
                      => Profile!IsInjective(Profile!Apply(p, e)[SlotOf[e]])
      BY <3>1, UserApplies
    <3> QED BY <3>1, <3>2 DEF p
  <2> HIDE DEF e, held, V
  <2>6. G(n - 1)
    BY <1>10
  <2>7. \A s \in Profile!Slot : s # SlotOf[e] =>
          /\ held(n, s) = {} => shown[n][s] = slots[s]
          /\ held(n, s) # {} /\ s \notin ListSlot =>
               \E x \in Signal : UserIsNewest(x, held(n, s)) /\ shown[n][s] = <<record[x].text>>
          /\ s \in ListSlot =>
               /\ Profile!ToSet(shown[n][s]) = Profile!ToSet(slots[s])
                      \union {record[x].text : x \in held(n, s)}
               /\ Profile!IsInjective(slots[s]) => Profile!IsInjective(shown[n][s])
    BY <2>2, <2>5, <2>6
  <2>8. LET s == SlotOf[e] IN
          /\ held(n, s) = {} => shown[n][s] = slots[s]
          /\ held(n, s) # {} /\ s \notin ListSlot =>
               \E x \in Signal : UserIsNewest(x, held(n, s)) /\ shown[n][s] = <<record[x].text>>
          /\ s \in ListSlot =>
               /\ Profile!ToSet(shown[n][s]) = Profile!ToSet(slots[s])
                      \union {record[x].text : x \in held(n, s)}
               /\ Profile!IsInjective(slots[s]) => Profile!IsInjective(shown[n][s])
    <3> DEFINE s == SlotOf[e]
               h == held(n - 1, s)
    <3>1. held(n, s) # {} /\ held(n, s) = h \union {e} /\ s \in Profile!Slot /\ e \in Signal
      BY <2>1, <2>3
    <3>2. s \in ListSlot =>
            /\ Profile!ToSet(shown[n - 1][s]) = Profile!ToSet(slots[s])
                   \union {record[x].text : x \in h}
            /\ Profile!IsInjective(slots[s]) => Profile!IsInjective(shown[n - 1][s])
      BY <2>1, <2>6
    <3>3. {record[x].text : x \in h \union {e}} = {record[x].text : x \in h} \union {record[e].text}
      OBVIOUS
    <3> HIDE DEF s, h
    <3>4. ASSUME s \in ListSlot
          PROVE  /\ Profile!ToSet(shown[n][s]) = Profile!ToSet(slots[s])
                        \union {record[x].text : x \in held(n, s)}
                 /\ Profile!IsInjective(slots[s]) => Profile!IsInjective(shown[n][s])
      BY <2>5, <3>1, <3>2, <3>3, <3>4 DEF s
    <3>5. ASSUME s \notin ListSlot
          PROVE  \E x \in Signal : UserIsNewest(x, held(n, s)) /\ shown[n][s] = <<record[x].text>>
      BY <2>4, <2>5, <3>1, <3>5 DEF s
    <3> QED BY <3>1, <3>4, <3>5 DEF s
  <2>9. G(n)
    BY <2>5, <2>7, <2>8
  <2> QED BY <2>9
<1> HIDE DEF T
<1>11. N \in T
  BY <1>2, <1>9, <1>10, Evidence!UpToAll
<1>12. G(N)
  BY <1>11 DEF T
<1>13. \A s \in Profile!Slot : held(N, s) = {e \in S : SlotOf[e] = s}
  BY <1>1
<1> HIDE DEF held
<1> QED BY <1>3, <1>12, <1>13

\* What fits after an entry was written or deleted fitted before.
LEMMA UserFitsBefore ==
    ASSUME UserTyped, NEW e \in Signal, NEW r, record' = [record EXCEPT ![e] = r],
           moved' = moved \union {e}, Profile!Fits'
    PROVE  Profile!Fits
<1> SUFFICES ASSUME NEW name \in {"l1", "l3"}
             PROVE  Cardinality(Profile!Stored(name)
                        \union (moved \intersect Profile!Layer(name))) <= PerLayer
  BY UserCardinality DEF Profile!Fits
<1> DEFINE A == Profile!Stored(name) \union (moved \intersect Profile!Layer(name))
           B == (Profile!Stored(name) \union (moved \intersect Profile!Layer(name)))'
<1>1. A \subseteq B
  BY DEF Profile!Stored, Profile!Layer, UserTyped
<1>2. B \subseteq Signal
  BY UserAssumption DEF Profile!Stored, Profile!Layer
<1>3. IsFiniteSet(B) /\ Cardinality(B) <= PerLayer
  <2>1. IsFiniteSet(B)
    <3> HIDE DEF B
    <3> QED BY <1>2, UserAssumption, FS_Subset
  <2>2. Cardinality(B) <= PerLayer
    BY UserCardinality DEF Profile!Fits
  <2> QED BY <2>1, <2>2
<1> HIDE DEF A, B
<1>4. Cardinality(A) <= Cardinality(B) /\ Cardinality(A) \in Nat /\ Cardinality(B) \in Nat
  BY <1>1, <1>3, FS_Subset, FS_CardinalityType
<1>5. Cardinality(A) <= PerLayer
  BY <1>3, <1>4, UserAssumption
<1> QED BY <1>5 DEF A

\* A slot that is not touched shows what it showed.
LEMMA UserTouchKeeps ==
    ASSUME UserIInv, NEW e \in Signal, NEW r, record' = [record EXCEPT ![e] = r],
           moved' = moved \union {e}, UNCHANGED <<reading, slots, sources>>
    PROVE  UserAssembled'
<1> SUFFICES ASSUME Profile!Fits', NEW s \in Profile!Slot, UserUntouched(s)'
             PROVE  /\ (reading = "l1" => slots[s] = <<>>)'
                    /\ (reading = "l3" => UserShows(s, UserRaw(s), UserRaw(s)))'
                    /\ (reading = "done" => UserShows(s, Profile!Holding(s), UserBest(s)))'
  BY DEF UserAssembled, Profile!Slot
<1>1. Profile!Fits
  BY UserFitsBefore DEF UserIInv
<1>2. UserUntouched(s) /\ SlotOf[e] # s
  BY DEF UserUntouched
<1>3. \A x \in Signal : SlotOf[x] = s => record'[x] = record[x]
  BY <1>2 DEF UserIInv, UserTyped
<1>4. Profile!Holding(s)' = Profile!Holding(s)
  BY <1>3 DEF Profile!Holding
<1>5. UserRaw(s)' = UserRaw(s) /\ UserBest(s)' = UserBest(s)
  BY <1>4 DEF UserRaw, UserBest
<1>6. \A x \in Profile!Holding(s) : x \in Signal /\ record'[x] = record[x]
  BY <1>3 DEF Profile!Holding
<1>7. ASSUME NEW H, NEW B, H \subseteq Profile!Holding(s), B \subseteq Profile!Holding(s),
             UserShows(s, H, B)
      PROVE  /\ H \subseteq sources
             /\ H = {} => slots[s] = <<>>
             /\ H # {} /\ s \notin ListSlot =>
                  \E x \in Signal : /\ x \in B /\ \A f \in B : record'[f].at <= record'[x].at
                                    /\ slots[s] = <<record'[x].text>>
             /\ s \in ListSlot => Profile!ToSet(slots[s]) = {record'[x].text : x \in H} /\
                    Profile!IsInjective(slots[s])
  <2>1. {record'[x].text : x \in H} = {record[x].text : x \in H}
    BY <1>6, <1>7
  <2>2. \A x \in Signal : UserIsNewest(x, B) =>
           /\ x \in B /\ \A f \in B : record'[f].at <= record'[x].at
           /\ record'[x].text = record[x].text
    BY <1>6, <1>7 DEF UserIsNewest
  <2> QED BY <1>7, <2>1, <2>2 DEF UserShows
<1>8. /\ reading = "l1" => slots[s] = <<>>
      /\ reading = "l3" => UserShows(s, UserRaw(s), UserRaw(s))
      /\ reading = "done" => UserShows(s, Profile!Holding(s), UserBest(s))
  BY <1>1, <1>2 DEF UserIInv, UserAssembled
<1>9. UserRaw(s) \subseteq Profile!Holding(s) /\ UserBest(s) \subseteq Profile!Holding(s)
  BY DEF UserRaw, UserBest
<1>10. ASSUME reading = "l3" PROVE UserShows(s, UserRaw(s), UserRaw(s))'
  <2> DEFINE H == UserRaw(s)
  <2>1. UserShows(s, H, H) /\ H \subseteq Profile!Holding(s)
    BY <1>8, <1>9, <1>10
  <2>2. UserRaw(s)' = H
    BY <1>5
  <2> HIDE DEF H
  <2>3. /\ H \subseteq sources
        /\ H = {} => slots[s] = <<>>
        /\ H # {} /\ s \notin ListSlot =>
             \E x \in Signal : /\ x \in H /\ \A f \in H : record'[f].at <= record'[x].at
                               /\ slots[s] = <<record'[x].text>>
        /\ s \in ListSlot => Profile!ToSet(slots[s]) = {record'[x].text : x \in H} /\
               Profile!IsInjective(slots[s])
    BY <1>7, <2>1
  <2>4. slots' = slots /\ sources' = sources
    OBVIOUS
  <2> QED BY <2>2, <2>3, <2>4 DEF UserShows, UserIsNewest
<1>11. ASSUME reading = "done" PROVE UserShows(s, Profile!Holding(s), UserBest(s))'
  <2> DEFINE H == Profile!Holding(s)
             B == UserBest(s)
  <2>1. /\ UserShows(s, H, B) /\ H \subseteq Profile!Holding(s)
        /\ B \subseteq Profile!Holding(s)
    BY <1>8, <1>9, <1>11
  <2>2. Profile!Holding(s)' = H /\ UserBest(s)' = B
    BY <1>4, <1>5
  <2> HIDE DEF H, B
  <2>3. /\ H \subseteq sources
        /\ H = {} => slots[s] = <<>>
        /\ H # {} /\ s \notin ListSlot =>
             \E x \in Signal : /\ x \in B /\ \A f \in B : record'[f].at <= record'[x].at
                               /\ slots[s] = <<record'[x].text>>
        /\ s \in ListSlot => Profile!ToSet(slots[s]) = {record'[x].text : x \in H} /\
               Profile!IsInjective(slots[s])
    BY <1>7, <2>1
  <2>4. slots' = slots /\ sources' = sources
    OBVIOUS
  <2> QED BY <2>2, <2>3, <2>4 DEF UserShows, UserIsNewest
<1> QED BY <1>8, <1>10, <1>11

\* Within its limit a layer is read as a whole.
LEMMA UserLayerIsWhole ==
    ASSUME UserTyped, Profile!Fits, NEW name \in {"l1", "l3"}
    PROVE  Profile!get_layer(name) = Profile!Stored(name)
<1> DEFINE S == Profile!Stored(name)
<1>1. S \subseteq Signal /\ IsFiniteSet(S)
  <2>1. S \subseteq Signal
    BY UserAssumption DEF Profile!Stored, Profile!Layer
  <2> QED BY <2>1, UserAssumption, FS_Subset
<1>2. Cardinality(S) <= PerLayer /\ Cardinality(S) \in Nat
  <2> DEFINE B == S \union (moved \intersect Profile!Layer(name))
  <2>1. B \subseteq Signal /\ S \subseteq B
    BY <1>1 DEF UserTyped
  <2>2. Cardinality(B) <= PerLayer
    BY UserCardinality DEF Profile!Fits
  <2> HIDE DEF B, S
  <2>3. IsFiniteSet(B) /\ Cardinality(B) \in Nat /\ Cardinality(S) <= Cardinality(B)
    BY <2>1, UserAssumption, FS_Subset, FS_CardinalityType
  <2> QED BY <1>1, <2>2, <2>3, FS_CardinalityType, UserAssumption
<1> SUFFICES ASSUME NEW e \in S
             PROVE  Cardinality({f \in S : Weight[f] > Weight[e]}) < PerLayer
  BY UserCardinality DEF Profile!get_layer
<1> DEFINE A == {f \in S : Weight[f] > Weight[e]}
<1>3. A \subseteq S \ {e}
  BY <1>1, UserAssumption
<1> HIDE DEF A, S
<1>4. IsFiniteSet(S \ {e}) /\ Cardinality(S \ {e}) = Cardinality(S) - 1
  BY <1>1, FS_RemoveElement
<1>5. Cardinality(A) <= Cardinality(S \ {e}) /\ Cardinality(A) \in Nat
  BY <1>3, <1>4, FS_Subset, FS_CardinalityType
<1>6. Cardinality(A) < PerLayer
  BY <1>2, <1>4, <1>5, UserAssumption
<1> QED BY <1>6 DEF A, S

\* The first layer shows the raw signals, the second those and the promoted ones.
LEMMA UserReadKeeps ==
    ASSUME UserIInv, NEW name \in {"l1", "l3"}, Profile!ReadLayer(name)
    PROVE  UserTyped' /\ UserAssembled'
<1> DEFINE S == Profile!get_layer(name)
<1>1. S \subseteq Signal /\ IsFiniteSet(S) /\ Cardinality(S) \in Nat
  <2>1. S \subseteq Signal
    BY UserAssumption DEF Profile!get_layer, Profile!Stored, Profile!Layer
  <2> QED BY <2>1, UserAssumption, FS_Subset, FS_CardinalityType
<1>2. PICK ranks \in Profile!OldestFirst(S) : slots' = Profile!Applied(ranks)
  BY DEF Profile!ReadLayer
<1>3. UserTyped
  BY DEF UserIInv
<1> HIDE DEF S
<1>4. /\ slots' \in [Profile!Slot -> Seq(UserValue)]
      /\ \A s \in Profile!Slot :
            LET held == {e \in S : SlotOf[e] = s}
            IN  /\ held = {} => slots'[s] = slots[s]
                /\ held # {} /\ s \notin ListSlot =>
                     \E e \in Signal : UserIsNewest(e, held) /\ slots'[s] = <<record[e].text>>
                /\ s \in ListSlot =>
                     /\ Profile!ToSet(slots'[s]) = Profile!ToSet(slots[s])
                            \union {record[e].text : e \in held}
                     /\ Profile!IsInjective(slots[s]) => Profile!IsInjective(slots'[s])
  <2> DEFINE new == Profile!Applied(ranks)
  <2>1. /\ new \in [Profile!Slot -> Seq(UserValue)]
        /\ \A s \in Profile!Slot :
            LET held == {e \in S : SlotOf[e] = s}
            IN  /\ held = {} => new[s] = slots[s]
                /\ held # {} /\ s \notin ListSlot =>
                     \E e \in Signal : UserIsNewest(e, held) /\ new[s] = <<record[e].text>>
                /\ s \in ListSlot =>
                     /\ Profile!ToSet(new[s]) = Profile!ToSet(slots[s])
                            \union {record[e].text : e \in held}
                     /\ Profile!IsInjective(slots[s]) => Profile!IsInjective(new[s])
    BY <1>1, <1>3, UserAppliesAll
  <2>2. slots' = new
    BY <1>2
  <2> HIDE DEF new
  <2> QED BY <2>1, <2>2
<1>5. sources' = sources \union S /\ UNCHANGED <<record, updates, moved>> /\ reading = name
      /\ reading' = IF name = "l1" THEN "l3" ELSE "done"
  BY DEF Profile!ReadLayer, S
<1>6. UserTyped'
  BY <1>1, <1>3, <1>4, <1>5 DEF UserTyped, Profile!Slot
<1> SUFFICES ASSUME Profile!Fits', NEW s \in Profile!Slot, UserUntouched(s)'
             PROVE  /\ (reading = "l1" => slots[s] = <<>>)'
                    /\ (reading = "l3" => UserShows(s, UserRaw(s), UserRaw(s)))'
                    /\ (reading = "done" => UserShows(s, Profile!Holding(s), UserBest(s)))'
  BY <1>6 DEF UserAssembled, Profile!Slot
<1>7. Profile!Fits /\ UserUntouched(s)
  BY <1>5 DEF Profile!Fits, UserUntouched, Profile!Stored, Profile!Layer
<1>8. S = Profile!Stored(name)
  BY <1>3, <1>7, UserLayerIsWhole DEF S
<1> DEFINE held == {e \in S : SlotOf[e] = s}
<1>9. /\ held = {} => slots'[s] = slots[s]
      /\ held # {} /\ s \notin ListSlot =>
           \E e \in Signal : UserIsNewest(e, held) /\ slots'[s] = <<record[e].text>>
      /\ s \in ListSlot =>
           /\ Profile!ToSet(slots'[s]) = Profile!ToSet(slots[s])
                  \union {record[e].text : e \in held}
           /\ Profile!IsInjective(slots[s]) => Profile!IsInjective(slots'[s])
  BY <1>4
<1>10. held \subseteq sources'
  BY <1>5
<1>11. ASSUME name = "l1" PROVE UserShows(s, UserRaw(s), UserRaw(s))'
  <2>1. slots[s] = <<>>
    BY <1>5, <1>7, <1>11 DEF UserIInv, UserAssembled
  <2>2. held = UserRaw(s)' /\ held = UserRaw(s)
    BY <1>5, <1>8, <1>11 DEF UserRaw, Profile!Holding, Profile!Stored, Profile!Layer
  <2>3. Profile!ToSet(slots[s]) = {} /\ Profile!IsInjective(slots[s])
    BY <2>1 DEF Profile!ToSet, Profile!IsInjective
  <2> HIDE DEF held
  <2>4. \A e : UserIsNewest(e, held) => e \in held /\ \A f \in held : record[f].at <= record[e].at
    BY DEF UserIsNewest
  <2> QED BY <1>5, <1>9, <1>10, <2>1, <2>2, <2>3, <2>4 DEF UserShows, UserIsNewest
<1>12. ASSUME name = "l3" PROVE UserShows(s, Profile!Holding(s), UserBest(s))'
  <2>1. UserShows(s, UserRaw(s), UserRaw(s))
    BY <1>5, <1>7, <1>12 DEF UserIInv, UserAssembled
  <2>2. held = Profile!Holding(s) \intersect Promoted
    BY <1>8, <1>12, UserAssumption DEF Profile!Holding, Profile!Stored, Profile!Layer
  <2>3. Profile!Holding(s)' = Profile!Holding(s) /\ UserBest(s)' = UserBest(s)
    BY <1>5 DEF Profile!Holding, UserBest
  <2>4. Profile!Holding(s) = UserRaw(s) \union held
    BY <2>2 DEF UserRaw
  <2>5. UserBest(s) = IF held # {} THEN held ELSE UserRaw(s)
    BY <2>2, <2>4 DEF UserBest, UserRaw
  <2> DEFINE plain == UserRaw(s)
  <2>6. \A B : \A e : UserIsNewest(e, B) <=> e \in B /\ \A f \in B : record[f].at <= record[e].at
    BY DEF UserIsNewest
  <2>7. /\ plain \subseteq sources
        /\ plain = {} => slots[s] = <<>>
        /\ plain # {} /\ s \notin ListSlot =>
             \E e \in Signal : UserIsNewest(e, plain) /\ slots[s] = <<record[e].text>>
        /\ s \in ListSlot => Profile!ToSet(slots[s]) = {record[e].text : e \in plain} /\
               Profile!IsInjective(slots[s])
    BY <2>1 DEF UserShows
  <2>8. /\ Profile!Holding(s)' = plain \union held
        /\ UserBest(s)' = (IF held # {} THEN held ELSE plain)
    BY <2>3, <2>4, <2>5
  <2> HIDE DEF held, plain
  <2>9. s \in ListSlot =>
           /\ Profile!ToSet(slots'[s]) = {record[e].text : e \in plain \union held}
           /\ Profile!IsInjective(slots'[s])
    BY <1>9, <2>7
  <2>10. plain \union held \subseteq sources'
    BY <1>5, <1>10, <2>7
  <2>11. plain \union held = {} => slots'[s] = <<>>
    BY <1>9, <2>7
  <2>12. plain \union held # {} /\ s \notin ListSlot =>
           \E e \in Signal : UserIsNewest(e, UserBest(s)') /\ slots'[s] = <<record[e].text>>
    BY <1>9, <2>7, <2>8
  <2> QED BY <1>5, <2>6, <2>8, <2>9, <2>10, <2>11, <2>12 DEF UserShows, UserIsNewest
<1> QED BY <1>5, <1>11, <1>12

LEMMA UserInductive == UserIInv /\ [Profile!Next]_(Profile!vars) => UserIInv'
<1> SUFFICES ASSUME UserIInv, [Profile!Next]_(Profile!vars) PROVE UserIInv'
  OBVIOUS
<1>1. ASSUME NEW e \in Signal, NEW t \in Text, Profile!Put(e, t) PROVE UserIInv'
  <2>1. record' = [record EXCEPT ![e] = [text |-> t, at |-> updates + 1]]
        /\ updates' = updates + 1
        /\ [text |-> t, at |-> updates + 1] \in [text : UserValue, at : Nat]
    BY <1>1 DEF Profile!Put, UserIInv, UserTyped, UserValue
  <2>3. UserTyped'
    BY <1>1, <2>1 DEF Profile!Put, UserIInv, UserTyped, Profile!Slot
  <2>4. UserDistinct'
    <3>1. /\ record'[e].at = updates + 1 /\ updates \in Nat
          /\ \A f \in Signal \ {e} : record'[f] = record[f] /\ record[f].at \in Nat
      BY <2>1 DEF UserIInv, UserTyped
    <3>2. /\ \A f \in Signal : record[f].at <= updates
          /\ \A f, g \in Signal : record[f].at = record[g].at /\ record[f].at > 0 => f = g
      BY DEF UserIInv, UserDistinct
    <3>3. \A f \in Signal \ {e} : record'[f].at # record'[e].at
      BY <3>1, <3>2
    <3>4. \A f \in Signal : record'[f].at <= updates'
      BY <2>1, <3>1, <3>2
    <3>5. \A f, g \in Signal : record'[f].at = record'[g].at /\ record'[f].at > 0 => f = g
      <4> SUFFICES ASSUME NEW f \in Signal, NEW g \in Signal, record'[f].at = record'[g].at,
                          record'[f].at > 0
                   PROVE  f = g
        OBVIOUS
      <4> QED BY <3>1, <3>2, <3>3
    <3> QED BY <3>4, <3>5 DEF UserDistinct
  <2>2. UserAssembled'
    BY <1>1, <2>1, UserTouchKeeps DEF Profile!Put
  <2> QED BY <2>2, <2>3, <2>4 DEF UserIInv
<1>2. ASSUME NEW e \in Signal, Profile!delete_user_model_entry(e) PROVE UserIInv'
  <2>1. record' = [record EXCEPT ![e] = [text |-> Profile!Absent, at |-> 0]]
        /\ [text |-> Profile!Absent, at |-> 0] \in [text : UserValue, at : Nat]
    BY <1>2 DEF Profile!delete_user_model_entry, UserValue
  <2>3. UserTyped'
    BY <1>2, <2>1 DEF Profile!delete_user_model_entry, UserIInv, UserTyped, Profile!Slot
  <2>4. UserDistinct'
    <3>1. /\ record'[e].at = 0 /\ updates \in Nat /\ updates' = updates
          /\ \A f \in Signal \ {e} : record'[f] = record[f]
      BY <1>2, <2>1 DEF Profile!delete_user_model_entry, UserIInv, UserTyped
    <3> QED BY <3>1 DEF UserIInv, UserDistinct
  <2>2. UserAssembled'
    BY <1>2, <2>1, UserTouchKeeps DEF Profile!delete_user_model_entry
  <2> QED BY <2>2, <2>3, <2>4 DEF UserIInv
<1>3. CASE Profile!Assemble
  BY <1>3 DEF Profile!Assemble, UserIInv, UserTyped, UserDistinct, UserAssembled, UserValue,
     Profile!Slot
<1>4. ASSUME NEW name \in {"l1", "l3"}, Profile!ReadLayer(name) PROVE UserIInv'
  <2>1. UserDistinct'
    BY <1>4 DEF Profile!ReadLayer, UserIInv, UserDistinct
  <2> QED BY <1>4, <2>1, UserReadKeeps DEF UserIInv
<1>5. CASE Profile!Use
  BY <1>5 DEF Profile!Use, UserIInv, UserTyped, UserDistinct, UserAssembled, Profile!Slot
<1>6. CASE UNCHANGED Profile!vars
  <2>1. /\ UserTyped' /\ UserDistinct' /\ (Profile!Fits' <=> Profile!Fits)
        /\ reading' = reading
    BY <1>6 DEF Profile!vars, UserIInv, UserTyped, UserDistinct, Profile!Fits,
       Profile!Stored, Profile!Layer, Profile!Slot
  <2>2. UserAssembled'
    <3> SUFFICES ASSUME Profile!Fits, NEW s \in Profile!Slot, UserUntouched(s)'
                 PROVE  /\ (reading = "l1" => slots[s] = <<>>)'
                        /\ (reading = "l3" => UserShows(s, UserRaw(s), UserRaw(s)))'
                        /\ (reading = "done" => UserShows(s, Profile!Holding(s), UserBest(s)))'
      BY <2>1 DEF UserAssembled, Profile!Slot
    <3>1. UserUntouched(s)
      BY <1>6 DEF Profile!vars, UserUntouched
    <3>2. /\ reading = "l1" => slots[s] = <<>>
          /\ reading = "l3" => UserShows(s, UserRaw(s), UserRaw(s))
          /\ reading = "done" => UserShows(s, Profile!Holding(s), UserBest(s))
      BY <3>1 DEF UserIInv, UserAssembled
    <3> QED BY <1>6, <3>2
               DEF Profile!vars, UserShows, UserRaw, UserBest, Profile!Holding, UserIsNewest
  <2> QED BY <2>1, <2>2 DEF UserIInv
<1> QED BY <1>1, <1>2, <1>3, <1>4, <1>5, <1>6 DEF Profile!Next

\* Nothing is written twice in a list without repetition.
LEMMA UserDistinctly ==
    ASSUME NEW T, NEW q \in Seq(T), Profile!IsInjective(q)
    PROVE  Len(q) = Cardinality(Profile!ToSet(q))
<1>1. Len(q) \in Nat /\ q \in [1..Len(q) -> T] /\ DOMAIN q = 1..Len(q)
  BY LenProperties
<1>2. q \in Bijection(1..Len(q), Profile!ToSet(q))
  BY <1>1 DEF Bijection, Injection, Surjection, IsInjective, Profile!IsInjective,
     Profile!ToSet
<1>3. IsFiniteSet(1..Len(q)) /\ Cardinality(1..Len(q)) = Len(q)
  BY <1>1, FS_Interval
<1>4. Cardinality(1..Len(q)) = Cardinality(Profile!ToSet(q))
  <2> DEFINE S == 1..Len(q)
             U == Profile!ToSet(q)
  <2>1. q \in Bijection(S, U) /\ IsFiniteSet(S)
    BY <1>2, <1>3
  <2> HIDE DEF S, U
  <2>2. Cardinality(S) = Cardinality(U)
    BY <2>1, FS_Bijection DEF ExistsBijection
  <2> QED BY <2>2 DEF S, U
<1> QED BY <1>3, <1>4

LEMMA UserKept == UserIInv => Profile!ProjectionIsSound
<1> SUFFICES ASSUME UserIInv, reading = "done", Profile!Fits, NEW s \in Profile!Slot,
                    UserUntouched(s)
             PROVE  /\ Profile!Holding(s) \subseteq sources
                    /\ LET said == {record[e].text : e \in Profile!Holding(s)}
                       IN  IF Profile!Holding(s) = {} THEN slots[s] = <<>>
                           ELSE IF s \notin ListSlot
                           THEN slots[s] = <<record[Profile!Newest(UserBest(s))].text>>
                           ELSE Profile!ToSet(slots[s]) = said /\ Len(slots[s]) = Cardinality(said)
  BY UserCardinality DEF Profile!ProjectionIsSound, UserBest, UserUntouched
<1>1. UserShows(s, Profile!Holding(s), UserBest(s))
  BY DEF UserIInv, UserAssembled
<1>2. ASSUME NEW e \in Signal, UserIsNewest(e, UserBest(s))
      PROVE  Profile!Newest(UserBest(s)) = e
  <2>1. \A f \in UserBest(s) : f \in Signal /\ record[f].at > 0 /\ record[f].at \in Nat
    BY DEF UserBest, Profile!Holding, UserIInv, UserTyped
  <2>2. \A f \in UserBest(s) : (\A g \in UserBest(s) : record[g].at <= record[f].at) => f = e
    BY <1>2, <2>1 DEF UserIsNewest, UserIInv, UserDistinct
  <2>3. e \in UserBest(s) /\ \A g \in UserBest(s) : record[g].at <= record[e].at
    BY <1>2 DEF UserIsNewest
  <2> QED BY <2>2, <2>3, Zenon DEF Profile!Newest
<1>3. s \in ListSlot => Len(slots[s]) = Cardinality(Profile!ToSet(slots[s]))
  BY <1>1, UserDistinctly DEF UserShows, UserIInv, UserTyped
<1> QED BY <1>1, <1>2, <1>3 DEF UserShows

(***************************************************************************)
(* A request: every part keeps its own, and none touches another's.        *)
(***************************************************************************)

\* A part that is there has what it proved of itself.
RequestIInv ==
    /\ part = "knowledge" => KnowledgeIInv
    /\ part = "context" => ContextIInv
    /\ part = "streaming" => StreamIInv
    /\ part = "learning" => LearnIInv
    /\ part = "curator" => CurateIInv
    /\ part = "intent" => IntentIInv
    /\ part = "planner" => PlanIInv
    /\ part = "retrieval" => Evidence!IInv
    /\ part = "bundles" => BundleIInv
    /\ part = "chunker" => Splits!EveryWordKept
    /\ part = "profile" => UserIInv
    /\ part = "ingestion" => PagesIInv

\* Each part begins as its own module says.
LEMMA RequestInitially == Init => RequestIInv
BY KnowledgeInitially, ContextInitially, StreamInitially, LearnInitially, CurateInitially,
   IntentInitially, PlanInitially, EvidenceInitially, BundleInitially, TextChunkInitially,
   UserInitially, PagesInitially
   DEF Init, RequestIInv

\* What one part does leaves the others where they are: a step of a request is, for each
\* part, a step of that part or none.
LEMMA RequestPartStays == [Next]_vars => UNCHANGED part
BY DEF Next, vars, knowledgeOnly, contextOnly, streamingOnly, learningOnly, curatorOnly,
       intentOnly, plannerOnly, retrievalOnly, bundlesOnly, chunkerOnly, profileOnly,
       ingestionOnly

LEMMA KnowledgeSteps == [Next]_vars => [Knowledge!Next]_(Knowledge!vars)
BY DEF Next, vars, knowledgeVars, Knowledge!vars, knowledgeOnly, contextOnly,
       streamingOnly, learningOnly, curatorOnly, intentOnly, plannerOnly, retrievalOnly,
       bundlesOnly, chunkerOnly, profileOnly, ingestionOnly

LEMMA ContextSteps == [Next]_vars => [Context!Next]_(Context!vars)
BY DEF Next, vars, contextVars, Context!vars, knowledgeOnly, contextOnly,
       streamingOnly, learningOnly, curatorOnly, intentOnly, plannerOnly, retrievalOnly,
       bundlesOnly, chunkerOnly, profileOnly, ingestionOnly

LEMMA StreamSteps == [Next]_vars => [Streaming!Next]_(Streaming!vars)
BY DEF Next, vars, streamingVars, Streaming!vars, knowledgeOnly, contextOnly,
       streamingOnly, learningOnly, curatorOnly, intentOnly, plannerOnly, retrievalOnly,
       bundlesOnly, chunkerOnly, profileOnly, ingestionOnly

LEMMA LearnSteps == [Next]_vars => [Learns!Next]_(Learns!vars)
BY DEF Next, vars, learningVars, Learns!vars, knowledgeOnly, contextOnly,
       streamingOnly, learningOnly, curatorOnly, intentOnly, plannerOnly, retrievalOnly,
       bundlesOnly, chunkerOnly, profileOnly, ingestionOnly

LEMMA CurateSteps == [Next]_vars => [Curates!Next]_(Curates!vars)
BY DEF Next, vars, curatorVars, Curates!vars, knowledgeOnly, contextOnly,
       streamingOnly, learningOnly, curatorOnly, intentOnly, plannerOnly, retrievalOnly,
       bundlesOnly, chunkerOnly, profileOnly, ingestionOnly

LEMMA IntentSteps == [Next]_vars => [Interprets!Next]_(Interprets!vars)
BY DEF Next, vars, intentVars, Interprets!vars, knowledgeOnly, contextOnly,
       streamingOnly, learningOnly, curatorOnly, intentOnly, plannerOnly, retrievalOnly,
       bundlesOnly, chunkerOnly, profileOnly, ingestionOnly

LEMMA PlanSteps == [Next]_vars => [Plans!Next]_(Plans!vars)
BY DEF Next, vars, plannerVars, Plans!vars, knowledgeOnly, contextOnly,
       streamingOnly, learningOnly, curatorOnly, intentOnly, plannerOnly, retrievalOnly,
       bundlesOnly, chunkerOnly, profileOnly, ingestionOnly

LEMMA EvidenceSteps == [Next]_vars => [Retrieves!Next]_(Retrieves!vars)
BY DEF Next, vars, retrievalVars, Retrieves!vars, knowledgeOnly, contextOnly,
       streamingOnly, learningOnly, curatorOnly, intentOnly, plannerOnly, retrievalOnly,
       bundlesOnly, chunkerOnly, profileOnly, ingestionOnly

LEMMA BundleSteps == [Next]_vars => [Archive!Next]_(Archive!vars)
BY DEF Next, vars, bundlesVars, Archive!vars, knowledgeOnly, contextOnly,
       streamingOnly, learningOnly, curatorOnly, intentOnly, plannerOnly, retrievalOnly,
       bundlesOnly, chunkerOnly, profileOnly, ingestionOnly

LEMMA TextSteps == [Next]_vars => [Splits!Split]_(Splits!splitting)
BY DEF Next, vars, chunkerVars, Splits!splitting, knowledgeOnly, contextOnly,
       streamingOnly, learningOnly, curatorOnly, intentOnly, plannerOnly, retrievalOnly,
       bundlesOnly, chunkerOnly, profileOnly, ingestionOnly

LEMMA UserSteps == [Next]_vars => [Profile!Next]_(Profile!vars)
BY DEF Next, vars, profileVars, Profile!vars, knowledgeOnly, contextOnly,
       streamingOnly, learningOnly, curatorOnly, intentOnly, plannerOnly, retrievalOnly,
       bundlesOnly, chunkerOnly, profileOnly, ingestionOnly

LEMMA PagesSteps == [Next]_vars => [Pages!Next]_(Pages!vars)
BY DEF Next, vars, ingestionVars, Pages!vars, knowledgeOnly, contextOnly,
       streamingOnly, learningOnly, curatorOnly, intentOnly, plannerOnly, retrievalOnly,
       bundlesOnly, chunkerOnly, profileOnly, ingestionOnly

\* Every part's step keeps that part's own.
LEMMA RequestInductive == RequestIInv /\ [Next]_vars => RequestIInv'
BY RequestPartStays, KnowledgeSteps, KnowledgeInductive, ContextSteps, ContextInductive,
   StreamSteps, StreamInductive, LearnSteps, LearnInductive, CurateSteps, CurateInductive,
   IntentSteps, IntentInductive, PlanSteps, PlanInductive, EvidenceSteps,
   EvidenceInductive, BundleSteps, BundleInductive, TextSteps, TextChunkInductive,
   UserSteps, UserInductive, PagesSteps, PagesInductive
   DEF RequestIInv

\* Every part has, all along, what it proved of itself.
THEOREM PartsKept == Spec => []RequestIInv
BY RequestInitially, RequestInductive, PTL DEF Spec

\* While nobody writes, what a module's cache holds is what its collection serves, but for
\* a query whose retrieval a write crossed, and the cache keeps to its size (base.py:28-45,
\* 90-153); a kept prompt is the one that would be computed, and no caller is told of
\* another's turns (context.py:72-81, 191-317).
THEOREM RequestIsFresh == Spec => []NothingStale
<1>1. RequestIInv => NothingStale
  BY KnowledgeKept DEF RequestIInv, NothingStale, ContextIInv, ContextKept
<1> QED BY <1>1, PartsKept, PTL

\* A streamed request is not split so that no task can start while tasks are left, and it
\* says it is done only when its node of the graph is settled (decomposer.py:32-63,
\* dispatcher.py:23-105, api.py:329-400).
THEOREM RequestDropsNoTask == Spec => []NoTaskDropped
<1>1. RequestIInv => NoTaskDropped
  BY StreamKept DEF RequestIInv, NoTaskDropped
<1> QED BY <1>1, PartsKept, PTL

\* Verified rows of one domain contradict each other only when one of them was checked
\* blindly, however the checks and the writes of several gates interleave, and a person
\* approved every verified row (learning.py:527-731).
THEOREM RequestVerifiesSoundly == Spec => []VerifiedIsSound
<1>1. RequestIInv => VerifiedIsSound
  BY DEF RequestIInv, VerifiedIsSound, LearnIInv
<1> QED BY <1>1, PartsKept, PTL

\* While nobody changes or deletes an entry, the curator leaves one that is not
\* deprecated, in whatever order it resolves the pairs (curator.py:430-533).
THEOREM RequestKeepsOne == Spec => []OneIsKept
<1>1. RequestIInv => OneIsKept
  BY CurateKept DEF RequestIInv, OneIsKept
<1> QED BY <1>1, PartsKept, PTL

\* The hypothesis that is selected shares a word with the request, and no better one was
\* passed over; every word of the request is in a goal, and no goal mixes parts that a
\* separator keeps apart (intent.py:817-859, 1183-1293).
THEOREM RequestMeansItsGoals == Spec => []GoalsMeanRequest
<1>1. RequestIInv => GoalsMeanRequest
  BY DEF RequestIInv, GoalsMeanRequest, IntentIInv
<1> QED BY <1>1, PartsKept, PTL

\* A goal that asks for a word near a "must" and rules out the same word near a "must not"
\* is stopped before planning, and none is stopped without both; what is compiled can run,
\* passes over no specific capability that shares words with a step, and covers half of
\* every step's words unless all of it is for general capabilities (planner.py:358-504,
\* 805-1023, 1352-1421; compiler.py:273-422).
THEOREM RequestPlansSoundly == Spec => []PlanIsSound
<1>1. RequestIInv => PlanIsSound
  BY DEF RequestIInv, PlanIsSound, PlanIInv, PlanSound
<1> QED BY <1>1, PartsKept, PTL

\* Undisturbed, the traversal finds what is near and how near it is, but for want of room;
\* every item of the evidence is in one place of the context, which keeps to its budget,
\* and the groups are the components of what contradicts; what is shown of the user is
\* what the newest entries say, the promoted first, of every slot none of whose entries
\* moved between the reads (traversal.py, builder.py, user_model.py).
THEOREM RequestEvidenceIsSound == Spec => []EvidenceIsSound
<1>1. RequestIInv => EvidenceIsSound
  BY EvidenceKept, UserKept DEF RequestIInv, EvidenceIsSound
<1> QED BY <1>1, PartsKept, PTL

\* A page that was moved away left its text, a text like it, no chunk or a logged error;
\* the chunks of a text are stretches of it, and the words in a row that none of them has
\* are no more than two short chunks have (cleaner.py:21-51, chunker.py:27-126).
THEOREM RequestSkipsNothing == Spec => []NothingSkipped
<1>1. RequestIInv => NothingSkipped
  BY DEF RequestIInv, NothingSkipped, PagesIInv
<1> QED BY <1>1, PartsKept, PTL

\* A module whose import returned is the bundle, whatever was there before and whatever
\* was imported, exported or cut short meanwhile.
THEOREM RequestImportsBundles == Spec => []ImportedIsBundle
<1>1. RequestIInv => ImportedIsBundle
  BY BundleKept DEF RequestIInv, ImportedIsBundle
<1> QED BY <1>1, PartsKept, PTL
=============================================================================
