-------------------------- MODULE CallOwnershipProofs --------------------------
(***************************************************************************)
(* What CallOwnership checks on two runs, for every set of runs, handlers    *)
(* and providers: a model call is recorded at most once, its record is not   *)
(* lost, the record has the attribution of its own run, and a call is marked *)
(* claimed only when its transport has recorded it.                          *)
(*                                                                          *)
(* The argument.  In one context one call is on its way to its transport at  *)
(* a time (InTurn), so the transport of a run takes the run's own            *)
(* publication (TakesItsOwn) and its claim marks that one; and when the      *)
(* application's own code runs, nothing is on offer in its context           *)
(* (NothingOnOffer), so its calls take and mark nothing that is still to be  *)
(* recorded.  The callback therefore defers exactly to a transport that has  *)
(* recorded, or to a call that another one crowds.                           *)
(***************************************************************************)
EXTENDS CallOwnership, FiniteSetTheorems, TLAPS

Begun(r) == pc[r] # "new"
Live == {"active", "aside"}

\* The runs of one generate are of one kind; a stream is one run.
BatchesFit ==
    \A r \in Runs :
        /\ Begun(r) => r \in batch[r]
        /\ \A s \in batch[r] : Begun(s) /\ batch[s] = batch[r] /\ kind[s] = kind[r]
        /\ kind[r].mode = "stream" => batch[r] \subseteq {r}

\* The order of publication is a strict total order of the runs begun, and a stream
\* being started is the latest.
OrderFits ==
    /\ \A r, s \in Runs :
        /\ s \in before[r] => Begun(s) /\ r \notin before[s]
        /\ Begun(r) /\ Begun(s) => r = s \/ s \in before[r] \/ r \in before[s]
    /\ \A r, s \in Runs : pc[r] = "started" /\ kind[r].mode = "stream" /\ Begun(s) /\ s # r => s \in before[r]

\* The runs on their way are those of one generate, and a sync generate makes the call
\* of one run when those of the runs before it have been answered.
InTurn ==
    /\ \A r, s \in Runs : Busy(r) /\ Busy(s) => batch[s] = batch[r]
    /\ \A r \in Runs : pc[r] = "taken" /\ kind[r].mode = "generate"
           => \A s \in batch[r] \cap before[r] : pc[s] = "answered"

\* What is on offer: the runs whose call is to be made, in their own context, and in the
\* caller's none that has begun to answer its caller.
OffersFit ==
    \A r \in Runs :
        /\ pc[r] \in {"new", "started"} => r \notin closed
        /\ pc[r] = "started" => r \in published[ContextOf(r)]
        /\ r \in Open(Caller) => pc[r] \in {"started", "taken", "opened", "answered"}

\* What a transport has taken: its own run; a later claim finds only runs that are over
\* or recorded.
TakenFits ==
    /\ \A r \in Runs : pc[r] = "taken" => taken[ContextOf(r)][Serving] = {r}
    /\ \A c \in Contexts, p \in Providers, s \in Runs :
           s \in taken[c][p] =>
               pc[s] = "over" \/ s \in metered \/ (pc[s] = "taken" /\ c = ContextOf(s) /\ p = Serving)

\* What the handlers of a run hold, by how far its call is.
InfoFits ==
    /\ \A r \in Runs : pc[r] \in {"opened", "streaming"} => kind[r].mode = "stream"
    /\ \A r \in Runs, h \in Handlers :
        /\ pc[r] = "new" <=> info[r][h] = "none"
        /\ pc[r] \in {"started", "taken", "opened", "streaming"} => info[r][h] = "active"
        /\ pc[r] = "answered" => info[r][h] \in Live
        /\ pc[r] = "over" => info[r][h] \notin Live

\* One handler records, and it is the one that marks the group sent; the transport's
\* record excludes it, and its claim marks the run.
RecordsFit ==
    /\ \A r \in Runs : sent[r] <=> \E h \in Handlers : info[r][h] = "recorded"
    /\ \A r \in Runs, h \in Handlers : info[r][h] = "passed" => sent[r]
    /\ \A r \in Runs : \A g, h \in Handlers : info[r][g] = "recorded" /\ info[r][h] = "recorded" => g = h
    /\ \A r \in metered : \A h \in Handlers : info[r][h] # "recorded"
    /\ ids \subseteq metered /\ metered \subseteq claimed
    /\ \A r \in claimed : pc[r] = "over" \/ r \in metered

\* A run that no other call crowds, and no transport records, sees no claim.
MarksFit ==
    /\ \A r \in Runs : pc[r] = "new" => ~noted[r]
    /\ \A r \in Runs \ (crowded \cup metered) :
        /\ pc[r] \notin {"new", "over"} => ~noted[r] /\ \A p \in kind[r].scope : claims[Caller][p] = mark[r][p]
        /\ \A h \in Handlers : info[r][h] # "deferred"

AttributionFits == misled = {} /\ \A r \in Runs : got[r] \in {r, None}

IInv ==
    /\ TypeOK
    /\ BatchesFit /\ OrderFits /\ InTurn
    /\ OffersFit /\ TakenFits
    /\ InfoFits /\ RecordsFit /\ MarksFit /\ AttributionFits

-----------------------------------------------------------------------------
\* The fields of a run's kind.
LEMMA KindFacts ==
    ASSUME TypeOK, NEW r \in Runs
    PROVE  /\ kind[r].mode \in {"generate", "agenerate", "stream"}
           /\ Serving \in kind[r].scope
           /\ kind[r].scope \subseteq Providers
<1>1. kind[r] \in Kinds
  BY DEF TypeOK
<1> QED  BY <1>1, OwnershipAssumption DEF Kinds

-----------------------------------------------------------------------------
(* What the transports and the direct calls find on offer.                   *)

\* The transport of a run that is started takes the run's own publication: the one its
\* context is generating, or, for a stream, the latest.
LEMMA TakesItsOwn ==
    ASSUME IInv, NEW r \in Runs, pc[r] = "started"
    PROVE  Served(ContextOf(r), Serving, Generating(r)) = r
<1> DEFINE serving == {s \in Open(ContextOf(r)) : Serves(s, Serving)}
<1>1. kind[r] \in Kinds
  BY DEF IInv, TypeOK
<1>2. r \in serving
  BY <1>1, OwnershipAssumption DEF IInv, OffersFit, Open, Serves, Kinds
<1>3. CASE kind[r].mode # "stream"
  BY <1>2, <1>3 DEF Served, Generating
<1>4. CASE kind[r].mode = "stream"
  <2>1. ContextOf(r) = Caller /\ Generating(r) = None
    BY <1>4 DEF ContextOf, Generating
  <2>2. \A s \in serving : s \in Runs /\ Begun(s)
    <3> SUFFICES ASSUME NEW s \in serving PROVE s \in Runs /\ Begun(s)
      OBVIOUS
    <3>1. s \in Runs
      BY <2>1 DEF IInv, TypeOK, Open, Contexts
    <3> QED  BY <2>1, <3>1 DEF IInv, OffersFit, Begun
  <2>3. serving \ {r} \subseteq before[r]
    BY <1>4, <2>2 DEF IInv, OrderFits
  <2>4. ASSUME NEW s \in serving, serving \ {s} \subseteq before[s]
        PROVE  s = r
    BY <1>2, <2>2, <2>3, <2>4 DEF IInv, OrderFits
  <2>5. (CHOOSE s \in serving : serving \ {s} \subseteq before[s]) = r
    BY <1>2, <2>3, <2>4
  <2>6. None \notin serving
    BY <2>2, OwnershipAssumption
  <2> QED  BY <1>2, <2>1, <2>5, <2>6 DEF Served
<1> QED  BY <1>3, <1>4

\* When the application's own code runs outside of every stream, nothing is on offer.
LEMMA NothingOnOffer ==
    ASSUME IInv, Free, \A r \in Runs : pc[r] # "opened", NEW p \in Providers
    PROVE  Served(Caller, p, None) = None
<1>1. Open(Caller) \subseteq Runs
  BY DEF IInv, TypeOK, Open, Contexts
<1>2. Open(Caller) = {}
  BY <1>1 DEF IInv, OffersFit, Free, Busy
<1> QED  BY <1>2 DEF Served

-----------------------------------------------------------------------------
(* The steps that leave kinds, batches and their order alone.                *)

\* Nothing is begun, and nothing else becomes started.
LEMMA OrderKept ==
    ASSUME BatchesFit, OrderFits, UNCHANGED <<kind, batch, before>>,
           \A r \in Runs : Begun(r)' <=> Begun(r),
           \A r \in Runs : pc'[r] = "started" => pc[r] = "started",
           TypeOK
    PROVE  BatchesFit' /\ OrderFits'
<1>1. BatchesFit'
  BY DEF BatchesFit, TypeOK
<1>2. OrderFits'
  BY DEF OrderFits
<1> QED  BY <1>1, <1>2

\* What is taken stays, and no run becomes or ceases to be taken but to be over.
LEMMA TakenKept ==
    ASSUME TakenFits, UNCHANGED <<kind, taken>>, metered \subseteq metered',
           \A r \in Runs : pc'[r] = "taken" => pc[r] = "taken",
           \A r \in Runs : pc[r] = "taken" => pc'[r] \in {"taken", "over"},
           \A r \in Runs : pc[r] = "over" => pc'[r] = "over"
    PROVE  TakenFits'
<1>1. \A r \in Runs : ContextOf(r)' = ContextOf(r)
  BY DEF ContextOf
<1>2. \A r \in Runs : pc'[r] = "taken" => taken'[ContextOf(r)][Serving] = {r}
  BY DEF TakenFits
<1>3. \A c \in Contexts, p \in Providers, s \in Runs :
          s \in taken'[c][p] =>
              pc'[s] = "over" \/ s \in metered' \/ (pc'[s] = "taken" /\ c = ContextOf(s) /\ p = Serving)
  BY DEF TakenFits
<1> QED  BY <1>1, <1>2, <1>3 DEF TakenFits

\* Of two runs that share a context, both on their way, at most one is taken, and while
\* it is the other does not have its turn.
LEMMA OneTaken ==
    ASSUME IInv, NEW r \in Runs, NEW s \in Runs, r # s,
           pc[r] = "taken", pc[s] \in {"started", "taken"}, pc[s] = "started" => Turn(s)
    PROVE  ContextOf(r) # ContextOf(s)
<1>1. SUFFICES ASSUME ContextOf(r) = ContextOf(s) PROVE FALSE
  OBVIOUS
<1>2. kind[r].mode # "agenerate" /\ kind[s].mode # "agenerate"
  BY <1>1, OwnershipAssumption DEF ContextOf
<1>3. batch[r] = batch[s] /\ s \in batch[r] /\ r \in batch[s] /\ kind[s] = kind[r]
  BY DEF IInv, InTurn, Busy, BatchesFit, Begun
<1>4. kind[r].mode = "generate"
  <2>1. kind[r].mode # "stream"
    BY <1>3 DEF IInv, BatchesFit
  <2> QED  BY <1>2, <2>1 DEF IInv, TypeOK, Kinds
<1>5. s \in before[r] \/ r \in before[s]
  BY DEF IInv, OrderFits, Begun
<1>6. s \notin before[r]
  BY <1>3, <1>4 DEF IInv, InTurn
<1>7. r \notin before[s]
  BY <1>3, <1>4 DEF IInv, InTurn, Turn
<1> QED  BY <1>5, <1>6, <1>7

-----------------------------------------------------------------------------
LEMMA InitHolds == Init => IInv
<1> SUFFICES ASSUME Init PROVE IInv
  OBVIOUS
<1> USE DEF Init
<1>1. TypeOK
  BY OwnershipAssumption DEF TypeOK, NoClaims, Places, InfoStates
<1>2. BatchesFit /\ OrderFits /\ InTurn
  BY DEF BatchesFit, OrderFits, InTurn, Begun, Busy
<1>3. OffersFit /\ TakenFits /\ InfoFits
  BY DEF OffersFit, TakenFits, InfoFits, Open, Contexts, Live
<1>4. RecordsFit /\ MarksFit /\ AttributionFits
  BY DEF RecordsFit, MarksFit, AttributionFits
<1> QED  BY <1>1, <1>2, <1>3, <1>4 DEF IInv

-----------------------------------------------------------------------------
(* The transport of a run.                                                   *)

LEMMA AnswerKeeps ==
    ASSUME IInv, NEW r \in Runs, AnswerUnmetered(r)
    PROVE  IInv'
<1>1. PICK x \in {"opened", "answered"} :
          pc' = [pc EXCEPT ![r] = x] /\ (x = "opened" <=> kind[r].mode = "stream")
  BY DEF AnswerUnmetered, Answered
<1>2. pc[r] = "started" /\ UNCHANGED <<kind, batch, ctxVars, pubVars, runVars, histVars, direct>>
  BY DEF AnswerUnmetered
<1> USE <1>1, <1>2 DEF IInv, ctxVars, pubVars, runVars, histVars
<1>3. TypeOK'
  BY DEF TypeOK, Places
<1>4. BatchesFit' /\ OrderFits'
  <2>1. \A s \in Runs : Begun(s)' <=> Begun(s)
    BY DEF Begun, TypeOK
  <2>2. \A s \in Runs : pc'[s] = "started" => pc[s] = "started"
    BY DEF TypeOK
  <2> QED  BY <2>1, <2>2, OrderKept
<1>5. InTurn'
  BY DEF InTurn, Busy, TypeOK
<1>6. OffersFit'
  BY DEF OffersFit, Open, ContextOf, TypeOK
<1>7. TakenFits'
  BY TakenKept DEF TypeOK
<1>8. InfoFits'
  BY DEF InfoFits, Live, TypeOK
<1>9. RecordsFit' /\ MarksFit' /\ AttributionFits'
  BY DEF RecordsFit, MarksFit, AttributionFits, TypeOK
<1> QED  BY <1>3, <1>4, <1>5, <1>6, <1>7, <1>8, <1>9

LEMMA TakeKeeps ==
    ASSUME IInv, NEW r \in Runs, TakeMetadata(r)
    PROVE  IInv'
<1> DEFINE c == ContextOf(r)
<1>1. pc[r] = "started" /\ Turn(r) /\ pc' = [pc EXCEPT ![r] = "taken"]
  BY DEF TakeMetadata
<1>2. Served(c, Serving, Generating(r)) = r
  BY <1>1, TakesItsOwn
<1>3. closed' = closed \cup {r}
      /\ published' = [published EXCEPT ![c] = Open(c) \ {r}]
      /\ taken' = [taken EXCEPT ![c][Serving] = {r}]
      /\ got' = [got EXCEPT ![r] = r]
  BY <1>2, OwnershipAssumption DEF TakeMetadata, Take, Close
<1>4. UNCHANGED <<kind, batch, claims, before, claimed, ids, runVars, metered, misled, crowded, direct>>
  BY DEF TakeMetadata
<1>5. c \in Contexts /\ Serving \in Providers
  BY OwnershipAssumption DEF ContextOf, Contexts
<1> HIDE DEF c
<1> USE <1>1, <1>3, <1>4, <1>5 DEF IInv, runVars
<1>6. TypeOK'
  BY DEF TypeOK, Places, Open
<1>7. BatchesFit' /\ OrderFits'
  <2>1. \A s \in Runs : Begun(s)' <=> Begun(s)
    BY DEF Begun, TypeOK
  <2>2. \A s \in Runs : pc'[s] = "started" => pc[s] = "started"
    BY DEF TypeOK
  <2> QED  BY <2>1, <2>2, OrderKept
<1>8. InTurn'
  BY DEF InTurn, Busy, TypeOK, Turn
<1>9. OffersFit'
  <2>1. \A s \in Runs : ContextOf(s)' = ContextOf(s)
    BY DEF ContextOf
  <2>2. ASSUME NEW s \in Runs, pc'[s] = "started"
        PROVE  s \notin closed' /\ s \in published'[ContextOf(s)]
    BY <2>2 DEF TypeOK, OffersFit, Open, ContextOf, Contexts
  <2>3. ASSUME NEW s \in Runs, s \in published'[Caller] \ closed'
        PROVE  pc'[s] \in {"started", "taken", "opened", "answered"}
    BY <2>3 DEF TypeOK, OffersFit, Open, Contexts
  <2> QED  BY <2>1, <2>2, <2>3 DEF OffersFit, Open
<1>10. TakenFits'
  <2>1. \A s \in Runs : ContextOf(s)' = ContextOf(s)
    BY DEF ContextOf
  <2>2. ASSUME NEW s \in Runs, pc'[s] = "taken"
        PROVE  taken'[ContextOf(s)][Serving] = {s}
    <3>1. CASE s = r
      BY <3>1 DEF c, TypeOK
    <3>2. CASE s # r
      <4>1. pc[s] = "taken"
        BY <2>2, <3>2 DEF TypeOK
      <4>2. ContextOf(s) # c
        BY <3>2, <4>1, OneTaken DEF c
      <4>3. ContextOf(s) \in Contexts
        BY DEF ContextOf, Contexts
      <4> QED  BY <4>1, <4>2, <4>3 DEF TakenFits, TypeOK
    <3> QED  BY <3>1, <3>2
  <2>3. ASSUME NEW d \in Contexts, NEW p \in Providers, NEW s \in Runs, s \in taken'[d][p]
        PROVE  pc'[s] = "over" \/ s \in metered' \/ (pc'[s] = "taken" /\ d = ContextOf(s) /\ p = Serving)
    <3>1. CASE d = c /\ p = Serving
      BY <2>3, <3>1 DEF c, TypeOK
    <3>2. CASE ~(d = c /\ p = Serving)
      <4>1. s \in taken[d][p]
        BY <2>3, <3>2 DEF TypeOK
      <4>2. s # r \/ r \in metered
        BY <4>1 DEF TakenFits
      <4> QED  BY <4>1, <4>2 DEF TakenFits, TypeOK
    <3> QED  BY <3>1, <3>2
  <2> QED  BY <2>1, <2>2, <2>3 DEF TakenFits
<1>11. InfoFits'
  BY DEF InfoFits, Live, TypeOK
<1>12. RecordsFit' /\ MarksFit' /\ AttributionFits'
  BY DEF RecordsFit, MarksFit, AttributionFits, TypeOK
<1> QED  BY <1>6, <1>7, <1>8, <1>9, <1>10, <1>11, <1>12

LEMMA ClaimKeeps ==
    ASSUME IInv, NEW r \in Runs, ClaimCall(r)
    PROVE  IInv'
<1> DEFINE c == ContextOf(r)
<1>1. PICK x \in {"opened", "answered"} :
          pc' = [pc EXCEPT ![r] = x] /\ (x = "opened" <=> kind[r].mode = "stream")
  BY DEF ClaimCall, Answered
<1>2. pc[r] = "taken"
      /\ claims' = [claims EXCEPT ![c][Serving] = @ + 1]
      /\ taken' = [taken EXCEPT ![c][Serving] = {}]
      /\ metered' = metered \cup {r}
      /\ crowded' = crowded \cup (Crowd(c, Serving) \ {r})
      /\ ids \subseteq ids' /\ ids' \subseteq ids \cup {r}
      /\ UNCHANGED <<kind, batch, published, before, closed, runVars, got, misled, direct>>
  BY DEF ClaimCall
<1>3. claimed' = claimed \cup {r}
  BY <1>2 DEF ClaimCall, Marked, IInv, TakenFits
<1>4. c \in Contexts /\ Serving \in Providers
  BY OwnershipAssumption DEF ContextOf, Contexts
<1>5. c = Caller \/ c \in Runs
  BY DEF ContextOf
<1> HIDE DEF c
<1> USE <1>1, <1>2, <1>3, <1>4 DEF IInv, runVars
<1>6. TypeOK'
  <2>1. claims' \in [Contexts -> [Providers -> Nat]]
    BY DEF TypeOK
  <2>2. taken' \in [Contexts -> [Providers -> SUBSET Runs]]
    BY DEF TypeOK
  <2> QED  BY <2>1, <2>2 DEF TypeOK, Places, Crowd
<1>7. BatchesFit' /\ OrderFits'
  <2>1. \A s \in Runs : Begun(s)' <=> Begun(s)
    BY DEF Begun, TypeOK
  <2>2. \A s \in Runs : pc'[s] = "started" => pc[s] = "started"
    BY DEF TypeOK
  <2> QED  BY <2>1, <2>2, OrderKept
<1>8. InTurn'
  BY DEF InTurn, Busy, TypeOK
<1>9. OffersFit'
  BY DEF OffersFit, Open, ContextOf, TypeOK
<1>10. TakenFits'
  <2>1. \A s \in Runs : ContextOf(s)' = ContextOf(s)
    BY DEF ContextOf
  <2>2. ASSUME NEW s \in Runs, pc'[s] = "taken"
        PROVE  taken'[ContextOf(s)][Serving] = {s}
    <3>1. s # r /\ pc[s] = "taken"
      BY <2>2 DEF TypeOK
    <3>2. ContextOf(s) # c
      BY <3>1, OneTaken DEF c
    <3>3. ContextOf(s) \in Contexts
      BY DEF ContextOf, Contexts
    <3> QED  BY <3>1, <3>2, <3>3 DEF TakenFits, TypeOK
  <2>3. ASSUME NEW d \in Contexts, NEW p \in Providers, NEW s \in Runs, s \in taken'[d][p]
        PROVE  pc'[s] = "over" \/ s \in metered' \/ (pc'[s] = "taken" /\ d = ContextOf(s) /\ p = Serving)
    <3>1. s \in taken[d][p]
      BY <2>3 DEF TypeOK
    <3> QED  BY <3>1 DEF TakenFits, TypeOK
  <2> QED  BY <2>1, <2>2, <2>3 DEF TakenFits
<1>11. InfoFits'
  BY DEF InfoFits, Live, TypeOK
<1>12. RecordsFit'
  <2>1. \A h \in Handlers : info[r][h] # "recorded"
    BY DEF InfoFits
  <2> QED  BY <2>1 DEF RecordsFit, TypeOK
<1>13. MarksFit'
  <2>1. \A s \in Runs : pc'[s] = "new" => ~noted'[s]
    BY DEF MarksFit, TypeOK
  <2>2. ASSUME NEW s \in Runs \ (crowded' \cup metered'), pc'[s] \notin {"new", "over"}
        PROVE  \A p \in kind[s].scope : claims'[Caller][p] = mark[s][p]
    <3>1. s # r /\ s \notin crowded \cup metered /\ pc[s] \notin {"new", "over"}
      BY <2>2 DEF TypeOK
    <3>2. c = Caller => Serving \notin kind[s].scope
      BY <2>2, <3>1 DEF Crowd
    <3>3. kind[s].scope \subseteq Providers
      BY KindFacts
    <3>4. Caller \in Contexts
      BY DEF Contexts
    <3>5. \A p \in kind[s].scope : claims'[Caller][p] = claims[Caller][p]
      BY <3>2, <3>3, <3>4 DEF TypeOK
    <3> QED  BY <3>1, <3>5 DEF MarksFit
  <2> QED  BY <2>1, <2>2 DEF MarksFit, TypeOK
<1>14. AttributionFits'
  BY DEF AttributionFits
<1> QED  BY <1>6, <1>7, <1>8, <1>9, <1>10, <1>11, <1>12, <1>13, <1>14

-----------------------------------------------------------------------------
(* The end of a run without an end hook, and a direct call.                  *)

\* Runs that fail, or are cancelled, leave with all that is theirs; a sync generate
\* leaves as a whole.
LEMMA GoneKeeps ==
    ASSUME IInv, NEW gone \in SUBSET Runs,
           \A s \in gone : Begun(s),
           \A s \in Runs \ gone : Begun(s) /\ kind[s].mode = "generate" => batch[s] \cap gone = {},
           Finished(gone, "error"), Close(gone),
           published' = [published EXCEPT ![Caller] = Open(Caller) \ gone],
           pc' = [s \in Runs |-> IF s \in gone THEN "over" ELSE pc[s]],
           UNCHANGED <<kind, batch, claims, before, taken, claimed, ids, mark, noted, sent, histVars, direct>>
    PROVE  IInv'
<1>1. \A s \in Runs : pc'[s] = IF s \in gone THEN "over" ELSE pc[s]
  OBVIOUS
<1>2. \A s \in Runs, h \in Handlers :
          info'[s][h] = IF s \in gone /\ info[s][h] \in Live THEN "error" ELSE info[s][h]
  BY DEF Finished, Live
<1>3. closed' = closed \cup gone
  BY DEF Close
<1>4. Caller \in Contexts
  BY DEF Contexts
<1> USE <1>1, <1>2, <1>3, <1>4 DEF IInv, histVars
<1>5. TypeOK'
  <2>1. info' \in [Runs -> [Handlers -> InfoStates]]
    BY DEF Finished, TypeOK, InfoStates
  <2>2. published' \in [Contexts -> SUBSET Runs]
    BY DEF TypeOK, Open
  <2>3. pc' \in [Runs -> Places]
    BY DEF TypeOK, Places
  <2> QED  BY <2>1, <2>2, <2>3 DEF TypeOK
<1>6. BatchesFit' /\ OrderFits'
  <2>1. \A s \in Runs : Begun(s)' <=> Begun(s)
    BY DEF Begun
  <2> QED  BY <2>1, OrderKept
<1>7. InTurn'
  <2>1. \A s \in Runs : pc'[s] = "taken" /\ kind[s].mode = "generate"
            => \A t \in batch[s] \cap before[s] : pc'[t] = "answered"
    <3> SUFFICES ASSUME NEW s \in Runs, pc'[s] = "taken", kind[s].mode = "generate",
                        NEW t \in batch[s] \cap before[s]
                 PROVE  pc'[t] = "answered"
      OBVIOUS
    <3>1. t \in Runs /\ t \notin gone
      BY DEF Begun, TypeOK
    <3> QED  BY <3>1 DEF InTurn
  <2> QED  BY <2>1 DEF InTurn, Busy
<1>8. OffersFit'
  <2>1. \A s \in Runs : ContextOf(s)' = ContextOf(s) /\ ContextOf(s) \in Contexts
    BY DEF ContextOf, Contexts
  <2>2. ASSUME NEW s \in Runs, pc'[s] = "started"
        PROVE  s \notin closed' /\ s \in published'[ContextOf(s)]
    BY <2>1, <2>2 DEF OffersFit, Open, TypeOK
  <2>3. ASSUME NEW s \in Runs, s \in published'[Caller] \ closed'
        PROVE  pc'[s] \in {"started", "taken", "opened", "answered"}
    BY <2>3 DEF OffersFit, Open, TypeOK
  <2> QED  BY <2>1, <2>2, <2>3 DEF OffersFit, Open
<1>9. TakenFits'
  BY TakenKept
<1>10. InfoFits'
  BY DEF InfoFits, Live, Begun
<1>11. \A s \in Runs, h \in Handlers, x \in {"recorded", "passed", "deferred"} :
           info'[s][h] = x <=> info[s][h] = x
  BY DEF Live
<1>12. RecordsFit'
  BY <1>11 DEF RecordsFit, TypeOK
<1>13. MarksFit' /\ AttributionFits'
  BY <1>11 DEF MarksFit, AttributionFits
<1> QED  BY <1>5, <1>6, <1>7, <1>8, <1>9, <1>10, <1>12, <1>13

LEMMA FailKeeps ==
    ASSUME IInv, NEW r \in Runs, Fail(r)
    PROVE  IInv'
<1> DEFINE gone == IF kind[r].mode = "generate" THEN batch[r] ELSE {r}
<1>1. pc[r] \in {"started", "taken", "opened", "streaming"}
  BY DEF Fail
<1>2. gone \in SUBSET Runs /\ r \in gone /\ \A s \in gone : Begun(s)
  BY <1>1 DEF IInv, TypeOK, BatchesFit, Begun
<1>3. \A s \in Runs \ gone : Begun(s) /\ kind[s].mode = "generate" => batch[s] \cap gone = {}
  <2> SUFFICES ASSUME NEW s \in Runs \ gone, Begun(s), kind[s].mode = "generate", NEW t \in batch[s] \cap gone
               PROVE  FALSE
    OBVIOUS
  <2>1. t \in Runs /\ kind[t] = kind[s] /\ batch[t] = batch[s] /\ s \in batch[s]
    BY DEF IInv, TypeOK, BatchesFit
  <2>2. kind[r].mode = "generate"
    BY <2>1
  <2>3. batch[t] = batch[r]
    BY <2>2 DEF IInv, BatchesFit
  <2> QED  BY <2>1, <2>2, <2>3
<1> QED
  BY <1>2, <1>3, GoneKeeps DEF Fail

LEMMA CancelKeeps ==
    ASSUME IInv, NEW r \in Runs, Cancel(r)
    PROVE  IInv'
<1>1. kind[r].mode = "agenerate" /\ batch[r] \in SUBSET Runs /\ \A s \in batch[r] : Begun(s) /\ kind[s] = kind[r]
  BY DEF IInv, TypeOK, BatchesFit, Cancel
<1>2. CASE ~\A s \in batch[r] : EndsNow(s) \/ pc[s] = "over"
  <2>1. \A s \in Runs \ batch[r] : Begun(s) /\ kind[s].mode = "generate" => batch[s] \cap batch[r] = {}
    BY <1>1 DEF IInv, BatchesFit
  <2> QED  BY <1>1, <1>2, <2>1, GoneKeeps DEF Cancel
<1>3. CASE \A s \in batch[r] : EndsNow(s) \/ pc[s] = "over"
  <2>1. \A s \in Runs, h \in Handlers :
            info'[s][h] = IF s \in batch[r] /\ info[s][h] = "active" THEN "aside" ELSE info[s][h]
    BY <1>3 DEF Cancel, SetAside
  <2>2. closed' = closed \cup batch[r]
        /\ published' = [published EXCEPT ![Caller] = Open(Caller) \ batch[r]]
        /\ UNCHANGED <<pc, kind, batch, claims, before, taken, claimed, ids, mark, noted, sent, histVars, direct>>
    BY <1>3 DEF Cancel, Close
  <2>3. Caller \in Contexts
    BY DEF Contexts
  <2>4. \A s \in batch[r] : pc[s] \in {"answered", "ended", "over"}
    <3> SUFFICES ASSUME NEW s \in batch[r] PROVE pc[s] \in {"answered", "ended", "over"}
      OBVIOUS
    <3>1. pc[s] # "streaming"
      BY <1>1 DEF IInv, InfoFits
    <3> QED  BY <1>1, <1>3, <3>1 DEF EndsNow
  <2> USE <2>1, <2>2, <2>3, <2>4 DEF IInv, histVars
  <2>5. TypeOK'
    <3>1. info' \in [Runs -> [Handlers -> InfoStates]]
      BY <1>3 DEF Cancel, SetAside, TypeOK, InfoStates
    <3>2. published' \in [Contexts -> SUBSET Runs]
      BY DEF TypeOK, Open
    <3> QED  BY <1>1, <3>1, <3>2 DEF TypeOK
  <2>6. BatchesFit' /\ OrderFits' /\ InTurn'
    BY DEF BatchesFit, OrderFits, InTurn, Busy, Begun
  <2>7. OffersFit'
    BY DEF OffersFit, Open, ContextOf, Contexts, TypeOK
  <2>8. TakenFits'
    BY TakenKept
  <2>9. InfoFits'
    BY DEF InfoFits, Live
  <2>10. \A s \in Runs, h \in Handlers, x \in {"recorded", "passed", "deferred"} :
             info'[s][h] = x <=> info[s][h] = x
    OBVIOUS
  <2>11. RecordsFit'
    BY <2>10 DEF RecordsFit, TypeOK
  <2>12. MarksFit' /\ AttributionFits'
    BY <2>10 DEF MarksFit, AttributionFits
  <2> QED  BY <2>5, <2>6, <2>7, <2>8, <2>9, <2>11, <2>12
<1> QED  BY <1>2, <1>3

LEMMA DirectKeeps ==
    ASSUME IInv, NEW p \in Providers, DirectCall(p)
    PROVE  IInv'
<1>1. Served(Caller, p, None) = None
  BY NothingOnOffer DEF DirectCall
<1>2. Free /\ direct < MaxDirect
  BY DEF DirectCall
<1>3. published' = [published EXCEPT ![Caller] = Open(Caller) \ {None}]
  BY <1>1 DEF DirectCall
<1>4. claimed' = claimed \cup taken[Caller][p]
  BY <1>1 DEF DirectCall, Marked
<1>5. taken' = [taken EXCEPT ![Caller][p] = {}]
      /\ claims' = [claims EXCEPT ![Caller][p] = @ + 1]
      /\ crowded' = crowded \cup Crowd(Caller, p)
      /\ direct' = direct + 1
  BY DEF DirectCall
<1>6. UNCHANGED <<kind, pc, batch, before, ids, runVars, metered, got>>
  BY DEF DirectCall
<1>7. closed' = closed /\ misled' = misled
  BY <1>1 DEF DirectCall, Close
<1>8. Caller \in Contexts
  BY DEF Contexts
<1> USE <1>2, <1>3, <1>4, <1>5, <1>6, <1>7, <1>8 DEF IInv, runVars
<1>9. TypeOK'
  <2>1. claims' \in [Contexts -> [Providers -> Nat]]
    BY DEF TypeOK
  <2>2. taken' \in [Contexts -> [Providers -> SUBSET Runs]]
    BY DEF TypeOK
  <2>3. published' \in [Contexts -> SUBSET Runs]
    BY DEF TypeOK, Open
  <2>4. direct' \in 0..MaxDirect
    BY OwnershipAssumption DEF TypeOK
  <2> QED  BY <2>1, <2>2, <2>3, <2>4 DEF TypeOK, Crowd
<1>10. BatchesFit' /\ OrderFits' /\ InTurn'
  BY DEF BatchesFit, OrderFits, InTurn, Busy, Begun
<1>11. OffersFit'
  BY OwnershipAssumption DEF OffersFit, Open, ContextOf, Contexts, TypeOK
<1>12. TakenFits'
  <2>1. \A s \in Runs : ContextOf(s)' = ContextOf(s)
    BY DEF ContextOf
  <2>2. \A s \in Runs : pc[s] # "taken"
    BY DEF Free, Busy
  <2>3. \A d \in Contexts, q \in Providers : taken'[d][q] \subseteq taken[d][q]
    BY DEF TypeOK
  <2> QED  BY <2>1, <2>2, <2>3 DEF TakenFits
<1>13. InfoFits'
  BY DEF InfoFits
<1>14. RecordsFit'
  <2>1. \A s \in taken[Caller][p] : s \in Runs /\ (pc[s] = "over" \/ s \in metered)
    BY DEF TypeOK, TakenFits, Free, Busy
  <2> QED  BY <2>1 DEF RecordsFit
<1>15. MarksFit'
  <2>1. \A s \in Runs : pc'[s] = "new" => ~noted'[s]
    BY DEF MarksFit
  <2>2. ASSUME NEW s \in Runs \ (crowded' \cup metered'), pc'[s] \notin {"new", "over"}
        PROVE  \A q \in kind[s].scope : claims'[Caller][q] = mark[s][q]
    <3>1. s \notin crowded \cup metered
      BY <2>2
    <3>2. p \notin kind[s].scope
      BY <2>2, <3>1 DEF Crowd
    <3>3. kind[s].scope \subseteq Providers
      BY KindFacts
    <3>4. \A q \in kind[s].scope : claims'[Caller][q] = claims[Caller][q]
      BY <3>2, <3>3 DEF TypeOK
    <3> QED  BY <2>2, <3>1, <3>4 DEF MarksFit
  <2> QED  BY <2>1, <2>2 DEF MarksFit
<1>16. AttributionFits'
  BY DEF AttributionFits
<1> QED  BY <1>9, <1>10, <1>11, <1>12, <1>13, <1>14, <1>15, <1>16

-----------------------------------------------------------------------------
(* What the callback makes of a call.                                        *)

\* A run that is begun, not over, crowded by no call and recorded by no transport is
\* taken for metered by nothing the callback reads.
LEMMA NotTakenForMetered ==
    ASSUME IInv, NEW r \in Runs, pc[r] \notin {"new", "over"}, r \notin crowded \cup metered
    PROVE  ~CountersMoved(r) /\ ~TransportMetered(r)
BY DEF IInv, MarksFit, RecordsFit, TransportMetered, CountersMoved

\* Withdrawing a run that has begun to answer leaves the rest of what is on offer.
LEMMA WithdrawKeeps ==
    ASSUME OffersFit, TypeOK, NEW r \in Runs, UNCHANGED kind,
           pc[r] \notin {"new", "started"}, Withdraw(r),
           \A s \in Runs \ {r} : pc'[s] = pc[s],
           pc'[r] \notin {"new", "started"}
    PROVE  OffersFit'
<1>1. Caller \in Contexts /\ closed' = closed \cup {r}
      /\ published' = [published EXCEPT ![Caller] = Open(Caller) \ {r}]
  BY DEF Withdraw, Close, Contexts
<1>2. \A s \in Runs : ContextOf(s)' = ContextOf(s) /\ ContextOf(s) \in Contexts
  BY DEF ContextOf, Contexts
<1>3. ASSUME NEW s \in Runs, pc'[s] = "started"
      PROVE  s \in published'[ContextOf(s)]
  BY <1>1, <1>2, <1>3 DEF OffersFit, Open, TypeOK
<1>4. ASSUME NEW s \in Runs, pc'[s] \in {"new", "started"} PROVE s \notin closed'
  BY <1>1, <1>4 DEF OffersFit
<1>5. ASSUME NEW s \in Runs, s \in published'[Caller] \ closed'
      PROVE  pc'[s] \in {"started", "taken", "opened", "answered"}
  BY <1>1, <1>5 DEF OffersFit, Open, TypeOK
<1> QED  BY <1>2, <1>3, <1>4, <1>5 DEF OffersFit, Open

LEMMA TokenKeeps ==
    ASSUME IInv, NEW r \in Runs, FirstToken(r)
    PROVE  IInv'
<1>1. pc[r] = "opened" /\ pc' = [pc EXCEPT ![r] = "streaming"] /\ Withdraw(r)
      /\ noted' = [noted EXCEPT ![r] = r \in claimed \/ CountersMoved(r)]
      /\ UNCHANGED <<kind, batch, claims, before, taken, claimed, ids, info, mark, sent, histVars, direct>>
  BY DEF FirstToken
<1> USE <1>1 DEF IInv, histVars
<1>2. TypeOK'
  <2>1. published' \in [Contexts -> SUBSET Runs] /\ closed' \subseteq Runs
    BY DEF TypeOK, Withdraw, Close, Open
  <2>2. noted' \in [Runs -> BOOLEAN]
    BY DEF TypeOK
  <2>3. pc' \in [Runs -> Places]
    BY DEF TypeOK, Places
  <2> QED  BY <2>1, <2>2, <2>3 DEF TypeOK
<1>3. BatchesFit' /\ OrderFits'
  <2>1. \A s \in Runs : Begun(s)' <=> Begun(s)
    BY DEF Begun, TypeOK
  <2>2. \A s \in Runs : pc'[s] = "started" => pc[s] = "started"
    BY DEF TypeOK
  <2> QED  BY <2>1, <2>2, OrderKept
<1>4. InTurn'
  BY DEF InTurn, Busy, TypeOK
<1>5. OffersFit'
  BY WithdrawKeeps DEF TypeOK
<1>6. TakenFits'
  BY TakenKept DEF TypeOK
<1>7. InfoFits'
  BY DEF InfoFits, Live, TypeOK
<1>8. RecordsFit' /\ AttributionFits'
  BY DEF RecordsFit, AttributionFits, TypeOK
<1>9. MarksFit'
  <2>1. r \notin crowded \cup metered => ~noted'[r]
    <3> SUFFICES ASSUME r \notin crowded \cup metered PROVE ~noted'[r]
      OBVIOUS
    <3>1. r \notin claimed
      BY DEF RecordsFit
    <3>2. ~CountersMoved(r)
      BY NotTakenForMetered
    <3> QED  BY <3>1, <3>2 DEF TypeOK
  <2> QED  BY <2>1 DEF MarksFit, TypeOK
<1> QED  BY <1>2, <1>3, <1>4, <1>5, <1>6, <1>7, <1>8, <1>9

LEMMA EndKeeps ==
    ASSUME IInv, NEW r \in Runs, NEW h \in Handlers, End(r, h)
    PROVE  IInv'
<1>1. EndsNow(r) /\ info[r][h] \in Live /\ Withdraw(r)
      /\ UNCHANGED <<kind, batch, claims, before, taken, claimed, ids, mark, noted, histVars, direct>>
  BY DEF End, Live
<1>2. PICK now \in {"deferred", "passed", "recorded", "failed"} :
          /\ now = "deferred" <=> TransportMetered(r)
          /\ now = "passed" => sent[r]
          /\ now \in {"recorded", "failed"} => ~sent[r]
          /\ info' = [info EXCEPT ![r][h] = now]
          /\ sent' = [sent EXCEPT ![r] = @ \/ now = "recorded"]
          /\ pc' = [pc EXCEPT ![r] = IF \A g \in Handlers \ {h} : info[r][g] \notin Live THEN "over" ELSE "ended"]
  <2>1. PICK handed \in BOOLEAN :
          LET now == IF TransportMetered(r) THEN "deferred"
                     ELSE IF sent[r] THEN "passed"
                     ELSE IF handed THEN "recorded" ELSE "failed"
          IN  /\ info' = [info EXCEPT ![r][h] = now]
              /\ sent' = [sent EXCEPT ![r] = @ \/ (now \in {"recorded", "failed"} /\ handed)]
              /\ pc' = [pc EXCEPT ![r] = IF \A g \in Handlers \ {h} : info[r][g] \notin Live THEN "over" ELSE "ended"]
    BY DEF End, ReleasedAsSent, Live
  <2>2. CASE TransportMetered(r)
    BY <2>1, <2>2
  <2>3. CASE ~TransportMetered(r) /\ sent[r]
    BY <2>1, <2>3
  <2>4. CASE ~TransportMetered(r) /\ ~sent[r] /\ handed
    BY <2>1, <2>4
  <2>5. CASE ~TransportMetered(r) /\ ~sent[r] /\ ~handed
    BY <2>1, <2>5
  <2> QED  BY <2>2, <2>3, <2>4, <2>5
<1>3. pc[r] \in {"streaming", "answered", "ended"}
  BY <1>1 DEF EndsNow
<1> USE <1>1, <1>2, <1>3 DEF IInv, histVars
<1>4. \A s \in Runs, g \in Handlers : info'[s][g] = IF s = r /\ g = h THEN now ELSE info[s][g]
  BY DEF TypeOK
<1>5. pc'[r] \in {"over", "ended"} /\ \A s \in Runs \ {r} : pc'[s] = pc[s]
  BY DEF TypeOK
<1>6. TypeOK'
  <2>1. published' \in [Contexts -> SUBSET Runs] /\ closed' \subseteq Runs
    BY DEF TypeOK, Withdraw, Close, Open
  <2>2. info' \in [Runs -> [Handlers -> InfoStates]]
    BY DEF TypeOK, InfoStates
  <2>3. sent' \in [Runs -> BOOLEAN]
    BY DEF TypeOK
  <2>4. pc' \in [Runs -> Places]
    BY DEF TypeOK, Places
  <2> QED  BY <2>1, <2>2, <2>3, <2>4 DEF TypeOK
<1>7. BatchesFit' /\ OrderFits'
  <2>1. \A s \in Runs : Begun(s)' <=> Begun(s)
    BY <1>5 DEF Begun
  <2>2. \A s \in Runs : pc'[s] = "started" => pc[s] = "started"
    BY <1>5
  <2> QED  BY <2>1, <2>2, OrderKept
<1>8. InTurn'
  <2>1. \A s \in Runs : pc'[s] = "taken" /\ kind[s].mode = "generate"
            => \A t \in batch[s] \cap before[s] : pc'[t] = "answered"
    <3> SUFFICES ASSUME NEW s \in Runs, pc'[s] = "taken", kind[s].mode = "generate",
                        NEW t \in batch[s] \cap before[s]
                 PROVE  pc'[t] = "answered"
      OBVIOUS
    <3>1. pc[s] = "taken" /\ t \in Runs /\ pc[t] = "answered"
      BY <1>5 DEF InTurn, TypeOK
    <3>2. t # r
      <4>1. SUFFICES ASSUME t = r PROVE FALSE
        OBVIOUS
      <4>2. s \in batch[r] /\ kind[r].mode = "generate"
        BY <3>1, <4>1 DEF BatchesFit, Begun
      <4> QED  BY <3>1, <4>1, <4>2 DEF EndsNow
    <3> QED  BY <1>5, <3>1, <3>2
  <2>2. \A s \in Runs : Busy(s)' => Busy(s)
    BY <1>5 DEF Busy
  <2> QED  BY <2>1, <2>2 DEF InTurn
<1>9. OffersFit'
  BY <1>5, WithdrawKeeps
<1>10. TakenFits'
  BY <1>5, TakenKept
<1>11. InfoFits'
  <2>1. \A s \in Runs : pc'[s] \in {"opened", "streaming"} => kind'[s].mode = "stream"
    BY <1>5 DEF InfoFits
  <2>2. pc'[r] = "over" => \A g \in Handlers \ {h} : info[r][g] \notin Live
    BY DEF TypeOK
  <2>3. \A g \in Handlers : info'[r][g] # "none" /\ (pc'[r] = "over" => info'[r][g] \notin Live)
    BY <1>4, <2>2 DEF InfoFits, Live
  <2> QED  BY <1>4, <1>5, <2>1, <2>3 DEF InfoFits
<1>12. RecordsFit'
  <2>1. sent'[r] <=> sent[r] \/ now = "recorded"
    BY DEF TypeOK
  <2>2. \A s \in Runs \ {r} : sent'[s] = sent[s]
    BY DEF TypeOK
  <2>3. now = "recorded" => \A g \in Handlers : info[r][g] # "recorded"
    BY DEF RecordsFit
  <2>4. now = "recorded" => r \notin metered
    BY DEF RecordsFit, TransportMetered
  <2>5. info[r][h] # "recorded"
    BY DEF Live
  <2>6. \A s \in Runs : sent'[s] <=> \E g \in Handlers : info'[s][g] = "recorded"
    BY <1>4, <2>1, <2>2, <2>5 DEF RecordsFit
  <2>7. \A s \in Runs : \A f, g \in Handlers : info'[s][f] = "recorded" /\ info'[s][g] = "recorded" => f = g
    BY <1>4, <2>3 DEF RecordsFit
  <2>8. \A s \in metered' : \A g \in Handlers : info'[s][g] # "recorded"
    BY <1>4, <2>4 DEF RecordsFit, TypeOK
  <2>9. \A s \in claimed' : pc'[s] = "over" \/ s \in metered'
    BY <1>5 DEF RecordsFit, TypeOK
  <2>10. \A s \in Runs, g \in Handlers : info'[s][g] = "passed" => sent'[s]
    BY <1>4, <2>1, <2>2 DEF RecordsFit
  <2> QED  BY <2>6, <2>7, <2>8, <2>9, <2>10 DEF RecordsFit
<1>13. MarksFit'
  <2>1. r \notin crowded \cup metered => now # "deferred"
    BY NotTakenForMetered
  <2> QED  BY <1>4, <1>5, <2>1 DEF MarksFit
<1>14. AttributionFits'
  BY DEF AttributionFits
<1> QED  BY <1>6, <1>7, <1>8, <1>9, <1>10, <1>11, <1>12, <1>13, <1>14

-----------------------------------------------------------------------------
(* The start of runs.                                                        *)

LEMMA StartKeeps ==
    ASSUME IInv, NEW B \in Batches, Start(B)
    PROVE  IInv'
<1>1. B \in SUBSET Runs /\ Free
      /\ (\A r \in B : pc[r] = "new")
      /\ (\A r, s \in B : kind[r] = kind[s] /\ (kind[r].mode = "stream" => r = s))
  BY DEF Batches, Start
<1>2. UNCHANGED <<kind, pubVars, noted, sent, histVars, direct>>
  BY DEF Start
<1>3. /\ \A r \in Runs : pc'[r] = IF r \in B THEN "started" ELSE pc[r]
      /\ \A r \in Runs : batch'[r] = IF r \in B THEN B ELSE batch[r]
      /\ \A r \in Runs : mark'[r] = IF r \in B THEN claims[Caller] ELSE mark[r]
      /\ \A r \in Runs, h \in Handlers : info'[r][h] = IF r \in B THEN "active" ELSE info[r][h]
  BY DEF Start
<1>4. \A c \in Contexts :
          /\ published'[c] = IF c \in {Caller} \cup B THEN Open(Caller) \cup B ELSE published[c]
          /\ claims'[c] = IF c \in B THEN claims[Caller] ELSE claims[c]
          /\ taken'[c] = IF c \in B THEN taken[Caller] ELSE taken[c]
  BY DEF Start
<1>5. PICK nth \in Injection(B, 1..Cardinality(B)) :
          before' = [r \in Runs |-> IF r \in B
                        THEN {s \in Runs : pc[s] # "new"} \cup {s \in B : nth[s] < nth[r]} ELSE before[r]]
  BY DEF Start
<1>6. (\A r \in B : nth[r] \in Int) /\ \A r, s \in B : nth[r] = nth[s] => r = s
  BY DEF Injection, IsInjective
<1>7. Caller \in Contexts /\ Caller \notin B /\ \A r \in B : r \in Contexts
  BY <1>1, OwnershipAssumption DEF Contexts
<1> USE <1>1, <1>2 DEF IInv, pubVars, histVars
<1>8. TypeOK'
  <2>1. pc' \in [Runs -> Places] /\ batch' \in [Runs -> SUBSET Runs] /\ mark' \in [Runs -> [Providers -> Nat]]
    BY <1>7 DEF Start, TypeOK, Places
  <2>2. info' \in [Runs -> [Handlers -> InfoStates]]
    BY DEF Start, TypeOK, InfoStates
  <2>3. published' \in [Contexts -> SUBSET Runs]
    BY <1>7 DEF Start, TypeOK, Open
  <2>4. claims' \in [Contexts -> [Providers -> Nat]] /\ taken' \in [Contexts -> [Providers -> SUBSET Runs]]
    BY <1>7 DEF Start, TypeOK
  <2>5. before' \in [Runs -> SUBSET Runs]
    BY <1>5 DEF TypeOK
  <2> QED  BY <2>1, <2>2, <2>3, <2>4, <2>5 DEF TypeOK
<1>9. \A r \in Runs : Begun(r)' <=> Begun(r) \/ r \in B
  BY <1>3 DEF Begun
<1>10. BatchesFit'
  <2>1. ASSUME NEW r \in Runs, r \in B
        PROVE  /\ Begun(r)' => r \in batch'[r]
               /\ \A s \in batch'[r] : Begun(s)' /\ batch'[s] = batch'[r] /\ kind'[s] = kind'[r]
               /\ kind'[r].mode = "stream" => batch'[r] \subseteq {r}
    BY <1>3, <1>9, <2>1
  <2>2. ASSUME NEW r \in Runs, r \notin B
        PROVE  /\ Begun(r)' => r \in batch'[r]
               /\ \A s \in batch'[r] : Begun(s)' /\ batch'[s] = batch'[r] /\ kind'[s] = kind'[r]
               /\ kind'[r].mode = "stream" => batch'[r] \subseteq {r}
    <3>1. batch'[r] = batch[r] /\ (Begun(r)' <=> Begun(r))
      BY <1>3, <1>9, <2>2
    <3>2. \A s \in batch[r] : s \in Runs /\ s \notin B
      BY DEF BatchesFit, Begun, TypeOK
    <3> QED  BY <1>3, <1>9, <3>1, <3>2 DEF BatchesFit
  <2> QED  BY <2>1, <2>2 DEF BatchesFit, Begun
<1>11. OrderFits'
  <2>1. \A r \in Runs : before'[r] = IF r \in B THEN {s \in Runs : Begun(s)} \cup {s \in B : nth[s] < nth[r]} ELSE before[r]
    BY <1>5 DEF Begun
  <2>2. \A r \in B : ~Begun(r)
    BY DEF Begun
  <2>3. ASSUME NEW r \in Runs, NEW s \in Runs, s \in before'[r]
        PROVE  Begun(s)' /\ r \notin before'[s]
    <3>1. Begun(s)'
      BY <1>9, <2>1, <2>3, ZenonT(60) DEF OrderFits
    <3>2. CASE r \in B /\ s \in B
      <4>1. nth[s] < nth[r]
        BY <2>1, <2>2, <2>3, <3>2
      <4>2. ~(nth[r] < nth[s])
        BY <1>6, <3>2, <4>1
      <4> QED  BY <2>1, <2>2, <3>1, <3>2, <4>2
    <3>3. CASE r \in B /\ s \notin B
      BY <2>1, <2>2, <3>1, <3>3 DEF OrderFits
    <3>4. CASE r \notin B
      BY <2>1, <2>2, <2>3, <3>1, <3>4 DEF OrderFits
    <3> QED  BY <3>2, <3>3, <3>4
  <2>4. ASSUME NEW r \in Runs, NEW s \in Runs, Begun(r)', Begun(s)', r # s
        PROVE  s \in before'[r] \/ r \in before'[s]
    <3>1. CASE r \in B /\ s \in B
      <4>1. nth[s] < nth[r] \/ nth[r] < nth[s]
        BY <1>6, <2>4, <3>1
      <4> QED  BY <2>1, <3>1, <4>1
    <3>2. CASE r \in B /\ s \notin B
      BY <1>9, <2>1, <2>4, <3>2
    <3>3. CASE r \notin B /\ s \in B
      BY <1>9, <2>1, <2>4, <3>3
    <3>4. CASE r \notin B /\ s \notin B
      BY <1>9, <2>1, <2>4, <3>4 DEF OrderFits
    <3> QED  BY <3>1, <3>2, <3>3, <3>4
  <2>5. ASSUME NEW r \in Runs, NEW s \in Runs, pc'[r] = "started", kind'[r].mode = "stream", Begun(s)', s # r
        PROVE  s \in before'[r]
    <3>1. r \in B
      BY <1>3, <2>5 DEF Free, Busy
    <3>2. s \notin B
      BY <2>5, <3>1
    <3> QED  BY <1>9, <2>1, <2>5, <3>1, <3>2
  <2> QED  BY <2>3, <2>4, <2>5 DEF OrderFits, Begun
<1>12. InTurn'
  <2>1. \A r \in Runs : Busy(r)' <=> r \in B
    BY <1>3 DEF Free, Busy
  <2>2. \A r \in Runs : pc'[r] # "taken"
    BY <1>3 DEF Free, Busy
  <2> QED  BY <1>3, <2>1, <2>2 DEF InTurn
<1>13. OffersFit'
  <2>1. \A r \in Runs : ContextOf(r)' = ContextOf(r) /\ (ContextOf(r) = Caller \/ ContextOf(r) = r)
    BY DEF ContextOf
  <2>2. ASSUME NEW r \in Runs, pc'[r] = "started"
        PROVE  r \in published'[ContextOf(r)]
    <3>1. r \in B
      BY <1>3, <2>2 DEF Free, Busy
    <3> QED  BY <1>4, <1>7, <2>1, <3>1
  <2>3. ASSUME NEW r \in Runs, pc'[r] \in {"new", "started"} PROVE r \notin closed'
    BY <1>3, <2>3 DEF OffersFit
  <2>4. ASSUME NEW r \in Runs, r \in published'[Caller] \ closed'
        PROVE  pc'[r] \in {"started", "taken", "opened", "answered"}
    <3>1. r \in Open(Caller) \/ r \in B
      BY <1>4, <1>7, <2>4
    <3> QED  BY <1>3, <3>1 DEF OffersFit
  <2> QED  BY <2>1, <2>2, <2>3, <2>4 DEF OffersFit, Open
<1>14. TakenFits'
  <2>1. \A r \in Runs : pc'[r] # "taken" /\ pc[r] # "taken"
    BY <1>3 DEF Free, Busy
  <2>2. ASSUME NEW c \in Contexts, NEW p \in Providers, NEW s \in Runs, s \in taken'[c][p]
        PROVE  pc'[s] = "over" \/ s \in metered'
    <3>1. s \in taken[c][p] \/ s \in taken[Caller][p]
      BY <1>4, <2>2
    <3>2. pc[s] = "over" \/ s \in metered
      BY <1>7, <2>1, <3>1 DEF TakenFits
    <3> QED  BY <1>3, <3>2
  <2> QED  BY <2>1, <2>2 DEF TakenFits
<1>15. InfoFits'
  BY <1>3 DEF InfoFits
<1>16. RecordsFit'
  <2>1. \A r \in Runs, h \in Handlers, x \in {"recorded", "passed"} : info'[r][h] = x <=> info[r][h] = x
    BY <1>3 DEF InfoFits
  <2>2. \A r \in claimed' : pc'[r] = "over" \/ r \in metered'
    BY <1>3 DEF RecordsFit, TypeOK
  <2> QED  BY <2>1, <2>2 DEF RecordsFit, TypeOK
<1>17. MarksFit'
  <2>1. claims'[Caller] = claims[Caller]
    BY <1>4, <1>7
  <2>2. \A r \in Runs, h \in Handlers : info'[r][h] = "deferred" => info[r][h] = "deferred"
    BY <1>3
  <2> QED  BY <1>3, <2>1, <2>2 DEF MarksFit
<1>18. AttributionFits'
  BY DEF AttributionFits
<1> QED  BY <1>8, <1>10, <1>11, <1>12, <1>13, <1>14, <1>15, <1>16, <1>17, <1>18

-----------------------------------------------------------------------------
(* The invariant, and what follows from it.                                  *)

LEMMA StepKeeps == IInv /\ [Next]_vars => IInv'
<1> SUFFICES ASSUME IInv, [Next]_vars PROVE IInv'
  OBVIOUS
<1>1. ASSUME NEW B \in Batches, Start(B) PROVE IInv'
  BY <1>1, StartKeeps
<1>2. ASSUME NEW r \in Runs, TakeMetadata(r) PROVE IInv'
  BY <1>2, TakeKeeps
<1>3. ASSUME NEW r \in Runs, ClaimCall(r) PROVE IInv'
  BY <1>3, ClaimKeeps
<1>4. ASSUME NEW r \in Runs, AnswerUnmetered(r) PROVE IInv'
  BY <1>4, AnswerKeeps
<1>5. ASSUME NEW r \in Runs, Fail(r) PROVE IInv'
  BY <1>5, FailKeeps
<1>6. ASSUME NEW r \in Runs, FirstToken(r) PROVE IInv'
  BY <1>6, TokenKeeps
<1>7. ASSUME NEW r \in Runs, Cancel(r) PROVE IInv'
  BY <1>7, CancelKeeps
<1>8. ASSUME NEW r \in Runs, NEW h \in Handlers, End(r, h) PROVE IInv'
  BY <1>8, EndKeeps
<1>9. ASSUME NEW p \in Providers, DirectCall(p) PROVE IInv'
  BY <1>9, DirectKeeps
<1>10. CASE UNCHANGED vars
  <2>1. UNCHANGED <<kind, pc, batch, claims, published, before, taken, closed, claimed, ids,
                    info, mark, noted, sent, metered, got, misled, crowded, direct>>
    BY <1>10 DEF vars, ctxVars, pubVars, runVars, histVars
  <2>2. TypeOK' /\ BatchesFit' /\ OrderFits' /\ InTurn'
    BY <2>1 DEF IInv, TypeOK, BatchesFit, OrderFits, InTurn, Begun, Busy
  <2>3. OffersFit' /\ TakenFits'
    BY <2>1 DEF IInv, OffersFit, TakenFits, Open, ContextOf
  <2>4. InfoFits' /\ RecordsFit' /\ MarksFit' /\ AttributionFits'
    BY <2>1 DEF IInv, InfoFits, RecordsFit, MarksFit, AttributionFits
  <2> QED  BY <2>2, <2>3, <2>4 DEF IInv
<1> QED
  BY <1>1, <1>2, <1>3, <1>4, <1>5, <1>6, <1>7, <1>8, <1>9, <1>10 DEF Next

\* The inductive invariant: what is on offer, taken, marked and recorded agrees with how
\* far each call is.
THEOREM OwnershipInvariant == Spec => []IInv
<1>1. Init => IInv
  BY InitHolds
<1>2. IInv /\ [Next]_vars => IInv'
  BY StepKeeps
<1> QED  BY <1>1, <1>2, PTL DEF Spec

\* Every context variable, publication and run info stays of its type.
THEOREM OwnershipTypes == Spec => []TypeOK
<1>1. IInv => TypeOK
  BY DEF IInv
<1> QED  BY <1>1, OwnershipInvariant, PTL

\* One model call, one record, whatever the runs, the handlers and the calls in between
\* (claimed_by_transport and the run group's sent in _transport_metered and on_llm_end).
THEOREM RecordedOnceHolds == Spec => []RecordedOnce
<1>1. IInv => RecordedOnce
  <2> SUFFICES ASSUME IInv, NEW r \in Runs
               PROVE  Cardinality(RecordedBy(r)) + (IF r \in metered THEN 1 ELSE 0) <= 1
    BY DEF RecordedOnce
  <2>1. CASE RecordedBy(r) = {}
    <3>1. Cardinality(RecordedBy(r)) = 0
      BY <2>1, FS_EmptySet
    <3> QED  BY <3>1
  <2>2. CASE RecordedBy(r) # {}
    <3>1. PICK h \in Handlers : info[r][h] = "recorded"
      BY <2>2 DEF RecordedBy
    <3>2. RecordedBy(r) = {h}
      BY <3>1 DEF RecordedBy, IInv, RecordsFit
    <3>3. Cardinality(RecordedBy(r)) = 1
      BY <3>2, FS_Singleton
    <3>4. r \notin metered
      BY <3>1 DEF IInv, RecordsFit
    <3> QED  BY <3>3, <3>4
  <2> QED  BY <2>1, <2>2
<1> QED  BY <1>1, OwnershipInvariant, PTL

\* A run that no other call crowds has a record once its end hooks have run, but for
\* handlers that could not build one: no claim of another call makes the callback defer.
THEOREM NoRecordIsLostHolds == Spec => []NoRecordIsLost
<1>1. IInv => NoRecordIsLost
  <2> SUFFICES ASSUME IInv, NEW r \in Runs,
                      pc[r] = "over", r \notin crowded \cup metered,
                      \A h \in Handlers : info[r][h] # "error",
                      RecordedBy(r) = {}, NEW h \in Handlers
               PROVE  info[r][h] = "failed"
    BY DEF NoRecordIsLost
  <2>1. info[r][h] \in InfoStates
    BY DEF IInv, TypeOK
  <2>2. info[r][h] \notin Live /\ info[r][h] # "none"
    BY DEF IInv, InfoFits
  <2>3. info[r][h] # "deferred"
    BY DEF IInv, MarksFit
  <2>4. info[r][h] # "recorded"
    BY DEF RecordedBy
  <2>5. info[r][h] # "passed"
    BY DEF IInv, RecordsFit, RecordedBy
  <2> QED  BY <2>1, <2>2, <2>3, <2>4, <2>5 DEF InfoStates, Live
<1> QED  BY <1>1, OwnershipInvariant, PTL

\* A transport's record has the attribution of its own run, and a call the application
\* makes in between has none (_latest_model_call in take_callback_metadata).
THEOREM OwnAttributionHolds == Spec => []OwnAttribution
<1>1. IInv => OwnAttribution
  BY DEF IInv, AttributionFits, OwnAttribution
<1> QED  BY <1>1, OwnershipInvariant, PTL

\* A run whose end is still to come is marked claimed only when its transport has
\* recorded it (claim_call_for_transport marks what its context took, and no more).
THEOREM ClaimsAreTrueHolds == Spec => []ClaimsAreTrue
<1>1. IInv => ClaimsAreTrue
  BY DEF IInv, TypeOK, RecordsFit, InfoFits, Live, ClaimsAreTrue
<1> QED  BY <1>1, OwnershipInvariant, PTL

===============================================================================
