----------------------- MODULE ExperienceReviewProofs -----------------------
(***************************************************************************)
(* Proofs about ExperienceReview, for every set of candidates, proposals   *)
(* and clients, every lifetime of a token and every bound.                 *)
(***************************************************************************)
EXTENDS ExperienceReview, TLAPS

(* What the tokens and the requests in flight still say about the tables:  *)
(* nothing but their own times and, for a lifecycle token, that its action *)
(* was allowed in the state it was minted from.                            *)
ApprovalToken(t) == /\ t.proposal \in Proposals
                    /\ t.issued \in Nat

LifecycleToken(t) == /\ t.candidate \in Candidates
                     /\ t.action \in states!LifecycleActions
                     /\ states!TransitionAllowed(t.action, t.current)

Sent(r) == /\ r.kind = "approve" => ApprovalToken(r.token)
           /\ r.kind = "review" => /\ ApprovalToken(r.token)
                                   /\ r.disposition \in Dispositions
           /\ r.kind = "lifecycle" => LifecycleToken(r.token)
           /\ r # NoRequest => r.at \in Nat

RequestsInv ==
    /\ now \in Nat
    /\ \A t \in approvalTokens : ApprovalToken(t)
    /\ \A t \in lifecycleTokens : LifecycleToken(t)
    /\ DOMAIN request = Clients
    /\ \A k \in Clients : Sent(request[k])

(* The rows written by reviews and approvals.                              *)
ReviewsInv ==
    /\ \A r \in reviews : /\ r.proposal \in Proposals
                          /\ r.at \in Nat
                          /\ r.disposition \in Dispositions
    /\ DOMAIN approval = Candidates
    /\ \A c \in Candidates : approval[c] # NoApproval =>
           /\ CandidateOf[approval[c].proposal] = c
           /\ approval[c].token.issued \in Nat

(* The last transition of a candidate, if there is one, led to the state   *)
(* of its column, and every other one is earlier.                          *)
LastLed(c) ==
    \E t \in TransitionsOf(c) :
        /\ t.to = lifecycle[c]
        /\ \A u \in TransitionsOf(c) : u = t \/ u.at < t.at

LogInv ==
    /\ DOMAIN lifecycle = Candidates
    /\ \A t \in transitions : t.at \in Nat /\ t.candidate \in Candidates
    /\ \A c \in Candidates :
          IF approval[c] = NoApproval
          THEN lifecycle[c] = "none" /\ TransitionsOf(c) = {}
          ELSE \/ TransitionsOf(c) = {} /\ lifecycle[c] = "approved"
               \/ LastLed(c)

ReviewInv == RequestsInv /\ ReviewsInv /\ LogInv /\ ReviewBeatsApproval
-----------------------------------------------------------------------------
(* An approval of a proposal is told from the absence of one.              *)
LEMMA ApprovalIsSomething ==
    ASSUME NEW p, NEW t, NEW n
    PROVE  [proposal |-> p, token |-> t, at |-> n] # NoApproval
<1>1. DOMAIN [proposal |-> p, token |-> t, at |-> n] = {"proposal", "token", "at"}
  OBVIOUS
<1>2. DOMAIN NoApproval = {"proposal"}
  BY DEF NoApproval
<1> QED
  BY <1>1, <1>2

(* The empty store.                                                        *)
LEMMA InitReview == Init => ReviewInv
<1> SUFFICES ASSUME Init PROVE ReviewInv
  OBVIOUS
<1>1. RequestsInv
  BY DEF Init, RequestsInv, Sent, NoRequest
<1>2. ReviewsInv
  BY DEF Init, ReviewsInv
<1>3. LogInv
  BY DEF Init, LogInv, TransitionsOf
<1>4. ReviewBeatsApproval
  BY DEF Init, ReviewBeatsApproval
<1> QED
  BY <1>1, <1>2, <1>3, <1>4 DEF ReviewInv

(* The tables are untouched by a step on tokens, requests and the clock.   *)
LEMMA TablesKept ==
    ASSUME ReviewsInv, LogInv, ReviewBeatsApproval, UNCHANGED tables
    PROVE  ReviewsInv' /\ LogInv' /\ ReviewBeatsApproval'
<1> USE DEF tables
<1>1. ReviewsInv'
  BY DEF ReviewsInv
<1>2. LogInv'
  BY DEF LogInv, LastLed, TransitionsOf
<1>3. ReviewBeatsApproval'
  BY DEF ReviewBeatsApproval, ReviewsOf, LatestReviews
<1> QED
  BY <1>1, <1>2, <1>3

(* The first row of a candidate and of its proposal.                       *)
LEMMA ApproveKeeps ==
    ASSUME ReviewAssumption, ReviewInv, NEW k \in Clients, Approve(k)
    PROVE  ReviewsInv' /\ LogInv' /\ ReviewBeatsApproval'
<1> DEFINE r == request[k]
           c == CandidateOf[r.token.proposal]
           row == [proposal |-> r.token.proposal, token |-> r.token, at |-> r.at]
<1>1. /\ r.kind = "approve"
      /\ ApproveAllowed(r)
      /\ approval' = [approval EXCEPT ![c] = row]
      /\ lifecycle' = [lifecycle EXCEPT ![c] = "approved"]
      /\ UNCHANGED <<reviews, transitions>>
  BY DEF Approve
<1>2. ApprovalToken(r.token)
  BY <1>1 DEF ReviewInv, RequestsInv, Sent
<1>3. c \in Candidates /\ approval[c] = NoApproval
  BY <1>1, <1>2 DEF ApproveAllowed, ApprovalToken, ReviewAssumption
<1>4. row # NoApproval
  BY ApprovalIsSomething
<1>5. /\ DOMAIN approval' = Candidates
      /\ approval'[c] = row
      /\ \A d \in Candidates \ {c} : approval'[d] = approval[d]
  BY <1>1, <1>3 DEF ReviewInv, ReviewsInv
<1> HIDE DEF row
<1>6. ReviewsInv'
  <2>1. row.proposal = r.token.proposal /\ row.token = r.token
    BY DEF row
  <2>2. ASSUME NEW d \in Candidates, approval'[d] # NoApproval
        PROVE  CandidateOf[approval'[d].proposal] = d /\ approval'[d].token.issued \in Nat
    <3>1. CASE d = c
      BY <3>1, <2>1, <1>2, <1>5 DEF ApprovalToken
    <3>2. CASE d # c
      BY <3>2, <2>2, <1>5 DEF ReviewInv, ReviewsInv
    <3> QED
      BY <3>1, <3>2
  <2> QED
    BY <2>2, <1>1, <1>5 DEF ReviewInv, ReviewsInv
<1>7. LogInv'
  <2>1. /\ DOMAIN lifecycle' = Candidates
        /\ lifecycle'[c] = "approved"
        /\ \A d \in Candidates \ {c} : lifecycle'[d] = lifecycle[d]
    BY <1>1, <1>3 DEF ReviewInv, LogInv
  <2>2. \A d : TransitionsOf(d)' = TransitionsOf(d)
    BY <1>1 DEF TransitionsOf
  <2>3. TransitionsOf(c) = {}
    BY <1>3 DEF ReviewInv, LogInv
  <2>4. ASSUME NEW d \in Candidates
        PROVE  IF approval'[d] = NoApproval
               THEN lifecycle'[d] = "none" /\ TransitionsOf(d)' = {}
               ELSE \/ TransitionsOf(d)' = {} /\ lifecycle'[d] = "approved"
                    \/ LastLed(d)'
    <3>1. CASE d = c
      BY <3>1, <2>1, <2>2, <2>3, <1>4, <1>5
    <3>2. CASE d # c
      <4>1. LastLed(d) => LastLed(d)'
        BY <3>2, <2>1, <2>2 DEF LastLed
      <4> QED
        BY <4>1, <3>2, <2>1, <2>2, <1>5 DEF ReviewInv, LogInv
    <3> QED
      BY <3>1, <3>2
  <2> QED
    BY <2>1, <2>4, <1>1 DEF ReviewInv, LogInv
<1>8. ReviewBeatsApproval'
  <2>1. \A p : ReviewsOf(p)' = ReviewsOf(p) /\ LatestReviews(p)' = LatestReviews(p)
    BY <1>1 DEF ReviewsOf, LatestReviews
  <2>2. ASSUME NEW d \in Candidates, approval'[d] # NoApproval
        PROVE  LET p == approval'[d].proposal
               IN /\ \A q \in ReviewsOf(p) : q.at < approval'[d].token.issued
                  /\ ReviewsOf(p) = {} \/ \E q \in LatestReviews(p) : q.disposition = "defer"
    <3>1. CASE d = c
      <4> DEFINE p == r.token.proposal
      <4>1. approval'[d].proposal = p /\ approval'[d].token = r.token
        BY <3>1, <1>5 DEF row
      <4>2. CASE ReviewsOf(p) = {}
        BY <4>1, <4>2
      <4>3. CASE \E q \in LatestReviews(p) : ~Blocks(q, r.token)
        <5>1. PICK q \in LatestReviews(p) : ~Blocks(q, r.token)
          BY <4>3
        <5>2. /\ q \in reviews /\ q.at \in Nat /\ q.disposition \in Dispositions
              /\ \A s \in ReviewsOf(p) : s.at <= q.at /\ s.at \in Nat
          BY <5>1 DEF LatestReviews, ReviewsOf, ReviewInv, ReviewsInv
        <5>3. q.at < r.token.issued /\ q.disposition = "defer"
          BY <5>1, <5>2, <1>2 DEF Blocks, Dispositions, ApprovalToken
        <5>4. \A s \in ReviewsOf(p) : s.at < r.token.issued
          BY <5>2, <5>3, <1>2 DEF ApprovalToken
        <5> QED
          BY <5>1, <5>3, <5>4, <4>1
      <4> QED
        BY <4>2, <4>3, <1>1 DEF ApproveAllowed
    <3>2. CASE d # c
      BY <3>2, <2>2, <1>5 DEF ReviewInv, ReviewBeatsApproval
    <3> QED
      BY <3>1, <3>2
  <2> QED
    BY <2>1, <2>2 DEF ReviewBeatsApproval
<1> QED
  BY <1>6, <1>7, <1>8

(* A review is recorded only while its candidate is not approved.          *)
LEMMA RecordReviewKeeps ==
    ASSUME ReviewAssumption, ReviewInv, NEW k \in Clients, RecordReview(k)
    PROVE  ReviewsInv' /\ LogInv' /\ ReviewBeatsApproval'
<1> DEFINE r == request[k]
           new == [proposal |-> r.token.proposal, disposition |-> r.disposition,
                   issued |-> r.token.issued, at |-> r.at]
<1>1. /\ r.kind = "review"
      /\ approval[CandidateOf[r.token.proposal]] = NoApproval
      /\ reviews' = reviews \cup {new}
      /\ UNCHANGED <<approval, lifecycle, transitions>>
  BY DEF RecordReview, ReviewAllowed
<1>2. ApprovalToken(r.token) /\ r.disposition \in Dispositions /\ r.at \in Nat
  BY <1>1 DEF ReviewInv, RequestsInv, Sent, NoRequest
<1>3. /\ new.proposal = r.token.proposal /\ new.at = r.at
      /\ new.disposition = r.disposition
  OBVIOUS
<1> HIDE DEF new
<1>4. ReviewsInv'
  BY <1>1, <1>2, <1>3 DEF ReviewInv, ReviewsInv, ApprovalToken
<1>5. LogInv'
  BY <1>1 DEF ReviewInv, LogInv, LastLed, TransitionsOf
<1>6. ReviewBeatsApproval'
  <2>1. ASSUME NEW c \in Candidates, approval[c] # NoApproval
        PROVE  /\ ReviewsOf(approval[c].proposal)' = ReviewsOf(approval[c].proposal)
               /\ LatestReviews(approval[c].proposal)' = LatestReviews(approval[c].proposal)
    <3>1. approval[c].proposal # new.proposal
      BY <2>1, <1>1, <1>3 DEF ReviewInv, ReviewsInv
    <3> QED
      BY <3>1, <1>1 DEF ReviewsOf, LatestReviews
  <2> QED
    BY <2>1, <1>1 DEF ReviewInv, ReviewBeatsApproval
<1> QED
  BY <1>4, <1>5, <1>6

(* A transition becomes the last one of its experience.                    *)
LEMMA ApplyLifecycleKeeps ==
    ASSUME ReviewInv, NEW k \in Clients, ApplyLifecycle(k)
    PROVE  ReviewsInv' /\ LogInv' /\ ReviewBeatsApproval'
<1> DEFINE r == request[k]
           c == r.token.candidate
           target == states!ActionTarget[r.token.action]
           new == [candidate |-> c, from |-> lifecycle[c], to |-> target,
                   token |-> r.token, at |-> r.at, committed |-> now]
<1>1. /\ r.kind = "lifecycle"
      /\ approval[c] # NoApproval
      /\ \A t \in TransitionsOf(c) : t.at < r.at
      /\ transitions' = transitions \cup {new}
      /\ lifecycle' = [lifecycle EXCEPT ![c] = target]
      /\ UNCHANGED <<approval, reviews>>
  BY DEF ApplyLifecycle, LifecycleAllowed, Readable
<1>2. LifecycleToken(r.token) /\ r.at \in Nat
  BY <1>1 DEF ReviewInv, RequestsInv, Sent, NoRequest
<1>3. c \in Candidates
  BY <1>2 DEF LifecycleToken
<1>4. new.candidate = c /\ new.at = r.at /\ new.to = target
  OBVIOUS
<1> HIDE DEF new, target
<1>5. ReviewsInv' /\ ReviewBeatsApproval'
  BY <1>1 DEF ReviewInv, ReviewsInv, ReviewBeatsApproval, ReviewsOf, LatestReviews
<1>6. LogInv'
  <2>1. /\ DOMAIN lifecycle' = Candidates
        /\ lifecycle'[c] = target
        /\ \A d \in Candidates \ {c} : lifecycle'[d] = lifecycle[d]
    BY <1>1, <1>3 DEF ReviewInv, LogInv
  <2>2. ASSUME NEW d, d = c
        PROVE  TransitionsOf(d)' = TransitionsOf(d) \cup {new}
    BY <2>2, <1>1, <1>4 DEF TransitionsOf
  <2>3. \A d \in Candidates \ {c} : TransitionsOf(d)' = TransitionsOf(d)
    BY <1>1, <1>4 DEF TransitionsOf
  <2>4. ASSUME NEW d, d = c
        PROVE  LastLed(d)'
    <3>1. TransitionsOf(d)' = TransitionsOf(d) \cup {new}
      BY <2>2, <2>4
    <3>2. lifecycle'[d] = target
      BY <2>1, <2>4
    <3>3. \A u \in TransitionsOf(d) : u.at < new.at
      BY <1>1, <1>4, <2>4
    <3> QED
      BY <3>1, <3>2, <3>3, <1>4 DEF LastLed
  <2>5. ASSUME NEW d \in Candidates \ {c}
        PROVE  LastLed(d) => LastLed(d)'
    BY <2>1, <2>3, <2>5 DEF LastLed
  <2>6. \A t \in transitions' : t.at \in Nat /\ t.candidate \in Candidates
    BY <1>1, <1>2, <1>3, <1>4 DEF ReviewInv, LogInv
  <2>7. ASSUME NEW d \in Candidates
        PROVE  IF approval'[d] = NoApproval
               THEN lifecycle'[d] = "none" /\ TransitionsOf(d)' = {}
               ELSE \/ TransitionsOf(d)' = {} /\ lifecycle'[d] = "approved"
                    \/ LastLed(d)'
    <3>1. CASE d = c
      BY <3>1, <2>4, <1>1
    <3>2. CASE d # c
      BY <3>2, <2>1, <2>3, <2>5, <1>1 DEF ReviewInv, LogInv
    <3> QED
      BY <3>1, <3>2
  <2> QED
    BY <2>1, <2>6, <2>7 DEF LogInv
<1> QED
  BY <1>5, <1>6

(* A step of a client leaves every token and every request well formed.    *)
LEMMA RequestsKept ==
    ASSUME ReviewAssumption, ReviewInv, Next
    PROVE  RequestsInv'
<1> USE DEF ReviewInv
<1>1. CASE Tick
  BY <1>1 DEF Tick, tokens, RequestsInv, Sent, ApprovalToken, LifecycleToken
<1>2. ASSUME NEW p \in Proposals, PrepareApproval(p)
      PROVE  RequestsInv'
  BY <1>2 DEF PrepareApproval, RequestsInv, Sent, ApprovalToken, LifecycleToken
<1>3. ASSUME NEW c \in Candidates, NEW action \in states!LifecycleActions,
             PrepareLifecycle(c, action)
      PROVE  RequestsInv'
  <2> DEFINE new == [candidate |-> c, action |-> action, current |-> lifecycle[c],
                     issued |-> now]
  <2>1. LifecycleToken(new)
    BY <1>3 DEF PrepareLifecycle, LifecycleToken
  <2>2. lifecycleTokens' = lifecycleTokens \cup {new}
    BY <1>3 DEF PrepareLifecycle
  <2> HIDE DEF new
  <2> QED
    BY <2>1, <2>2, <1>3 DEF PrepareLifecycle, RequestsInv, Sent, ApprovalToken,
       LifecycleToken
<1>4. ASSUME NEW k \in Clients, NEW r, Send(k, r), Sent(r)
      PROVE  RequestsInv'
  BY <1>4 DEF Send, tokens, RequestsInv
<1>5. ASSUME NEW k \in Clients, NEW token \in approvalTokens, SendApproval(k, token)
      PROVE  RequestsInv'
  <2>1. Sent([kind |-> "approve", token |-> token, at |-> now])
    BY DEF Sent, RequestsInv
  <2> QED
    BY <2>1, <1>4, <1>5 DEF SendApproval
<1>6. ASSUME NEW k \in Clients, NEW token \in approvalTokens,
             NEW disposition \in Dispositions, SendReview(k, token, disposition)
      PROVE  RequestsInv'
  <2>1. Sent([kind |-> "review", token |-> token, at |-> now,
              disposition |-> disposition])
    BY DEF Sent, RequestsInv
  <2> QED
    BY <2>1, <1>4, <1>6 DEF SendReview
<1>7. ASSUME NEW k \in Clients, NEW token \in lifecycleTokens, SendLifecycle(k, token)
      PROVE  RequestsInv'
  <2>1. Sent([kind |-> "lifecycle", token |-> token, at |-> now])
    BY DEF Sent, RequestsInv
  <2> QED
    BY <2>1, <1>4, <1>7 DEF SendLifecycle
<1>8. ASSUME NEW k \in Clients, Refuse(k) \/ Approve(k) \/ RecordReview(k) \/ ApplyLifecycle(k)
      PROVE  RequestsInv'
  <2>1. Answered(k) /\ UNCHANGED <<now, tokens>>
    BY <1>8 DEF Refuse, Approve, RecordReview, ApplyLifecycle
  <2>2. Sent(NoRequest)
    BY DEF Sent, NoRequest
  <2> QED
    BY <2>1, <2>2 DEF Answered, tokens, RequestsInv
<1> QED
  BY <1>1, <1>2, <1>3, <1>5, <1>6, <1>7, <1>8 DEF Next

(* One step of the system keeps the whole invariant.                       *)
LEMMA NextReview ==
    ASSUME ReviewAssumption, ReviewInv, [Next]_vars
    PROVE  ReviewInv'
<1>1. CASE UNCHANGED vars
  <2>1. RequestsInv'
    BY <1>1 DEF vars, tokens, ReviewInv, RequestsInv, Sent, ApprovalToken, LifecycleToken
  <2> QED
    BY <1>1, <2>1, TablesKept DEF vars, ReviewInv
<1>2. CASE Next
  <2>1. RequestsInv'
    BY <1>2, RequestsKept
  <2>2. CASE UNCHANGED tables
    BY <2>1, <2>2, TablesKept DEF ReviewInv
  <2>3. CASE \E k \in Clients : Approve(k)
    BY <2>1, <2>3, ApproveKeeps DEF ReviewInv
  <2>4. CASE \E k \in Clients : RecordReview(k)
    BY <2>1, <2>4, RecordReviewKeeps DEF ReviewInv
  <2>5. CASE \E k \in Clients : ApplyLifecycle(k)
    BY <2>1, <2>5, ApplyLifecycleKeeps DEF ReviewInv
  <2> QED
    BY <1>2, <2>2, <2>3, <2>4, <2>5 DEF Next, Tick, PrepareApproval, PrepareLifecycle,
       Send, SendApproval, SendReview, SendLifecycle, Refuse
<1> QED
  BY <1>1, <1>2
-----------------------------------------------------------------------------
(* The inductive invariant holds throughout: whatever tokens are presented *)
(* again, late or together, what they carry stays allowed, and the log of  *)
(* each experience has one last transition (SubmitExperienceReview,        *)
(* ApplyExperienceLifecycle).                                              *)
THEOREM ReviewSafe == Spec => []ReviewInv
<1>1. Init => ReviewInv
  BY InitReview
<1>2. ReviewInv /\ [Next]_vars => ReviewInv'
  BY NextReview, ReviewAssumption
<1> QED
  BY <1>1, <1>2, PTL DEF Spec

(* An approval never stands against a rejection, nor against a review that *)
(* was taken after its token was minted (ApproveExperienceProposal).       *)
THEOREM ReviewedIsNotOverruled == Spec => []ReviewBeatsApproval
<1>1. ReviewInv => ReviewBeatsApproval
  BY DEF ReviewInv
<1> QED
  BY <1>1, ReviewSafe, PTL

(* The state column is what the log of transitions rebuilds, without a tie *)
(* (appendExperienceTransitionTx).                                         *)
THEOREM ColumnIsProjected == Spec => []LifecycleProjected
<1>1. ASSUME ReviewInv PROVE LifecycleProjected
  <2>1. ASSUME NEW c \in Candidates, approval[c] # NoApproval
        PROVE  RebuiltStates(c) = {lifecycle[c]}
    <3>1. CASE TransitionsOf(c) = {} /\ lifecycle[c] = "approved"
      BY <3>1 DEF RebuiltStates
    <3>2. CASE LastLed(c)
      <4>1. PICK t \in TransitionsOf(c) :
                /\ t.to = lifecycle[c]
                /\ \A u \in TransitionsOf(c) : u = t \/ u.at < t.at
        BY <3>2 DEF LastLed
      <4>2. \A u \in TransitionsOf(c) : u.at \in Nat
        BY <1>1 DEF ReviewInv, LogInv, TransitionsOf
      <4>3. \A u \in TransitionsOf(c) :
                (\A v \in TransitionsOf(c) : v.at <= u.at) <=> u = t
        BY <4>1, <4>2
      <4>4. {u \in TransitionsOf(c) : \A v \in TransitionsOf(c) : v.at <= u.at} = {t}
        BY <4>1, <4>3
      <4> QED
        BY <4>1, <4>4 DEF RebuiltStates
    <3> QED
      BY <3>1, <3>2, <2>1, <1>1 DEF ReviewInv, LogInv
  <2> QED
    BY <2>1 DEF LifecycleProjected
<1> QED
  BY <1>1, ReviewSafe, PTL

(* Every step of the tables is a step of the lifecycle or none: replayed,  *)
(* expired and crossed tokens never take an experience where no action     *)
(* leads (ExperienceStates).                                               *)
THEOREM LifecycleImplemented == Spec => LifecycleIsRespected
<1>1. Init => states!Init
  BY DEF Init, states!Init
<1>2. ASSUME ReviewInv, [Next]_vars
      PROVE  [states!Next]_lifecycle
  <2>1. ASSUME NEW k \in Clients, Approve(k)
        PROVE  states!Next
    <3> DEFINE c == CandidateOf[request[k].token.proposal]
    <3>1. /\ request[k].kind = "approve"
          /\ approval[c] = NoApproval
          /\ lifecycle' = [lifecycle EXCEPT ![c] = "approved"]
      BY <2>1 DEF Approve, ApproveAllowed
    <3>2. c \in Candidates
      BY <3>1, <1>2, ReviewAssumption DEF ReviewInv, RequestsInv, Sent, ApprovalToken
    <3>3. lifecycle[c] = "none"
      BY <3>1, <3>2, <1>2 DEF ReviewInv, LogInv
    <3> HIDE DEF c
    <3>4. states!Approve(c)
      BY <3>1, <3>3 DEF states!Approve
    <3> QED
      BY <3>2, <3>4 DEF states!Next
  <2>2. ASSUME NEW k \in Clients, ApplyLifecycle(k)
        PROVE  states!Next
    <3> DEFINE c == request[k].token.candidate
               action == request[k].token.action
    <3>1. /\ request[k].kind = "lifecycle"
          /\ lifecycle[c] = request[k].token.current
          /\ lifecycle' = [lifecycle EXCEPT ![c] = states!ActionTarget[action]]
      BY <2>2 DEF ApplyLifecycle, LifecycleAllowed
    <3>2. LifecycleToken(request[k].token)
      BY <3>1, <1>2 DEF ReviewInv, RequestsInv, Sent
    <3>3. /\ c \in Candidates
          /\ action \in states!LifecycleActions
          /\ states!TransitionAllowed(action, lifecycle[c])
      BY <3>1, <3>2 DEF LifecycleToken
    <3> HIDE DEF c, action
    <3>4. states!Act(c, action)
      BY <3>1, <3>3 DEF states!Act
    <3> QED
      BY <3>3, <3>4 DEF states!Next
  <2>3. CASE UNCHANGED lifecycle
    BY <2>3
  <2> QED
    BY <1>2, <2>1, <2>2, <2>3 DEF Next, vars, tables, Tick, PrepareApproval,
       PrepareLifecycle, Send, SendApproval, SendReview, SendLifecycle, Refuse,
       RecordReview
<1> QED
  BY <1>1, <1>2, ReviewSafe, PTL DEF Spec, LifecycleIsRespected, states!Spec
=============================================================================
