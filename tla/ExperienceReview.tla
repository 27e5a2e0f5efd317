-------------------------- MODULE ExperienceReview --------------------------
(***************************************************************************)
(* From a proposed lesson to an experience in force: previews that mint    *)
(* action tokens, the approval, deferral or rejection of a proposal, and   *)
(* the lifecycle actions on an approved experience.                        *)
(*                                                                         *)
(* Every request is made of two steps that other clients, of this process  *)
(* or of another one on the same store, may fall between: the service      *)
(* decodes the token and reads the clock (the time the action will carry), *)
(* then one SQLite transaction checks and writes.  A request may also die  *)
(* between the two.  Tokens stay with whoever read the preview, so any     *)
(* token ever minted may be presented by any client at any time, again     *)
(* after it was used, and together with others.                            *)
(*                                                                         *)
(* Abstracted: what a proposal says, and with it the approval mode (a      *)
(* second approval of a candidate writes nothing, a replay or a conflict), *)
(* the MAC of a token (a token is its claims), the candidate and proposal  *)
(* rows, which are immutable once written.  The service's two clock        *)
(* readings before the transaction (the action's time and the store's own  *)
(* now) are one instant.                                                   *)
(***************************************************************************)
EXTENDS Naturals, FiniteSets

CONSTANTS Candidates,      \* candidates mined from the evidence
          Proposals,       \* semantic proposals about them
          CandidateOf,     \* [Proposals -> Candidates]
          Clients,         \* concurrent requests
          Lifetime,        \* how long a token may be presented
          MaxTime,         \* bound on the clock
          MaxApprovalTokens,   \* bounds on the tokens ever minted
          MaxLifecycleTokens

ASSUME ReviewAssumption ==
    /\ CandidateOf \in [Proposals -> Candidates]
    /\ Lifetime \in Nat
    /\ MaxTime \in Nat
    /\ MaxApprovalTokens \in Nat
    /\ MaxLifecycleTokens \in Nat

VARIABLES now,             \* the wall clock
          approvalTokens,  \* tokens minted by approval previews
          lifecycleTokens, \* tokens minted by lifecycle previews
          request,         \* [Clients -> the request decoded and not yet stored]
          reviews,         \* experience_review_actions
          approval,        \* [Candidates -> the approved version 1, or NoApproval]
          lifecycle,       \* the lifecycle_state column
          transitions      \* experience_transitions

tables == <<reviews, approval, lifecycle, transitions>>
tokens == <<approvalTokens, lifecycleTokens>>
vars == <<now, tokens, request, tables>>

NoRequest == [kind |-> "none"]
NoApproval == [proposal |-> "none"]
Dispositions == {"defer", "reject"}

states == INSTANCE ExperienceStates WITH Experiences <- Candidates
-----------------------------------------------------------------------------
(* Readings of the tables. *)
Fresh(token) == now <= token.issued + Lifetime

ReviewsOf(p) == {r \in reviews : r.proposal = p}

(* The latest review by the time the reviewer acted; among equals the      *)
(* action's identifier, a digest, decides.                                 *)
LatestReviews(p) ==
    {r \in ReviewsOf(p) : \A q \in ReviewsOf(p) : q.at <= r.at}

Blocks(review, token) == \/ review.at >= token.issued
                         \/ review.disposition = "reject"

TransitionsOf(c) == {t \in transitions : t.candidate = c}

(* The state rebuilt from the log, which every reader compares with the    *)
(* column.                                                                 *)
RebuiltStates(c) ==
    IF TransitionsOf(c) = {}
    THEN {"approved"}
    ELSE {t.to : t \in {t \in TransitionsOf(c) :
                            \A u \in TransitionsOf(c) : u.at <= t.at}}

Readable(c) == approval[c] # NoApproval /\ lifecycle[c] \in RebuiltStates(c)
-----------------------------------------------------------------------------
Init ==
    /\ now = 0
    /\ approvalTokens = {} /\ lifecycleTokens = {}
    /\ request = [k \in Clients |-> NoRequest]
    /\ reviews = {} /\ transitions = {}
    /\ approval = [c \in Candidates |-> NoApproval]
    /\ lifecycle = [c \in Candidates |-> "none"]

Tick ==
    /\ now < MaxTime
    /\ now' = now + 1
    /\ UNCHANGED <<tokens, request, tables>>

(* An approval preview is minted for any proposal, reviewed and approved   *)
(* ones included: the checks are the approval's.                           *)
PrepareApproval(p) ==
    /\ Cardinality(approvalTokens) < MaxApprovalTokens
    /\ approvalTokens' = approvalTokens \cup {[proposal |-> p, issued |-> now]}
    /\ UNCHANGED <<now, lifecycleTokens, request, tables>>

PrepareLifecycle(c, action) ==
    /\ Cardinality(lifecycleTokens) < MaxLifecycleTokens
    /\ Readable(c)
    /\ states!TransitionAllowed(action, lifecycle[c])
    /\ lifecycleTokens' = lifecycleTokens \cup
           {[candidate |-> c, action |-> action, current |-> lifecycle[c],
             issued |-> now]}
    /\ UNCHANGED <<now, approvalTokens, request, tables>>

(* The service half of a request: the token is decoded, which refuses an   *)
(* expired one, and the action's time is taken.                            *)
Send(k, r) ==
    /\ request[k] = NoRequest
    /\ Fresh(r.token)
    /\ request' = [request EXCEPT ![k] = r]
    /\ UNCHANGED <<now, tokens, tables>>

SendApproval(k, token) ==
    /\ token \in approvalTokens
    /\ Send(k, [kind |-> "approve", token |-> token, at |-> now])

SendReview(k, token, disposition) ==
    /\ token \in approvalTokens
    /\ Send(k, [kind |-> "review", token |-> token, at |-> now,
                disposition |-> disposition])

SendLifecycle(k, token) ==
    /\ token \in lifecycleTokens
    /\ Send(k, [kind |-> "lifecycle", token |-> token, at |-> now])

Answered(k) == request' = [request EXCEPT ![k] = NoRequest]

(* A request refused by its transaction, or a process that died before it. *)
Refuse(k) ==
    /\ request[k] # NoRequest
    /\ Answered(k)
    /\ UNCHANGED <<now, tokens, tables>>

(* Mutant: an approval does not look for an earlier one of its candidate.  *)
MutApproveAllowed(r) ==
    \/ ReviewsOf(r.token.proposal) = {}
    \/ \E review \in LatestReviews(r.token.proposal) : ~Blocks(review, r.token)

(* Approving reads the latest review and any earlier approval of the same  *)
(* candidate inside the transaction; the token's expiry is not read again. *)
ApproveAllowed(r) ==
    /\ \/ ReviewsOf(r.token.proposal) = {}
       \/ \E review \in LatestReviews(r.token.proposal) : ~Blocks(review, r.token)
    /\ approval[CandidateOf[r.token.proposal]] = NoApproval

Approve(k) ==
    LET r == request[k]
        c == CandidateOf[r.token.proposal]
    IN /\ r.kind = "approve"
       /\ ApproveAllowed(r)
       /\ approval' = [approval EXCEPT ![c] =
              [proposal |-> r.token.proposal, token |-> r.token, at |-> r.at]]
       /\ lifecycle' = [lifecycle EXCEPT ![c] = "approved"]
       /\ Answered(k)
       /\ UNCHANGED <<now, tokens, reviews, transitions>>

(* A review is an insert keyed by (proposal, disposition, issue time): a   *)
(* second one under that key is a replay if it is the same action and a    *)
(* conflict otherwise, and either way writes nothing.                      *)
SameReviewKey(review, r) ==
    /\ review.proposal = r.token.proposal
    /\ review.disposition = r.disposition
    /\ review.issued = r.token.issued

(* Mutant: a review of an approved candidate is recorded.                  *)
MutReviewAllowed(r) == \A review \in reviews : ~SameReviewKey(review, r)

ReviewAllowed(r) ==
    /\ \A review \in reviews : ~SameReviewKey(review, r)
    /\ approval[CandidateOf[r.token.proposal]] = NoApproval

RecordReview(k) ==
    LET r == request[k]
    IN /\ r.kind = "review"
       /\ ReviewAllowed(r)
       /\ reviews' = reviews \cup
              {[proposal |-> r.token.proposal, disposition |-> r.disposition,
                issued |-> r.token.issued, at |-> r.at]}
       /\ Answered(k)
       /\ UNCHANGED <<now, tokens, approval, lifecycle, transitions>>

(* Mutant: the time of a transition may equal that of an earlier one.      *)
MutLifecycleAllowed(r) ==
    LET c == r.token.candidate
    IN /\ Fresh(r.token)
       /\ Readable(c)
       /\ lifecycle[c] = r.token.current
       /\ \A t \in TransitionsOf(c) : t.at <= r.at

(* A lifecycle action checks the token's expiry and the state the token    *)
(* was minted from again inside the transaction, and its time must follow  *)
(* that of every earlier transition.                                       *)
LifecycleAllowed(r) ==
    LET c == r.token.candidate
    IN /\ Fresh(r.token)
       /\ Readable(c)
       /\ lifecycle[c] = r.token.current
       /\ \A t \in TransitionsOf(c) : t.at < r.at

ApplyLifecycle(k) ==
    LET r == request[k]
        c == r.token.candidate
        target == states!ActionTarget[r.token.action]
    IN /\ r.kind = "lifecycle"
       /\ LifecycleAllowed(r)
       /\ transitions' = transitions \cup
              {[candidate |-> c, from |-> lifecycle[c], to |-> target,
                token |-> r.token, at |-> r.at, committed |-> now]}
       /\ lifecycle' = [lifecycle EXCEPT ![c] = target]
       /\ Answered(k)
       /\ UNCHANGED <<now, tokens, reviews, approval>>

Next ==
    \/ Tick
    \/ \E p \in Proposals : PrepareApproval(p)
    \/ \E c \in Candidates, action \in states!LifecycleActions :
          PrepareLifecycle(c, action)
    \/ \E k \in Clients :
          \/ \E token \in approvalTokens :
                \/ SendApproval(k, token)
                \/ \E disposition \in Dispositions :
                      SendReview(k, token, disposition)
          \/ \E token \in lifecycleTokens : SendLifecycle(k, token)
          \/ Refuse(k) \/ Approve(k) \/ RecordReview(k) \/ ApplyLifecycle(k)

Spec == Init /\ [][Next]_vars
-----------------------------------------------------------------------------
(* The column every list filters by is the state the log rebuilds, and     *)
(* rebuilds it without a tie: no two transitions of one experience carry   *)
(* the same time (appendExperienceTransitionTx; experienceSelectSQL would  *)
(* refuse to read the experience otherwise).                               *)
LifecycleProjected ==
    \A c \in Candidates :
        approval[c] # NoApproval => RebuiltStates(c) = {lifecycle[c]}

(* No approval stands against the user's other answers: every review of    *)
(* the approved proposal was taken before the approving token was minted,  *)
(* and the last of them is not a rejection.                                *)
ReviewBeatsApproval ==
    \A c \in Candidates : approval[c] # NoApproval =>
        LET p == approval[c].proposal
        IN /\ \A r \in ReviewsOf(p) : r.at < approval[c].token.issued
           /\ ReviewsOf(p) = {} \/ \E r \in LatestReviews(p) : r.disposition = "defer"

(* The detailed system implements the lifecycle.                           *)
LifecycleIsRespected == states!Spec
=============================================================================
