---------------------------- MODULE SocialPosting ----------------------------
(***************************************************************************)
(* Replies to one post from one social account (routers/drafts.py,            *)
(* services/sender.py, services/sync.py): the owner approves, retries or       *)
(* rejects drafts; a send locks the account's row, renews a single-use refresh *)
(* token if it must, stages an attribution row and posts; the feed sync renews *)
(* the same token without the lock.                                           *)
(*                                                                          *)
(* A request acts on the draft it loaded.  A step is one query, commit or call. *)
(***************************************************************************)
EXTENDS Integers

CONSTANTS
    Drafts,         \* drafts for the same post
    Linked,         \* those whose text has a link to the owner's site
    Reviews,        \* approve, retry and reject requests
    Syncs,
    MaxRenewals,    \* bound: times the access token expires
    MaxComments,    \* bound: comments made
    MaxMishaps      \* bound: lost answers and dying requests

ASSUME PostingAssumption ==
    /\ Drafts # {} /\ Linked \subseteq Drafts
    /\ MaxRenewals \in Nat /\ MaxComments \in Nat /\ MaxMishaps \in Nat

VARIABLES
    draft,          \* drafts.status
    attributed,     \* drafts with a committed row in engagement_attributions
    token,          \* which refresh token the social account's row holds
    expired,        \* access tokens that came with an older one have expired
    spendable,      \* which refresh token the platform takes
    locked,         \* the requests (at most one) with a FOR UPDATE lock on that row
    click, sync,    \* each request and sync: its step and what it has loaded
    \* history
    posted,         \* drafts that are on the platform
    comments,       \* comments made there
    doubtful,       \* two requests overlapped, or an answer of the platform was lost
    respent,        \* a send presented a refresh token that was spent
    loose,          \* a refresh token was spent by a sync, or by a send that did not store the next
    mishaps

postingVars == <<draft, attributed, token, expired, spendable, locked, click, sync,
                 posted, comments, doubtful, respent, loose, mishaps>>

Steps == {"off", "approve", "pick", "siblings", "retry", "reject",
          "lock", "renew", "store", "post", "sent", "failed", "unposted"}

PostingTypeOK ==
    /\ draft \in [Drafts -> {"pending", "approved", "sent", "failed", "rejected"}]
    /\ attributed \subseteq Drafts
    /\ token \in 0..MaxRenewals /\ expired \in 0..MaxRenewals /\ spendable \in 0..MaxRenewals
    /\ locked \subseteq Reviews /\ \A b, c \in locked : b = c
    /\ click \in [Reviews -> [at : Steps, of : Drafts, siblings : SUBSET Drafts]]
    /\ sync \in [Syncs -> [at : {"off", "loaded", "store"}, token : 0..MaxRenewals]]
    /\ posted \subseteq Drafts /\ comments \in 0..MaxComments
    /\ doubtful \in BOOLEAN /\ respent \in BOOLEAN /\ loose \in BOOLEAN
    /\ mishaps \in 0..MaxMishaps

NoClick == [at |-> "off", of |-> CHOOSE d \in Drafts : TRUE, siblings |-> {}]

PostingInit ==
    /\ draft = [d \in Drafts |-> "pending"]
    /\ attributed = {}
    /\ token = 0 /\ expired = 0 /\ spendable = 0
    /\ locked = {}
    /\ click = [c \in Reviews |-> NoClick]
    /\ sync = [s \in Syncs |-> [at |-> "off", token |-> 0]]
    /\ posted = {} /\ comments = 0
    /\ doubtful = FALSE /\ respent = FALSE /\ loose = FALSE
    /\ mishaps = 0

-----------------------------------------------------------------------------
(* Helpers *)

tokenVars == <<token, expired, spendable, respent, loose>>
postVars == <<posted, comments>>
otherVars == <<tokenVars, sync, mishaps>>

ClickGoto(c, step) == click' = [click EXCEPT ![c].at = step]
SetStatus(c, status) == draft' = [draft EXCEPT ![click[c].of] = status]
Mishap == mishaps < MaxMishaps /\ mishaps' = mishaps + 1

\* A request loads a draft; others may be under way.
LoadDraft(c, d, step) ==
    /\ click[c].at = "off"
    /\ click' = [click EXCEPT ![c] = [at |-> step, of |-> d, siblings |-> {}]]
    /\ doubtful' = (doubtful \/ \E b \in Reviews : click[b].at # "off")
    /\ UNCHANGED <<draft, attributed, locked, postVars, otherVars>>

\* The access token of the account's row expires.
ExpireToken ==
    /\ expired <= token /\ token < MaxRenewals
    /\ expired' = token + 1
    /\ UNCHANGED <<draft, attributed, token, spendable, locked, click, sync, postVars, doubtful,
                   respent, loose, mishaps>>

-----------------------------------------------------------------------------
(* approve_draft, retry_draft, reject_draft *)

\* Bug: approves a draft whatever became of it.
LoadApprovalBug(c, d) == LoadDraft(c, d, "approve")

LoadApproval(c, d) == draft[d] = "pending" /\ LoadDraft(c, d, "approve")

LoadRetry(c, d) == draft[d] = "failed" /\ LoadDraft(c, d, "retry")

LoadRejection(c, d) == draft[d] # "rejected" /\ LoadDraft(c, d, "reject")

ApproveDraft(c) ==
    /\ click[c].at = "approve"
    /\ SetStatus(c, "approved") /\ ClickGoto(c, "pick")
    /\ UNCHANGED <<attributed, locked, postVars, doubtful, otherVars>>

\* _auto_reject_siblings: what is pending now is rejected, a commit for each.
PickSiblings(c) ==
    LET others == {d \in Drafts \ {click[c].of} : draft[d] = "pending"} IN
    /\ click[c].at = "pick"
    /\ click' = [click EXCEPT ![c] = [at |-> "siblings", of |-> @.of, siblings |-> others]]
    /\ UNCHANGED <<draft, attributed, locked, postVars, doubtful, otherVars>>

RejectSibling(c) ==
    /\ click[c].at = "siblings"
    /\ \E d \in click[c].siblings :
          /\ draft' = [draft EXCEPT ![d] = "rejected"]
          /\ click' = [click EXCEPT ![c].siblings = @ \ {d}]
    /\ UNCHANGED <<attributed, locked, postVars, doubtful, otherVars>>

\* An error on the way is caught, but its rollback expires the draft: ClickDies.
SiblingsDone(c) ==
    /\ click[c].at = "siblings" /\ click[c].siblings = {}
    /\ ClickGoto(c, "lock")
    /\ UNCHANGED <<draft, attributed, locked, postVars, doubtful, otherVars>>

RetryDraft(c) ==
    /\ click[c].at = "retry"
    /\ SetStatus(c, "approved") /\ ClickGoto(c, "lock")
    /\ UNCHANGED <<attributed, locked, postVars, doubtful, otherVars>>

RejectDraft(c) ==
    /\ click[c].at = "reject"
    /\ SetStatus(c, "rejected") /\ ClickGoto(c, "off")
    /\ UNCHANGED <<attributed, locked, postVars, doubtful, otherVars>>

-----------------------------------------------------------------------------
(* send_draft *)

\* The post or the account is gone, or there is nothing to reply to.
NoTarget(c) ==
    /\ click[c].at = "lock"
    /\ ClickGoto(c, "failed")
    /\ UNCHANGED <<draft, attributed, locked, postVars, doubtful, otherVars>>

\* Bug: a SELECT without FOR UPDATE.
LockAccountBug(c) ==
    /\ click[c].at = "lock"
    /\ locked' = locked \union {c}
    /\ ClickGoto(c, IF expired <= token THEN "post" ELSE "renew")
    /\ UNCHANGED <<draft, attributed, postVars, doubtful, otherVars>>

\* SELECT ... FOR UPDATE waits, and reads what the last holder committed.
LockAccount(c) ==
    /\ click[c].at = "lock" /\ locked = {}
    /\ locked' = {c}
    /\ ClickGoto(c, IF expired <= token THEN "post" ELSE "renew")
    /\ UNCHANGED <<draft, attributed, postVars, doubtful, otherVars>>

\* _refresh_if_expired.  A token that was spent is refused.
RenewToken(c) ==
    /\ click[c].at = "renew"
    /\ \/ /\ token = spendable
          /\ spendable' = spendable + 1
          /\ \/ ClickGoto(c, "store") /\ UNCHANGED <<loose, mishaps>>
             \/ ClickGoto(c, "failed") /\ Mishap /\ loose' = TRUE
          /\ UNCHANGED respent
       \/ /\ token # spendable
          /\ respent' = TRUE
          /\ ClickGoto(c, "failed") /\ UNCHANGED <<spendable, loose, mishaps>>
       \/ ClickGoto(c, "failed") /\ UNCHANGED <<spendable, respent, loose, mishaps>>
    /\ UNCHANGED <<draft, attributed, token, expired, locked, sync, postVars, doubtful>>

\* The commit releases the row.
StoreToken(c) ==
    /\ click[c].at = "store"
    /\ token' = spendable
    /\ locked' = {} /\ ClickGoto(c, "post")
    /\ UNCHANGED <<draft, attributed, expired, spendable, sync, postVars, doubtful, respent, loose,
                   mishaps>>

\* The attribution row is staged by now; then post_comment.
PostComment(c) ==
    LET d == click[c].of IN
    /\ click[c].at = "post" /\ comments < MaxComments
    /\ \/ /\ posted' = posted \union {d} /\ comments' = comments + 1
          /\ \/ ClickGoto(c, "sent") /\ UNCHANGED <<doubtful, mishaps>>
             \/ ClickGoto(c, "unposted") /\ Mishap /\ doubtful' = TRUE
       \/ ClickGoto(c, "unposted") /\ UNCHANGED <<postVars, doubtful, mishaps>>
    /\ UNCHANGED <<draft, attributed, locked, sync, tokenVars>>

MarkSent(c) ==
    /\ click[c].at = "sent"
    /\ SetStatus(c, "sent")
    /\ attributed' = attributed \union ({click[c].of} \intersect Linked)
    /\ locked' = locked \ {c} /\ ClickGoto(c, "off")
    /\ UNCHANGED <<postVars, doubtful, otherVars>>

\* The same session commits, and with it what was staged.
MarkUnsent(c) ==
    /\ click[c].at \in {"failed", "unposted"}
    /\ SetStatus(c, "failed")
    /\ attributed' = IF click[c].at = "unposted"
                     THEN attributed \union ({click[c].of} \intersect Linked) ELSE attributed
    /\ locked' = locked \ {c} /\ ClickGoto(c, "off")
    /\ UNCHANGED <<postVars, doubtful, otherVars>>

\* The draft stays as it is; an approved one can be neither approved nor retried.
ClickDies(c) ==
    /\ click[c].at # "off"
    /\ Mishap
    /\ loose' = (loose \/ click[c].at = "store")
    /\ locked' = locked \ {c} /\ ClickGoto(c, "off")
    /\ UNCHANGED <<draft, attributed, token, expired, spendable, sync, postVars, doubtful, respent>>

-----------------------------------------------------------------------------
(* sync_account_feed: _get_fresh_token on a row that was loaded without a lock *)

LoadAccount(s) ==
    /\ sync[s].at = "off"
    /\ sync' = [sync EXCEPT ![s] = [at |-> "loaded", token |-> token]]
    /\ UNCHANGED <<draft, attributed, locked, click, postVars, doubtful, tokenVars, mishaps>>

\* Valid, or refused: the sync goes on without storing anything.
UseToken(s) ==
    /\ sync[s].at = "loaded"
    /\ sync' = [sync EXCEPT ![s].at = "off"]
    /\ UNCHANGED <<draft, attributed, locked, click, postVars, doubtful, tokenVars, mishaps>>

SyncRenews(s) ==
    /\ sync[s].at = "loaded"
    /\ sync[s].token < expired /\ sync[s].token = spendable
    /\ spendable' = spendable + 1 /\ loose' = TRUE
    /\ sync' = [sync EXCEPT ![s].at = "store"]
    /\ UNCHANGED <<draft, attributed, token, expired, locked, click, postVars, doubtful, respent,
                   mishaps>>

\* The UPDATE waits for the lock.
SyncStores(s) ==
    /\ sync[s].at = "store" /\ locked = {}
    /\ token' = sync[s].token + 1
    /\ sync' = [sync EXCEPT ![s].at = "off"]
    /\ UNCHANGED <<draft, attributed, expired, spendable, locked, click, postVars, doubtful, respent,
                   loose, mishaps>>

PostingNext ==
    \/ ExpireToken
    \/ \E c \in Reviews :
          \/ \E d \in Drafts : LoadApproval(c, d) \/ LoadRetry(c, d) \/ LoadRejection(c, d)
          \/ ApproveDraft(c) \/ PickSiblings(c) \/ RejectSibling(c) \/ SiblingsDone(c)
          \/ RetryDraft(c) \/ RejectDraft(c) \/ NoTarget(c) \/ LockAccount(c)
          \/ RenewToken(c) \/ StoreToken(c) \/ PostComment(c)
          \/ MarkSent(c) \/ MarkUnsent(c) \/ ClickDies(c)
    \/ \E s \in Syncs : LoadAccount(s) \/ UseToken(s) \/ SyncRenews(s) \/ SyncStores(s)

PostingSpec == PostingInit /\ [][PostingNext]_postingVars

-----------------------------------------------------------------------------
(* Properties *)

\* One request after the other makes one comment on the post, whichever of the
\* sibling drafts, along any path of approvals, retries and rejections: a second
\* takes requests that overlap or an answer that got lost (the status checks of
\* drafts.py and _auto_reject_siblings).
SecondCommentNeedsRace == comments > 1 => doubtful

\* Sends do not spend a refresh token twice among themselves
\* (_refresh_if_expired: "never consumed twice"): it takes a sync, which has no
\* lock, a lost answer, or a request that dies before it stored the next token.
SpentTwiceNeedsSync == respent => loose

\* No second comment and no token spent twice, but for these reasons.
PostingSound == SecondCommentNeedsRace /\ SpentTwiceNeedsSync

\* "A failed post leaves no orphan row" (sender.py): only what was posted is
\* attributed.
NoOrphanAttribution == attributed \subseteq posted
=============================================================================
