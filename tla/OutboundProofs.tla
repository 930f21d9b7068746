--------------------------- MODULE OutboundProofs ---------------------------
(***************************************************************************)
(* What goes out, for any number of drafts, pushes, members, requests and      *)
(* jobs: PostingSound, PushesSound and ReferralsSound, and the types of the    *)
(* composition that is model-checked.                                         *)
(***************************************************************************)
EXTENDS MCOutbound, InactivityProofs

-----------------------------------------------------------------------------
(* Social posting *)

\* The steps from the lock of the account's row to the mark of the draft.
Sending == {"lock", "renew", "store", "post", "sent", "failed", "unposted"}

\* No draft can be approved or retried any more.
AllSettled == \A d \in Drafts : draft[d] \notin {"pending", "failed"}

\* One request after the other: the draft it loaded is still what it was, and what
\* it sends is the only draft that may still be sent.
OneByOne ==
    /\ \A b, c \in Reviews : click[b].at # "off" /\ click[c].at # "off" => b = c
    /\ \A d, e \in Drafts : draft[d] = "failed" =>
          draft[e] # "pending" /\ (draft[e] = "failed" => d = e)
    /\ \A c \in Reviews :
          /\ click[c].at = "approve" => draft[click[c].of] = "pending"
          /\ click[c].at = "retry" => draft[click[c].of] = "failed"
          /\ click[c].at = "pick" => draft[click[c].of] # "pending"
          /\ click[c].at \in {"pick", "siblings"} => \A d \in Drafts : draft[d] # "failed"
          /\ click[c].at = "siblings" => \A d \in Drafts : draft[d] = "pending" => d \in click[c].siblings
          /\ click[c].at \in Sending => AllSettled

\* A comment is the last one: nothing is left to send, and nobody is about to.
OneComment ==
    /\ comments <= 1
    /\ comments = 1 => AllSettled /\ \A c \in Reviews : click[c].at \in {"off", "sent", "reject"}

\* The row's lock covers a renewal up to its commit.
RenewalLocked ==
    /\ \A c \in Reviews : click[c].at \in {"renew", "store"} => locked = {c}
    /\ \A c \in Reviews : click[c].at = "renew" => token < expired

\* The row holds the token the platform takes, but between a renewal and its commit.
TokenCurrent ==
    /\ (\A c \in Reviews : click[c].at # "store") => token = spendable
    /\ \A c \in Reviews : click[c].at = "store" => spendable = token + 1

\* A sync about to store a token has spent one, and the next is in range.
SyncLoose == \A s \in Syncs : sync[s].at = "store" => loose /\ sync[s].token < MaxRenewals

PostingInv ==
    /\ PostingTypeOK
    /\ RenewalLocked /\ SyncLoose
    /\ ~doubtful => OneByOne /\ OneComment
    /\ ~loose => TokenCurrent /\ ~respent
\* Every step keeps the types.
LEMMA PostingTypeStep == PostingInv /\ [PostingNext]_postingVars => PostingTypeOK'
<1> SUFFICES ASSUME PostingInv, [PostingNext]_postingVars
             PROVE  PostingTypeOK'
    OBVIOUS
<1> USE PostingAssumption DEF PostingInv, PostingTypeOK, RenewalLocked, SyncLoose, Steps
<1>1. CASE ExpireToken
    BY <1>1 DEF ExpireToken, postVars, otherVars, tokenVars
<1>2. ASSUME NEW c \in Reviews, NEW d \in Drafts, LoadApproval(c, d)
      PROVE  PostingTypeOK'
    BY <1>2 DEF LoadApproval, LoadDraft, postVars, otherVars, tokenVars
<1>3. ASSUME NEW c \in Reviews, NEW d \in Drafts, LoadRetry(c, d)
      PROVE  PostingTypeOK'
    BY <1>3 DEF LoadRetry, LoadDraft, postVars, otherVars, tokenVars
<1>4. ASSUME NEW c \in Reviews, NEW d \in Drafts, LoadRejection(c, d)
      PROVE  PostingTypeOK'
    BY <1>4 DEF LoadRejection, LoadDraft, postVars, otherVars, tokenVars
<1>5. ASSUME NEW c \in Reviews, ApproveDraft(c)
      PROVE  PostingTypeOK'
    BY <1>5 DEF ApproveDraft, SetStatus, ClickGoto, postVars, otherVars, tokenVars
<1>6. ASSUME NEW c \in Reviews, PickSiblings(c)
      PROVE  PostingTypeOK'
    BY <1>6 DEF PickSiblings, postVars, otherVars, tokenVars
<1>7. ASSUME NEW c \in Reviews, RejectSibling(c)
      PROVE  PostingTypeOK'
    BY <1>7 DEF RejectSibling, postVars, otherVars, tokenVars
<1>8. ASSUME NEW c \in Reviews, SiblingsDone(c)
      PROVE  PostingTypeOK'
    BY <1>8 DEF SiblingsDone, ClickGoto, postVars, otherVars, tokenVars
<1>9. ASSUME NEW c \in Reviews, RetryDraft(c)
      PROVE  PostingTypeOK'
    BY <1>9 DEF RetryDraft, SetStatus, ClickGoto, postVars, otherVars, tokenVars
<1>10. ASSUME NEW c \in Reviews, RejectDraft(c)
      PROVE  PostingTypeOK'
    BY <1>10 DEF RejectDraft, SetStatus, ClickGoto, postVars, otherVars, tokenVars
<1>11. ASSUME NEW c \in Reviews, NoTarget(c)
      PROVE  PostingTypeOK'
    BY <1>11 DEF NoTarget, ClickGoto, postVars, otherVars, tokenVars
<1>12. ASSUME NEW c \in Reviews, LockAccount(c)
      PROVE  PostingTypeOK'
    BY <1>12 DEF LockAccount, ClickGoto, postVars, otherVars, tokenVars
<1>13. ASSUME NEW c \in Reviews, RenewToken(c)
      PROVE  PostingTypeOK'
    <2>1. /\ UNCHANGED draft /\ UNCHANGED attributed /\ UNCHANGED token /\ UNCHANGED expired
          /\ UNCHANGED locked /\ UNCHANGED sync /\ UNCHANGED posted /\ UNCHANGED comments
          /\ UNCHANGED doubtful
        BY <1>13 DEF RenewToken, postVars
    <2>2. PICK step \in {"store", "failed"} : click' = [click EXCEPT ![c].at = step]
        BY <1>13 DEF RenewToken, ClickGoto
    <2>3. spendable' \in 0..MaxRenewals
        BY <1>13 DEF RenewToken
    <2>4. mishaps' \in 0..MaxMishaps
        BY <1>13 DEF RenewToken, Mishap
    <2>5. respent' \in {respent, TRUE} /\ loose' \in {loose, TRUE}
        BY <1>13 DEF RenewToken
    <2>6. respent' \in BOOLEAN /\ loose' \in BOOLEAN
        BY <2>5
    <2>7. click' \in [Reviews -> [at : Steps, of : Drafts, siblings : SUBSET Drafts]]
        BY <2>2
    <2> QED BY <2>1, <2>3, <2>4, <2>6, <2>7
<1>14. ASSUME NEW c \in Reviews, StoreToken(c)
      PROVE  PostingTypeOK'
    BY <1>14 DEF StoreToken, ClickGoto, postVars, otherVars, tokenVars
<1>15. ASSUME NEW c \in Reviews, PostComment(c)
      PROVE  PostingTypeOK'
    <2>1. /\ UNCHANGED draft /\ UNCHANGED attributed /\ UNCHANGED token /\ UNCHANGED expired
          /\ UNCHANGED spendable /\ UNCHANGED locked /\ UNCHANGED sync /\ UNCHANGED respent
          /\ UNCHANGED loose
        BY <1>15 DEF PostComment, tokenVars
    <2>2. PICK step \in {"sent", "unposted"} : click' = [click EXCEPT ![c].at = step]
        BY <1>15 DEF PostComment, ClickGoto
    <2>3. posted' \subseteq Drafts /\ comments' \in 0..MaxComments
        BY <1>15 DEF PostComment, postVars
    <2>4. mishaps' \in 0..MaxMishaps
        BY <1>15 DEF PostComment, Mishap
    <2>5. doubtful' \in {doubtful, TRUE}
        BY <1>15 DEF PostComment
    <2>6. doubtful' \in BOOLEAN
        BY <2>5
    <2> QED BY <2>1, <2>2, <2>3, <2>4, <2>6
<1>16. ASSUME NEW c \in Reviews, MarkSent(c)
      PROVE  PostingTypeOK'
    BY <1>16 DEF MarkSent, SetStatus, ClickGoto, postVars, otherVars, tokenVars
<1>17. ASSUME NEW c \in Reviews, MarkUnsent(c)
      PROVE  PostingTypeOK'
    BY <1>17 DEF MarkUnsent, SetStatus, ClickGoto, postVars, otherVars, tokenVars
<1>18. ASSUME NEW c \in Reviews, ClickDies(c)
      PROVE  PostingTypeOK'
    BY <1>18 DEF ClickDies, ClickGoto, Mishap, postVars, otherVars, tokenVars
<1>19. ASSUME NEW s \in Syncs, LoadAccount(s)
      PROVE  PostingTypeOK'
    BY <1>19 DEF LoadAccount, postVars, otherVars, tokenVars
<1>20. ASSUME NEW s \in Syncs, UseToken(s)
      PROVE  PostingTypeOK'
    BY <1>20 DEF UseToken, postVars, otherVars, tokenVars
<1>21. ASSUME NEW s \in Syncs, SyncRenews(s)
      PROVE  PostingTypeOK'
    BY <1>21 DEF SyncRenews, postVars, otherVars, tokenVars
<1>22. ASSUME NEW s \in Syncs, SyncStores(s)
      PROVE  PostingTypeOK'
    BY <1>22 DEF SyncStores, postVars, otherVars, tokenVars
<1>23. CASE UNCHANGED postingVars
    BY <1>23 DEF postingVars
<1> QED
    BY <1>1, <1>2, <1>3, <1>4, <1>5, <1>6, <1>7, <1>8, <1>9, <1>10, <1>11, <1>12, <1>13, <1>14, <1>15, <1>16, <1>17, <1>18, <1>19, <1>20, <1>21, <1>22, <1>23 DEF PostingNext

\* A renewal starts and ends under the lock of the account.
LEMMA RenewalStep == PostingInv /\ [PostingNext]_postingVars => RenewalLocked'
<1> SUFFICES ASSUME PostingInv, [PostingNext]_postingVars
             PROVE  RenewalLocked'
    OBVIOUS
<1> USE PostingAssumption DEF PostingInv, PostingTypeOK, RenewalLocked, Steps
<1>1. CASE ExpireToken
    BY <1>1 DEF ExpireToken, postVars, otherVars, tokenVars
<1>2. ASSUME NEW c \in Reviews, NEW d \in Drafts, LoadApproval(c, d)
      PROVE  RenewalLocked'
    BY <1>2 DEF LoadApproval, LoadDraft, postVars, otherVars, tokenVars
<1>3. ASSUME NEW c \in Reviews, NEW d \in Drafts, LoadRetry(c, d)
      PROVE  RenewalLocked'
    BY <1>3 DEF LoadRetry, LoadDraft, postVars, otherVars, tokenVars
<1>4. ASSUME NEW c \in Reviews, NEW d \in Drafts, LoadRejection(c, d)
      PROVE  RenewalLocked'
    BY <1>4 DEF LoadRejection, LoadDraft, postVars, otherVars, tokenVars
<1>5. ASSUME NEW c \in Reviews, ApproveDraft(c)
      PROVE  RenewalLocked'
    BY <1>5 DEF ApproveDraft, SetStatus, ClickGoto, postVars, otherVars, tokenVars
<1>6. ASSUME NEW c \in Reviews, PickSiblings(c)
      PROVE  RenewalLocked'
    BY <1>6 DEF PickSiblings, postVars, otherVars, tokenVars
<1>7. ASSUME NEW c \in Reviews, RejectSibling(c)
      PROVE  RenewalLocked'
    BY <1>7 DEF RejectSibling, postVars, otherVars, tokenVars
<1>8. ASSUME NEW c \in Reviews, SiblingsDone(c)
      PROVE  RenewalLocked'
    BY <1>8 DEF SiblingsDone, ClickGoto, postVars, otherVars, tokenVars
<1>9. ASSUME NEW c \in Reviews, RetryDraft(c)
      PROVE  RenewalLocked'
    BY <1>9 DEF RetryDraft, SetStatus, ClickGoto, postVars, otherVars, tokenVars
<1>10. ASSUME NEW c \in Reviews, RejectDraft(c)
      PROVE  RenewalLocked'
    BY <1>10 DEF RejectDraft, SetStatus, ClickGoto, postVars, otherVars, tokenVars
<1>11. ASSUME NEW c \in Reviews, NoTarget(c)
      PROVE  RenewalLocked'
    BY <1>11 DEF NoTarget, ClickGoto, postVars, otherVars, tokenVars
<1>12. ASSUME NEW c \in Reviews, LockAccount(c)
      PROVE  RenewalLocked'
    BY <1>12 DEF LockAccount, ClickGoto, postVars, otherVars, tokenVars
<1>13. ASSUME NEW c \in Reviews, RenewToken(c)
      PROVE  RenewalLocked'
    BY <1>13 DEF RenewToken, ClickGoto, Mishap, postVars, otherVars, tokenVars
<1>14. ASSUME NEW c \in Reviews, StoreToken(c)
      PROVE  RenewalLocked'
    <2>1. /\ locked = {c} /\ locked' = {} /\ click' = [click EXCEPT ![c].at = "post"]
          /\ UNCHANGED expired
        BY <1>14 DEF StoreToken, ClickGoto
    <2>2. \A b \in Reviews : b # c => click'[b] = click[b] /\ click[b].at \notin {"renew", "store"}
        BY <2>1
    <2> QED BY <2>1, <2>2
<1>15. ASSUME NEW c \in Reviews, PostComment(c)
      PROVE  RenewalLocked'
    <2>1. UNCHANGED token /\ UNCHANGED expired /\ UNCHANGED locked
        BY <1>15 DEF PostComment, tokenVars
    <2>2. PICK step \in {"sent", "unposted"} : click' = [click EXCEPT ![c].at = step]
        BY <1>15 DEF PostComment, ClickGoto
    <2> QED BY <2>1, <2>2
<1>16. ASSUME NEW c \in Reviews, MarkSent(c)
      PROVE  RenewalLocked'
    BY <1>16 DEF MarkSent, SetStatus, ClickGoto, postVars, otherVars, tokenVars
<1>17. ASSUME NEW c \in Reviews, MarkUnsent(c)
      PROVE  RenewalLocked'
    BY <1>17 DEF MarkUnsent, SetStatus, ClickGoto, postVars, otherVars, tokenVars
<1>18. ASSUME NEW c \in Reviews, ClickDies(c)
      PROVE  RenewalLocked'
    BY <1>18 DEF ClickDies, ClickGoto, Mishap, postVars, otherVars, tokenVars
<1>19. ASSUME NEW s \in Syncs, LoadAccount(s)
      PROVE  RenewalLocked'
    BY <1>19 DEF LoadAccount, postVars, otherVars, tokenVars
<1>20. ASSUME NEW s \in Syncs, UseToken(s)
      PROVE  RenewalLocked'
    BY <1>20 DEF UseToken, postVars, otherVars, tokenVars
<1>21. ASSUME NEW s \in Syncs, SyncRenews(s)
      PROVE  RenewalLocked'
    BY <1>21 DEF SyncRenews, postVars, otherVars, tokenVars
<1>22. ASSUME NEW s \in Syncs, SyncStores(s)
      PROVE  RenewalLocked'
    BY <1>22 DEF SyncStores, postVars, otherVars, tokenVars
<1>23. CASE UNCHANGED postingVars
    BY <1>23 DEF postingVars
<1> QED
    BY <1>1, <1>2, <1>3, <1>4, <1>5, <1>6, <1>7, <1>8, <1>9, <1>10, <1>11, <1>12, <1>13, <1>14, <1>15, <1>16, <1>17, <1>18, <1>19, <1>20, <1>21, <1>22, <1>23 DEF PostingNext

\* Until a renewal gets loose, the row keeps the token that the platform takes.
LEMMA TokensStep == PostingInv /\ [PostingNext]_postingVars => (SyncLoose /\ (~loose => TokenCurrent /\ ~respent))'
<1> SUFFICES ASSUME PostingInv, [PostingNext]_postingVars
             PROVE  (SyncLoose /\ (~loose => TokenCurrent /\ ~respent))'
    OBVIOUS
<1> USE PostingAssumption DEF PostingInv, PostingTypeOK, RenewalLocked, SyncLoose, TokenCurrent, Steps
<1>1. CASE ExpireToken
    BY <1>1 DEF ExpireToken, postVars, otherVars, tokenVars
<1>2. ASSUME NEW c \in Reviews, NEW d \in Drafts, LoadApproval(c, d)
      PROVE  (SyncLoose /\ (~loose => TokenCurrent /\ ~respent))'
    BY <1>2 DEF LoadApproval, LoadDraft, postVars, otherVars, tokenVars
<1>3. ASSUME NEW c \in Reviews, NEW d \in Drafts, LoadRetry(c, d)
      PROVE  (SyncLoose /\ (~loose => TokenCurrent /\ ~respent))'
    BY <1>3 DEF LoadRetry, LoadDraft, postVars, otherVars, tokenVars
<1>4. ASSUME NEW c \in Reviews, NEW d \in Drafts, LoadRejection(c, d)
      PROVE  (SyncLoose /\ (~loose => TokenCurrent /\ ~respent))'
    BY <1>4 DEF LoadRejection, LoadDraft, postVars, otherVars, tokenVars
<1>5. ASSUME NEW c \in Reviews, ApproveDraft(c)
      PROVE  (SyncLoose /\ (~loose => TokenCurrent /\ ~respent))'
    BY <1>5 DEF ApproveDraft, SetStatus, ClickGoto, postVars, otherVars, tokenVars
<1>6. ASSUME NEW c \in Reviews, PickSiblings(c)
      PROVE  (SyncLoose /\ (~loose => TokenCurrent /\ ~respent))'
    BY <1>6 DEF PickSiblings, postVars, otherVars, tokenVars
<1>7. ASSUME NEW c \in Reviews, RejectSibling(c)
      PROVE  (SyncLoose /\ (~loose => TokenCurrent /\ ~respent))'
    BY <1>7 DEF RejectSibling, postVars, otherVars, tokenVars
<1>8. ASSUME NEW c \in Reviews, SiblingsDone(c)
      PROVE  (SyncLoose /\ (~loose => TokenCurrent /\ ~respent))'
    BY <1>8 DEF SiblingsDone, ClickGoto, postVars, otherVars, tokenVars
<1>9. ASSUME NEW c \in Reviews, RetryDraft(c)
      PROVE  (SyncLoose /\ (~loose => TokenCurrent /\ ~respent))'
    BY <1>9 DEF RetryDraft, SetStatus, ClickGoto, postVars, otherVars, tokenVars
<1>10. ASSUME NEW c \in Reviews, RejectDraft(c)
      PROVE  (SyncLoose /\ (~loose => TokenCurrent /\ ~respent))'
    BY <1>10 DEF RejectDraft, SetStatus, ClickGoto, postVars, otherVars, tokenVars
<1>11. ASSUME NEW c \in Reviews, NoTarget(c)
      PROVE  (SyncLoose /\ (~loose => TokenCurrent /\ ~respent))'
    BY <1>11 DEF NoTarget, ClickGoto, postVars, otherVars, tokenVars
<1>12. ASSUME NEW c \in Reviews, LockAccount(c)
      PROVE  (SyncLoose /\ (~loose => TokenCurrent /\ ~respent))'
    BY <1>12 DEF LockAccount, ClickGoto, postVars, otherVars, tokenVars
<1>13. ASSUME NEW c \in Reviews, RenewToken(c)
      PROVE  (SyncLoose /\ (~loose => TokenCurrent /\ ~respent))'
    <2>1. UNCHANGED token /\ UNCHANGED sync
        BY <1>13 DEF RenewToken
    <2>2. /\ click[c].at = "renew" /\ locked = {c}
          /\ \A b \in Reviews : click[b].at # "store"
        BY <1>13 DEF RenewToken
    <2>3. SyncLoose'
        BY <1>13, <2>1 DEF RenewToken
    <2>4. CASE /\ token = spendable /\ spendable' = spendable + 1 /\ UNCHANGED respent
               /\ ClickGoto(c, "store") /\ UNCHANGED loose
        BY <2>1, <2>2, <2>3, <2>4 DEF ClickGoto
    <2>5. CASE loose'
        BY <2>3, <2>5
    <2>6. CASE token # spendable
        BY <1>13, <2>2, <2>3, <2>6 DEF RenewToken
    <2>7. CASE /\ ClickGoto(c, "failed")
               /\ UNCHANGED spendable /\ UNCHANGED respent /\ UNCHANGED loose
        BY <2>1, <2>2, <2>3, <2>7 DEF ClickGoto
    <2> QED BY <1>13, <2>4, <2>5, <2>6, <2>7 DEF RenewToken
<1>14. ASSUME NEW c \in Reviews, StoreToken(c)
      PROVE  (SyncLoose /\ (~loose => TokenCurrent /\ ~respent))'
    <2>1. /\ locked = {c} /\ click' = [click EXCEPT ![c].at = "post"]
          /\ token' = spendable /\ UNCHANGED spendable
          /\ UNCHANGED sync /\ UNCHANGED respent /\ UNCHANGED loose
        BY <1>14 DEF StoreToken, ClickGoto
    <2>2. \A b \in Reviews : b # c => click[b].at # "store"
        BY <2>1
    <2>3. \A b \in Reviews : click'[b].at # "store"
        BY <2>1, <2>2
    <2> QED BY <2>1, <2>3
<1>15. ASSUME NEW c \in Reviews, PostComment(c)
      PROVE  (SyncLoose /\ (~loose => TokenCurrent /\ ~respent))'
    <2>1. /\ UNCHANGED token /\ UNCHANGED spendable /\ UNCHANGED sync
          /\ UNCHANGED respent /\ UNCHANGED loose /\ click[c].at = "post"
        BY <1>15 DEF PostComment, tokenVars
    <2>2. PICK step \in {"sent", "unposted"} : click' = [click EXCEPT ![c].at = step]
        BY <1>15 DEF PostComment, ClickGoto
    <2>3. \A b \in Reviews : click'[b].at = "store" <=> click[b].at = "store"
        BY <2>1, <2>2
    <2> QED BY <2>1, <2>3
<1>16. ASSUME NEW c \in Reviews, MarkSent(c)
      PROVE  (SyncLoose /\ (~loose => TokenCurrent /\ ~respent))'
    BY <1>16 DEF MarkSent, SetStatus, ClickGoto, postVars, otherVars, tokenVars
<1>17. ASSUME NEW c \in Reviews, MarkUnsent(c)
      PROVE  (SyncLoose /\ (~loose => TokenCurrent /\ ~respent))'
    BY <1>17 DEF MarkUnsent, SetStatus, ClickGoto, postVars, otherVars, tokenVars
<1>18. ASSUME NEW c \in Reviews, ClickDies(c)
      PROVE  (SyncLoose /\ (~loose => TokenCurrent /\ ~respent))'
    <2>1. /\ UNCHANGED token /\ UNCHANGED spendable /\ UNCHANGED sync /\ UNCHANGED respent
          /\ click' = [click EXCEPT ![c].at = "off"]
        BY <1>18 DEF ClickDies, ClickGoto
    <2>2. (loose => loose') /\ (click[c].at = "store" => loose')
        BY <1>18 DEF ClickDies
    <2>3. SyncLoose'
        BY <2>1, <2>2
    <2>4. click[c].at # "store" => \A b \in Reviews : click'[b].at = "store" <=> click[b].at = "store"
        BY <2>1
    <2> QED BY <2>1, <2>2, <2>3, <2>4
<1>19. ASSUME NEW s \in Syncs, LoadAccount(s)
      PROVE  (SyncLoose /\ (~loose => TokenCurrent /\ ~respent))'
    BY <1>19 DEF LoadAccount, postVars, otherVars, tokenVars
<1>20. ASSUME NEW s \in Syncs, UseToken(s)
      PROVE  (SyncLoose /\ (~loose => TokenCurrent /\ ~respent))'
    BY <1>20 DEF UseToken, postVars, otherVars, tokenVars
<1>21. ASSUME NEW s \in Syncs, SyncRenews(s)
      PROVE  (SyncLoose /\ (~loose => TokenCurrent /\ ~respent))'
    BY <1>21 DEF SyncRenews, postVars, otherVars, tokenVars
<1>22. ASSUME NEW s \in Syncs, SyncStores(s)
      PROVE  (SyncLoose /\ (~loose => TokenCurrent /\ ~respent))'
    BY <1>22 DEF SyncStores, postVars, otherVars, tokenVars
<1>23. CASE UNCHANGED postingVars
    BY <1>23 DEF postingVars
<1> QED
    BY <1>1, <1>2, <1>3, <1>4, <1>5, <1>6, <1>7, <1>8, <1>9, <1>10, <1>11, <1>12, <1>13, <1>14, <1>15, <1>16, <1>17, <1>18, <1>19, <1>20, <1>21, <1>22, <1>23 DEF PostingNext

\* A request that begins while no other is under way finds the drafts as they are.
LEMMA LoadsAlone ==
    ASSUME PostingInv, NEW c \in Reviews, NEW d \in Drafts, NEW step \in {"approve", "retry", "reject"},
           LoadDraft(c, d, step),
           step = "approve" => draft[d] = "pending", step = "retry" => draft[d] = "failed"
    PROVE  (~doubtful => OneByOne /\ OneComment)'
<1> SUFFICES ASSUME ~doubtful'
             PROVE  OneByOne' /\ OneComment'
    OBVIOUS
<1> USE DEF PostingInv, PostingTypeOK
<1>1. /\ ~doubtful /\ \A b \in Reviews : click[b].at = "off"
      /\ UNCHANGED draft /\ UNCHANGED comments
      /\ click' = [click EXCEPT ![c] = [at |-> step, of |-> d, siblings |-> {}]]
    BY DEF LoadDraft, postVars
<1>2. /\ click'[c] = [at |-> step, of |-> d, siblings |-> {}]
      /\ \A b \in Reviews \ {c} : click'[b].at = "off"
    BY <1>1
<1>3. OneByOne'
    BY <1>1, <1>2 DEF OneByOne, Sending
<1>4. OneComment'
    BY <1>1, <1>2 DEF OneComment, AllSettled
<1> QED BY <1>3, <1>4

\* While requests take turns, what one sends is the last that may be sent.
LEMMA TurnStep == PostingInv /\ [PostingNext]_postingVars => (~doubtful => OneByOne /\ OneComment)'
<1> SUFFICES ASSUME PostingInv, [PostingNext]_postingVars
             PROVE  (~doubtful => OneByOne /\ OneComment)'
    OBVIOUS
<1> USE PostingAssumption DEF PostingInv, PostingTypeOK, OneByOne, OneComment, AllSettled, Sending, Steps
<1>1. CASE ExpireToken
    BY <1>1 DEF ExpireToken, postVars, otherVars, tokenVars
<1>2. ASSUME NEW c \in Reviews, NEW d \in Drafts, LoadApproval(c, d)
      PROVE  (~doubtful => OneByOne /\ OneComment)'
    BY <1>2, LoadsAlone DEF LoadApproval
<1>3. ASSUME NEW c \in Reviews, NEW d \in Drafts, LoadRetry(c, d)
      PROVE  (~doubtful => OneByOne /\ OneComment)'
    BY <1>3, LoadsAlone DEF LoadRetry
<1>4. ASSUME NEW c \in Reviews, NEW d \in Drafts, LoadRejection(c, d)
      PROVE  (~doubtful => OneByOne /\ OneComment)'
    BY <1>4, LoadsAlone DEF LoadRejection
<1>5. ASSUME NEW c \in Reviews, ApproveDraft(c)
      PROVE  (~doubtful => OneByOne /\ OneComment)'
    BY <1>5 DEF ApproveDraft, SetStatus, ClickGoto, postVars, otherVars, tokenVars
<1>6. ASSUME NEW c \in Reviews, PickSiblings(c)
      PROVE  (~doubtful => OneByOne /\ OneComment)'
    <2> DEFINE others == {d \in Drafts \ {click[c].of} : draft[d] = "pending"}
    <2>1. /\ click[c].at = "pick" /\ UNCHANGED draft /\ UNCHANGED comments /\ UNCHANGED doubtful
          /\ click' = [click EXCEPT ![c] = [at |-> "siblings", of |-> @.of, siblings |-> others]]
        BY <1>6 DEF PickSiblings, postVars
    <2> SUFFICES ASSUME ~doubtful'
                 PROVE  OneByOne' /\ OneComment'
        OBVIOUS
    <2>2. /\ click'[c] = [at |-> "siblings", of |-> click[c].of, siblings |-> others]
          /\ \A b \in Reviews \ {c} : click'[b] = click[b] /\ click[b].at = "off"
        BY <2>1
    <2>3. \A d \in Drafts : draft[d] # "failed" /\ (draft[d] = "pending" => d \in others)
        BY <2>1
    <2>4. comments # 1 /\ comments <= 1
        BY <2>1
    <2> HIDE DEF others
    <2>5. OneByOne'
        BY <2>1, <2>2, <2>3
    <2>6. OneComment'
        BY <2>1, <2>4
    <2> QED BY <2>5, <2>6
<1>7. ASSUME NEW c \in Reviews, RejectSibling(c)
      PROVE  (~doubtful => OneByOne /\ OneComment)'
    BY <1>7 DEF RejectSibling, postVars, otherVars, tokenVars
<1>8. ASSUME NEW c \in Reviews, SiblingsDone(c)
      PROVE  (~doubtful => OneByOne /\ OneComment)'
    BY <1>8 DEF SiblingsDone, ClickGoto, postVars, otherVars, tokenVars
<1>9. ASSUME NEW c \in Reviews, RetryDraft(c)
      PROVE  (~doubtful => OneByOne /\ OneComment)'
    BY <1>9 DEF RetryDraft, SetStatus, ClickGoto, postVars, otherVars, tokenVars
<1>10. ASSUME NEW c \in Reviews, RejectDraft(c)
      PROVE  (~doubtful => OneByOne /\ OneComment)'
    BY <1>10 DEF RejectDraft, SetStatus, ClickGoto, postVars, otherVars, tokenVars
<1>11. ASSUME NEW c \in Reviews, NoTarget(c)
      PROVE  (~doubtful => OneByOne /\ OneComment)'
    BY <1>11 DEF NoTarget, ClickGoto, postVars, otherVars, tokenVars
<1>12. ASSUME NEW c \in Reviews, LockAccount(c)
      PROVE  (~doubtful => OneByOne /\ OneComment)'
    BY <1>12 DEF LockAccount, ClickGoto, postVars, otherVars, tokenVars
<1>13. ASSUME NEW c \in Reviews, RenewToken(c)
      PROVE  (~doubtful => OneByOne /\ OneComment)'
    BY <1>13 DEF RenewToken, ClickGoto, Mishap, postVars, otherVars, tokenVars
<1>14. ASSUME NEW c \in Reviews, StoreToken(c)
      PROVE  (~doubtful => OneByOne /\ OneComment)'
    BY <1>14 DEF StoreToken, ClickGoto, postVars, otherVars, tokenVars
<1>15. ASSUME NEW c \in Reviews, PostComment(c)
      PROVE  (~doubtful => OneByOne /\ OneComment)'
    <2>1. UNCHANGED draft /\ (~doubtful' => ~doubtful) /\ click[c].at = "post"
        BY <1>15 DEF PostComment
    <2> SUFFICES ASSUME ~doubtful'
                 PROVE  OneByOne' /\ OneComment'
        OBVIOUS
    <2>2. PICK step \in {"sent", "unposted"} : click' = [click EXCEPT ![c].at = step]
        BY <1>15 DEF PostComment, ClickGoto
    <2>3. UNCHANGED comments \/ (comments' = comments + 1 /\ step = "sent")
        BY <1>15, <2>2 DEF PostComment, ClickGoto, postVars
    <2>4. AllSettled /\ comments # 1 /\ comments <= 1 /\ \A b \in Reviews \ {c} : click[b].at = "off"
        BY <2>1
    <2>5. OneByOne'
        BY <2>1, <2>2, <2>4
    <2>6. click'[c].at = step /\ \A b \in Reviews \ {c} : click'[b].at = "off"
        BY <2>2, <2>4
    <2>7. OneComment'
        BY <2>1, <2>3, <2>4, <2>6
    <2> QED BY <2>5, <2>7
<1>16. ASSUME NEW c \in Reviews, MarkSent(c)
      PROVE  (~doubtful => OneByOne /\ OneComment)'
    BY <1>16 DEF MarkSent, SetStatus, ClickGoto, postVars, otherVars, tokenVars
<1>17. ASSUME NEW c \in Reviews, MarkUnsent(c)
      PROVE  (~doubtful => OneByOne /\ OneComment)'
    BY <1>17 DEF MarkUnsent, SetStatus, ClickGoto, postVars, otherVars, tokenVars
<1>18. ASSUME NEW c \in Reviews, ClickDies(c)
      PROVE  (~doubtful => OneByOne /\ OneComment)'
    BY <1>18 DEF ClickDies, ClickGoto, Mishap, postVars, otherVars, tokenVars
<1>19. ASSUME NEW s \in Syncs, LoadAccount(s)
      PROVE  (~doubtful => OneByOne /\ OneComment)'
    BY <1>19 DEF LoadAccount, postVars, otherVars, tokenVars
<1>20. ASSUME NEW s \in Syncs, UseToken(s)
      PROVE  (~doubtful => OneByOne /\ OneComment)'
    BY <1>20 DEF UseToken, postVars, otherVars, tokenVars
<1>21. ASSUME NEW s \in Syncs, SyncRenews(s)
      PROVE  (~doubtful => OneByOne /\ OneComment)'
    BY <1>21 DEF SyncRenews, postVars, otherVars, tokenVars
<1>22. ASSUME NEW s \in Syncs, SyncStores(s)
      PROVE  (~doubtful => OneByOne /\ OneComment)'
    BY <1>22 DEF SyncStores, postVars, otherVars, tokenVars
<1>23. CASE UNCHANGED postingVars
    BY <1>23 DEF postingVars
<1> QED
    BY <1>1, <1>2, <1>3, <1>4, <1>5, <1>6, <1>7, <1>8, <1>9, <1>10, <1>11, <1>12, <1>13, <1>14, <1>15, <1>16, <1>17, <1>18, <1>19, <1>20, <1>21, <1>22, <1>23 DEF PostingNext

\* Every draft is pending, and nobody is at work.
LEMMA PostingInitInv == PostingInit => PostingInv
<1> SUFFICES ASSUME PostingInit
             PROVE  PostingInv
    OBVIOUS
<1>1. PICK d \in Drafts : click = [c \in Reviews |-> [at |-> "off", of |-> d, siblings |-> {}]]
    BY PostingAssumption DEF PostingInit, NoClick
<1>2. /\ draft = [e \in Drafts |-> "pending"] /\ attributed = {}
      /\ token = 0 /\ expired = 0 /\ spendable = 0 /\ locked = {}
      /\ sync = [s \in Syncs |-> [at |-> "off", token |-> 0]]
      /\ posted = {} /\ comments = 0 /\ doubtful = FALSE /\ respent = FALSE /\ loose = FALSE
      /\ mishaps = 0
    BY DEF PostingInit
<1> HIDE DEF PostingInit
<1>3. PostingTypeOK
    <2>1. click \in [Reviews -> [at : Steps, of : Drafts, siblings : SUBSET Drafts]]
        BY <1>1 DEF Steps
    <2>2. 0 \in 0..MaxRenewals /\ 0 \in 0..MaxComments /\ 0 \in 0..MaxMishaps
        BY PostingAssumption
    <2>3. sync \in [Syncs -> [at : {"off", "loaded", "store"}, token : 0..MaxRenewals]]
        BY <1>2, <2>2
    <2> QED BY <1>2, <2>1, <2>2, <2>3 DEF PostingTypeOK
<1>4. OneByOne /\ OneComment /\ RenewalLocked /\ TokenCurrent /\ SyncLoose
    BY <1>1, <1>2 DEF OneByOne, OneComment, RenewalLocked, TokenCurrent, SyncLoose, Sending, AllSettled
<1> QED
    BY <1>2, <1>3, <1>4 DEF PostingInv

\* The invariant is inductive.
LEMMA PostingStepInv == PostingInv /\ [PostingNext]_postingVars => PostingInv'
    BY PostingTypeStep, RenewalStep, TokensStep, TurnStep DEF PostingInv

\* The inductive invariant of posting: requests that take turns act on what they
\* loaded, and a token is renewed under the lock of its account (services/sender.py).
THEOREM TurnsAndRenewals == PostingSpec => []PostingInv
    BY PostingInitInv, PostingStepInv, PTL DEF PostingSpec

\* A second comment takes requests that overlap or a lost answer, and a token spent
\* twice a sync, a lost answer or a death, for any number of drafts, requests and syncs.
THEOREM PostingKept == PostingSpec => []PostingSound
<1>1. PostingInv => PostingSound
    BY DEF PostingInv, PostingTypeOK, OneComment, PostingSound, SecondCommentNeedsRace, SpentTwiceNeedsSync
<1> QED
    BY <1>1, TurnsAndRenewals, PTL

-----------------------------------------------------------------------------
(* Audience pushes *)

PushRow == [at : PushSteps, row : Conn, on : Audiences \union {NoLink}, attempt : 1..Attempts,
            old : BOOLEAN]

\* Pushes that have found no link and may make an audience.
Makers == {p \in Pushes : push[p].at \in {"renew", "keep", "audience"} /\ push[p].on = NoLink}

\* Audiences whose makers have not stored the link yet.
Storing == {a \in Audiences : push[a[1]].at \in {"upload", "store"} /\ push[a[1]].on = a}

\* Every audience is the segment's one, a stray or an overlap, or may be made as
\* one; while there is no link it is being stored, or is one of the other two.
AudiencesKept ==
    /\ \A p \in Pushes : push[p].at \in {"upload", "store"} => push[p].on # NoLink
    /\ Cardinality(audiences) + Cardinality(Makers) <= 1 + strays + overlaps
    /\ link = NoLink => Cardinality(audiences \ Storing) <= strays + overlaps

\* While the owner has disconnected, only pushes that had loaded the row before
\* work with a token.
TokenGone ==
    revoked /\ ~carried =>
       /\ conn.token = "none" /\ conn.status # "connected"
       /\ \A p \in Pushes : push[p].at \notin {"off", "over"} /\ ~push[p].old =>
             /\ push[p].at \in {"link", "audience", "test"}
             /\ push[p].row.token = "none" /\ push[p].row.status # "connected"

AudienceInv == AudienceTypeOK /\ AudiencesKept /\ TokenGone

\* An audience has a maker, and is not NoLink.
LEMMA Named ==
    /\ \A a \in Audiences : a[1] \in Pushes /\ a # NoLink
    /\ \A p \in Pushes : \A k \in 1..Attempts : <<p, k>> \in Audiences /\ <<p, k>>[1] = p
<1>1. \A a \in Audiences : a[1] \in Pushes /\ a[2] \in 1..Attempts
    BY DEF Audiences
<1>2. NoLink[2] = 0 /\ 0 \notin 1..Attempts
    BY AudienceAssumption DEF NoLink
<1> QED BY <1>1, <1>2 DEF Audiences

LEMMA FewAudiences == IsFiniteSet(Audiences)
<1>1. IsFiniteSet(1..Attempts)
    BY AudienceAssumption, FS_Interval
<1> QED BY <1>1, AudienceAssumption, FS_Product DEF Audiences

\* What a push's row may become.
LEMMA PushTyped ==
    ASSUME AudienceTypeOK, NEW p \in Pushes, NEW r \in PushRow, push' = [push EXCEPT ![p] = r]
    PROVE  push' \in [Pushes -> PushRow] /\ push'[p] = r /\ \A q \in Pushes \ {p} : push'[q] = push[q]
    BY DEF AudienceTypeOK, PushRow

\* A step of a push only moves on, to another step of it.
LEMMA PushGoes ==
    ASSUME AudienceTypeOK, NEW p \in Pushes, NEW step \in PushSteps, PushGoto(p, step)
    PROVE  \E r \in PushRow : /\ push' = [push EXCEPT ![p] = r]
                              /\ r.at = step /\ r.row = push[p].row /\ r.on = push[p].on /\ r.old = push[p].old
<1> DEFINE r == [push[p] EXCEPT !.at = step]
<1>1. r \in PushRow /\ r.at = step /\ r.row = push[p].row /\ r.on = push[p].on /\ r.old = push[p].old
    BY DEF AudienceTypeOK, PushRow
<1>2. push' = [push EXCEPT ![p] = r]
    BY DEF PushGoto
<1> QED BY <1>1, <1>2

\* What a push may write on the connection: a status that it loaded otherwise.
LEMMA StatusWritten ==
    ASSUME AudienceTypeOK, NEW p \in Pushes, NEW status \in {"connected", "error"}, WriteStatus(p, status)
    PROVE  /\ conn' \in Conn /\ conn'.token = conn.token /\ carried' \in BOOLEAN
           /\ carried => carried'
           /\ status = push[p].row.status => conn' = conn /\ carried' = carried
           /\ status # push[p].row.status =>
                 /\ conn'.status = status
                 /\ push[p].old => carried'
                 /\ ~push[p].old => carried' = carried
    BY DEF AudienceTypeOK, Conn, WriteStatus

\* Loading the connection, for a push or a test.
LEMMA LoadMoves ==
    ASSUME AudienceTypeOK, NEW p \in Pushes, LoadConnection(p) \/ BeginTest(p)
    PROVE  \E r \in PushRow :
              push' = [push EXCEPT ![p] = r] /\ r.at \in {"link", "test"} /\ r.row = conn /\ ~r.old
<1>1. PICK step \in {"link", "test"} : push' = [push EXCEPT ![p] = [@ EXCEPT !.at = step, !.row = conn, !.old = FALSE]]
    BY DEF LoadConnection, BeginTest
<1> DEFINE r == [push[p] EXCEPT !.at = step, !.row = conn, !.old = FALSE]
<1>2. r \in PushRow /\ r.at = step /\ r.row = conn /\ ~r.old
    BY DEF AudienceTypeOK, PushRow, PushSteps
<1>3. push' = [push EXCEPT ![p] = r]
    BY <1>1
<1> QED BY <1>2, <1>3

\* Reading the link.
LEMMA ReadMoves ==
    ASSUME AudienceTypeOK, NEW p \in Pushes, ReadLink(p)
    PROVE  \E r \in PushRow :
              /\ push' = [push EXCEPT ![p] = r] /\ r.on = link /\ r.row = push[p].row /\ r.old = push[p].old
              /\ r.at = IF push[p].row.token = "stale" THEN "renew" ELSE "audience"
<1> DEFINE step == IF push[p].row.token = "stale" THEN "renew" ELSE "audience"
           r == [push[p] EXCEPT !.on = link, !.at = step]
<1>1. r \in PushRow /\ r.on = link /\ r.row = push[p].row /\ r.old = push[p].old /\ r.at = step
    BY DEF AudienceTypeOK, PushRow, PushSteps
<1>2. push' = [push EXCEPT ![p] = r]
    BY DEF ReadLink
<1> QED BY <1>1, <1>2

\* Keeping the new token.
LEMMA KeepMoves ==
    ASSUME AudienceTypeOK, NEW p \in Pushes, KeepAdToken(p)
    PROVE  \E r \in PushRow :
              push' = [push EXCEPT ![p] = r] /\ r.on = push[p].on /\ r.old = push[p].old /\ r.at = "audience"
<1> DEFINE c == [push[p].row EXCEPT !.token = "fresh"]
           r == [push[p] EXCEPT !.at = "audience", !.row = c]
<1>1. c \in Conn
    BY DEF AudienceTypeOK, Conn
<1>2. r \in PushRow /\ r.on = push[p].on /\ r.old = push[p].old /\ r.at = "audience"
    BY <1>1 DEF AudienceTypeOK, PushRow, PushSteps
<1>3. push' = [push EXCEPT ![p] = r]
    BY DEF KeepAdToken
<1> QED BY <1>2, <1>3

\* The platform refused a new token, which the push's own copy of the row shows.
LEMMA ErrorMoves ==
    ASSUME AudienceTypeOK, NEW p \in Pushes, push' = [push EXCEPT ![p].at = "audience", ![p].row.status = "error"]
    PROVE  \E r \in PushRow :
              push' = [push EXCEPT ![p] = r] /\ r.on = push[p].on /\ r.old = push[p].old /\ r.at = "audience"
<1> DEFINE r == [push[p] EXCEPT !.at = "audience", !.row = [push[p].row EXCEPT !.status = "error"]]
<1>1. [push[p].row EXCEPT !.status = "error"] \in Conn
    BY DEF AudienceTypeOK, Conn
<1>2. r \in PushRow /\ r.on = push[p].on /\ r.old = push[p].old /\ r.at = "audience"
    BY <1>1 DEF AudienceTypeOK, PushRow, PushSteps
<1>3. push' = [push EXCEPT ![p] = r]
    OBVIOUS
<1> QED BY <1>2, <1>3

\* A push that fails is over.
LEMMA FailMoves ==
    ASSUME AudienceTypeOK, NEW p \in Pushes, NEW made, PushFails(p, made)
    PROVE  \E r \in PushRow : push' = [push EXCEPT ![p] = r] /\ r.at = "over"
<1> DEFINE r == [push[p] EXCEPT !.at = "over", !.row = [push[p].row EXCEPT !.status = "error"]]
<1>1. [push[p].row EXCEPT !.status = "error"] \in Conn
    BY DEF AudienceTypeOK, Conn
<1>2. r \in PushRow /\ r.at = "over"
    BY <1>1 DEF AudienceTypeOK, PushRow, PushSteps
<1>3. push' = [push EXCEPT ![p] = r]
    BY DEF PushFails
<1> QED BY <1>2, <1>3

\* An audience was made, and the platform answered.
LEMMA MadeMoves ==
    ASSUME AudienceTypeOK, NEW p \in Pushes,
           push' = [push EXCEPT ![p].at = "upload", ![p].on = <<p, push[p].attempt>>]
    PROVE  \E r \in PushRow :
              /\ push' = [push EXCEPT ![p] = r] /\ r.on = <<p, push[p].attempt>>
              /\ r.row = push[p].row /\ r.old = push[p].old /\ r.at = "upload"
<1> DEFINE a == <<p, push[p].attempt>>
<1>1. a \in Audiences
    BY Named DEF AudienceTypeOK
<1>2. push' = [push EXCEPT ![p].at = "upload", ![p].on = a]
    OBVIOUS
<1> HIDE DEF a
<1> DEFINE r == [push[p] EXCEPT !.at = "upload", !.on = a]
<1>3. r \in PushRow /\ r.on = a /\ r.row = push[p].row /\ r.old = push[p].old /\ r.at = "upload"
    BY <1>1 DEF AudienceTypeOK, PushRow, PushSteps
<1>4. push' = [push EXCEPT ![p] = r]
    BY <1>2
<1> QED BY <1>3, <1>4 DEF a

\* The platform did not answer, and is asked again.
LEMMA RetryMoves ==
    ASSUME AudienceTypeOK, NEW p \in Pushes, push[p].attempt < Attempts,
           push' = [push EXCEPT ![p].attempt = @ + 1]
    PROVE  \E r \in PushRow :
              /\ push' = [push EXCEPT ![p] = r] /\ r.on = push[p].on
              /\ r.row = push[p].row /\ r.old = push[p].old /\ r.at = push[p].at
<1> DEFINE r == [push[p] EXCEPT !.attempt = push[p].attempt + 1]
<1>1. push[p].attempt + 1 \in 1..Attempts
    BY AudienceAssumption DEF AudienceTypeOK
<1>2. r \in PushRow /\ r.on = push[p].on /\ r.row = push[p].row /\ r.old = push[p].old /\ r.at = push[p].at
    BY <1>1 DEF AudienceTypeOK, PushRow
<1>3. push' = [push EXCEPT ![p] = r]
    OBVIOUS
<1> QED BY <1>2, <1>3

\* What an attempt may come to.
LEMMA AttemptCases ==
    ASSUME NEW p \in Pushes, CreateAudience(p)
    PROVE  \/ /\ push' = [push EXCEPT ![p].at = "upload", ![p].on = <<p, push[p].attempt>>]
             /\ audiences' = audiences \union {<<p, push[p].attempt>>}
             /\ UNCHANGED <<conn, link, renewals, disconnects, revoked, strays, overlaps, carried>>
          \/ \E made \in BOOLEAN :
                /\ audiences' = IF made THEN audiences \union {<<p, push[p].attempt>>} ELSE audiences
                /\ strays' = IF made THEN strays + 1 ELSE strays
                /\ UNCHANGED <<link, renewals, disconnects, revoked, overlaps>>
                /\ \/ /\ push[p].attempt < Attempts /\ push' = [push EXCEPT ![p].attempt = @ + 1]
                      /\ UNCHANGED <<conn, carried>>
                   \/ PushFails(p, made)
    BY DEF CreateAudience, PushFails

\* Every step keeps the types.
LEMMA AudienceTypeStep == AudienceTypeOK /\ [AudienceNext]_audienceVars => AudienceTypeOK'
<1> SUFFICES ASSUME AudienceTypeOK, [AudienceNext]_audienceVars
             PROVE  AudienceTypeOK'
    OBVIOUS
<1>0. /\ conn \in Conn /\ link \in Audiences \union {NoLink} /\ audiences \subseteq Audiences
      /\ push \in [Pushes -> PushRow] /\ strays \in Nat /\ overlaps \in Nat
      /\ renewals \in 0..MaxExpiries /\ disconnects \in 0..MaxConnects
      /\ revoked \in BOOLEAN /\ carried \in BOOLEAN
    BY DEF AudienceTypeOK, PushRow
<1>a. ASSUME conn' \in Conn, link' \in Audiences \union {NoLink}, audiences' \subseteq Audiences,
             push' \in [Pushes -> PushRow], strays' \in Nat, overlaps' \in Nat,
             renewals' \in 0..MaxExpiries, disconnects' \in 0..MaxConnects,
             revoked' \in BOOLEAN, carried' \in BOOLEAN
      PROVE  AudienceTypeOK'
    BY <1>a DEF AudienceTypeOK, PushRow
<1>b. ASSUME NEW p \in Pushes, NEW step \in PushSteps, PushGoto(p, step)
      PROVE  push' \in [Pushes -> PushRow]
    BY <1>b, PushGoes, PushTyped
<1>c. ASSUME NEW p \in Pushes, NEW made \in BOOLEAN, PushFails(p, made), audiences' \subseteq Audiences
      PROVE  AudienceTypeOK'
    <2>1. push' \in [Pushes -> PushRow]
        <3>1. PICK r \in PushRow : push' = [push EXCEPT ![p] = r]
            BY <1>c, FailMoves
        <3> QED BY <3>1, PushTyped
    <2>2. conn' \in Conn /\ carried' \in BOOLEAN
        BY <1>c, StatusWritten DEF PushFails
    <2>3. strays' \in Nat
        BY <1>c, <1>0 DEF PushFails
    <2> QED BY <1>0, <1>a, <1>c, <2>1, <2>2, <2>3 DEF PushFails
<1>1. CASE TokenExpires
    <2>1. conn' \in Conn /\ renewals' \in 0..MaxExpiries
        BY <1>0, <1>1, AudienceAssumption DEF TokenExpires, Conn
    <2> QED BY <1>0, <1>1, <1>a, <2>1 DEF TokenExpires
<1>d. ASSUME NEW old \in [Pushes -> BOOLEAN], push' = [p \in Pushes |-> [push[p] EXCEPT !.old = old[p]]]
      PROVE  push' \in [Pushes -> PushRow]
    <2>1. \A p \in Pushes : [push[p] EXCEPT !.old = old[p]] \in PushRow
        BY <1>0 DEF PushRow
    <2> QED BY <1>d, <2>1
<1>2. CASE Disconnect
    <2>1. conn' \in Conn /\ disconnects' \in 0..MaxConnects
        BY <1>0, <1>2, AudienceAssumption DEF Disconnect, Conn
    <2>2. push' \in [Pushes -> PushRow]
        <3> DEFINE old == [p \in Pushes |-> push[p].at \notin {"off", "over"}]
        <3>1. old \in [Pushes -> BOOLEAN] /\ push' = [p \in Pushes |-> [push[p] EXCEPT !.old = old[p]]]
            BY <1>2 DEF Disconnect
        <3> HIDE DEF old
        <3> QED BY <3>1, <1>d
    <2> QED BY <1>0, <1>2, <1>a, <2>1, <2>2 DEF Disconnect
<1>3. CASE Connect
    <2>1. conn' \in Conn
        BY <1>0, <1>3 DEF Connect, Conn
    <2>2. push' \in [Pushes -> PushRow]
        <3> DEFINE old == [p \in Pushes |-> FALSE]
        <3>1. old \in [Pushes -> BOOLEAN] /\ push' = [p \in Pushes |-> [push[p] EXCEPT !.old = old[p]]]
            BY <1>3 DEF Connect
        <3> HIDE DEF old
        <3> QED BY <3>1, <1>d
    <2> QED BY <1>0, <1>3, <1>a, <2>1, <2>2 DEF Connect
<1>4. ASSUME NEW p \in Pushes, BeginTest(p) \/ LoadConnection(p)
      PROVE  AudienceTypeOK'
    <2>1. PICK r \in PushRow : push' = [push EXCEPT ![p] = r]
        BY <1>4, LoadMoves
    <2>2. push' \in [Pushes -> PushRow]
        BY <2>1, PushTyped
    <2> QED BY <1>0, <1>4, <1>a, <2>2 DEF BeginTest, LoadConnection
<1>5. ASSUME NEW p \in Pushes, FinishTest(p)
      PROVE  AudienceTypeOK'
    <2>1. push' \in [Pushes -> PushRow]
        BY <1>5, <1>b DEF FinishTest, PushSteps
    <2>2. conn' \in Conn /\ carried' \in BOOLEAN
        BY <1>5, StatusWritten DEF FinishTest
    <2> QED BY <1>0, <1>5, <1>a, <2>1, <2>2 DEF FinishTest
<1>6. ASSUME NEW p \in Pushes, ReadLink(p)
      PROVE  AudienceTypeOK'
    <2>1. PICK r \in PushRow : push' = [push EXCEPT ![p] = r]
        BY <1>6, ReadMoves
    <2>2. push' \in [Pushes -> PushRow]
        BY <2>1, PushTyped
    <2>3. overlaps' \in Nat
        BY <1>6, <1>0 DEF ReadLink
    <2> QED BY <1>0, <1>6, <1>a, <2>2, <2>3 DEF ReadLink
<1>7. ASSUME NEW p \in Pushes, RenewAdToken(p)
      PROVE  AudienceTypeOK'
    <2>1. CASE PushGoto(p, "keep") /\ UNCHANGED <<conn, carried>>
        <3>1. push' \in [Pushes -> PushRow]
            BY <2>1, <1>b DEF PushSteps
        <3> QED BY <1>0, <1>7, <1>a, <2>1, <3>1 DEF RenewAdToken
    <2>2. CASE WriteStatus(p, "error") /\ push' = [push EXCEPT ![p].at = "audience", ![p].row.status = "error"]
        <3>1. PICK r \in PushRow : push' = [push EXCEPT ![p] = r]
            BY <2>2, ErrorMoves
        <3>2. push' \in [Pushes -> PushRow]
            BY <3>1, PushTyped
        <3>3. conn' \in Conn /\ carried' \in BOOLEAN
            BY <2>2, StatusWritten
        <3> QED BY <1>0, <1>7, <1>a, <3>2, <3>3 DEF RenewAdToken
    <2> QED BY <1>7, <2>1, <2>2 DEF RenewAdToken
<1>8. ASSUME NEW p \in Pushes, KeepAdToken(p)
      PROVE  AudienceTypeOK'
    <2>1. PICK r \in PushRow : push' = [push EXCEPT ![p] = r]
        BY <1>8, KeepMoves
    <2>2. push' \in [Pushes -> PushRow]
        BY <2>1, PushTyped
    <2>3. conn' \in Conn /\ carried' \in BOOLEAN
        BY <1>8, <1>0 DEF KeepAdToken, Conn, AudienceTypeOK, PushRow
    <2> QED BY <1>0, <1>8, <1>a, <2>2, <2>3 DEF KeepAdToken
<1>9. ASSUME NEW p \in Pushes, UseAudience(p)
      PROVE  AudienceTypeOK'
    <2>1. push' \in [Pushes -> PushRow]
        BY <1>9, <1>b DEF UseAudience, PushSteps
    <2> QED BY <1>0, <1>9, <1>a, <2>1 DEF UseAudience
<1>10. ASSUME NEW p \in Pushes, CreateAudience(p)
       PROVE  AudienceTypeOK'
    <2> DEFINE a == <<p, push[p].attempt>>
    <2>1. a \in Audiences
        BY <1>0, Named DEF PushRow
    <2> HIDE DEF a
    <2>2. CASE /\ push' = [push EXCEPT ![p].at = "upload", ![p].on = <<p, push[p].attempt>>]
               /\ audiences' = audiences \union {a}
               /\ UNCHANGED <<conn, link, renewals, disconnects, revoked, strays, overlaps, carried>>
        <3>1. PICK r \in PushRow : push' = [push EXCEPT ![p] = r]
            BY <2>2, MadeMoves
        <3>2. push' \in [Pushes -> PushRow] /\ audiences' \subseteq Audiences
            BY <1>0, <2>1, <2>2, <3>1, PushTyped
        <3> QED BY <1>0, <1>a, <2>2, <3>2
    <2>3. ASSUME NEW made \in BOOLEAN,
                 audiences' = IF made THEN audiences \union {a} ELSE audiences,
                 strays' = IF made THEN strays + 1 ELSE strays,
                 UNCHANGED <<link, renewals, disconnects, revoked, overlaps>>,
                 \/ /\ push[p].attempt < Attempts /\ push' = [push EXCEPT ![p].attempt = @ + 1]
                    /\ UNCHANGED <<conn, carried>>
                 \/ PushFails(p, made)
          PROVE  AudienceTypeOK'
        <3>1. audiences' \subseteq Audiences /\ strays' \in Nat
            BY <1>0, <2>1, <2>3
        <3>2. CASE PushFails(p, made)
            BY <1>c, <3>1, <3>2
        <3>3. CASE /\ push[p].attempt < Attempts /\ push' = [push EXCEPT ![p].attempt = @ + 1]
                   /\ UNCHANGED <<conn, carried>>
            <4>1. PICK r \in PushRow : push' = [push EXCEPT ![p] = r]
                BY <3>3, RetryMoves
            <4>2. push' \in [Pushes -> PushRow]
                BY <4>1, PushTyped
            <4> QED BY <1>0, <1>a, <2>3, <3>1, <3>3, <4>2
        <3> QED BY <2>3, <3>2, <3>3
    <2> QED BY <1>10, <2>2, <2>3, AttemptCases DEF a
<1>11. ASSUME NEW p \in Pushes, AudienceRefused(p)
       PROVE  AudienceTypeOK'
    BY <1>0, <1>11, <1>c DEF AudienceRefused
<1>12. ASSUME NEW p \in Pushes, Upload(p)
       PROVE  AudienceTypeOK'
    <2>1. audiences' \subseteq Audiences /\ Made(p) \in BOOLEAN
        BY <1>0, <1>12 DEF Upload, Made
    <2>2. CASE PushGoto(p, "store")
               /\ UNCHANGED <<conn, link, renewals, disconnects, revoked, strays, overlaps, carried>>
        <3>1. push' \in [Pushes -> PushRow]
            BY <2>2, <1>b DEF PushSteps
        <3> QED BY <1>0, <1>a, <2>1, <2>2, <3>1
    <2>3. CASE PushFails(p, Made(p))
        BY <1>c, <2>1, <2>3
    <2> QED BY <1>12, <2>2, <2>3 DEF Upload
<1>13. ASSUME NEW p \in Pushes, StoreLink(p)
       PROVE  AudienceTypeOK'
    <2>1. push' \in [Pushes -> PushRow]
        BY <1>13, <1>b DEF StoreLink, PushSteps
    <2>2. PICK status \in {"connected", "error"} : WriteStatus(p, status)
        BY <1>13 DEF StoreLink
    <2>3. conn' \in Conn /\ carried' \in BOOLEAN
        BY <2>2, StatusWritten
    <2>4. link' \in Audiences \union {NoLink}
        BY <1>0, <1>13 DEF StoreLink, PushRow
    <2> QED BY <1>0, <1>13, <1>a, <2>1, <2>3, <2>4 DEF StoreLink
<1>14. ASSUME NEW p \in Pushes, PushDies(p)
       PROVE  AudienceTypeOK'
    <2>1. push' \in [Pushes -> PushRow] /\ strays' \in Nat
        BY <1>0, <1>14, <1>b DEF PushDies, PushSteps
    <2> QED BY <1>0, <1>14, <1>a, <2>1 DEF PushDies
<1>15. CASE UNCHANGED audienceVars
    BY <1>0, <1>15, <1>a DEF audienceVars
<1> QED BY <1>1, <1>2, <1>3, <1>4, <1>5, <1>6, <1>7, <1>8, <1>9, <1>10, <1>11, <1>12, <1>13, <1>14, <1>15
        DEF AudienceNext

\* A step that makes no audience and reads no link leaves them accounted for, if a
\* push that drops one it was storing is called a stray.
LEMMA AudiencesFrame ==
    ASSUME AudienceTypeOK, AudiencesKept, AudienceTypeOK', NEW p \in Pushes,
           \A q \in Pushes : push'[q].at \in {"upload", "store"} => push'[q].on # NoLink,
           Makers' \subseteq Makers, audiences' = audiences, overlaps' = overlaps,
           strays' \in {strays, strays + 1},
           link' = NoLink => /\ link = NoLink
                             /\ \/ audiences \ Storing' \subseteq audiences \ Storing
                                \/ /\ strays' = strays + 1
                                   /\ audiences \ Storing'
                                         \subseteq (audiences \ Storing) \union {push[p].on}
    PROVE  AudiencesKept'
<1>1. /\ IsFiniteSet(Makers) /\ IsFiniteSet(audiences) /\ IsFiniteSet(audiences \ Storing)
      /\ Cardinality(audiences) \in Nat /\ strays \in Nat /\ overlaps \in Nat
    <2>1. Makers \subseteq Pushes /\ audiences \subseteq Audiences /\ audiences \ Storing \subseteq Audiences
        BY DEF Makers, AudienceTypeOK
    <2> QED BY <2>1, PartCount, FewAudiences, AudienceAssumption DEF AudienceTypeOK
<1>2. /\ Cardinality(Makers') \in Nat /\ Cardinality(Makers) \in Nat
      /\ Cardinality(Makers') <= Cardinality(Makers)
    BY <1>1, PartCount
<1>3. Cardinality(audiences') + Cardinality(Makers') <= 1 + strays' + overlaps'
    BY <1>1, <1>2 DEF AudiencesKept
<1>4. ASSUME link' = NoLink
      PROVE  Cardinality(audiences' \ Storing') <= strays' + overlaps'
    <2>1. CASE audiences \ Storing' \subseteq audiences \ Storing
        <3>1. /\ Cardinality(audiences \ Storing') \in Nat /\ Cardinality(audiences \ Storing) \in Nat
              /\ Cardinality(audiences \ Storing') <= Cardinality(audiences \ Storing)
            BY <1>1, <2>1, PartCount
        <3> QED BY <1>1, <1>4, <3>1 DEF AudiencesKept
    <2>2. CASE strays' = strays + 1 /\ audiences \ Storing' \subseteq (audiences \ Storing) \union {push[p].on}
        <3>1. /\ Cardinality(audiences \ Storing') \in Nat /\ Cardinality(audiences \ Storing) \in Nat
              /\ Cardinality(audiences \ Storing') <= Cardinality(audiences \ Storing) + 1
            BY <1>1, <2>2, OneMoreCount
        <3> QED BY <1>1, <1>4, <2>2, <3>1 DEF AudiencesKept
    <2> QED BY <1>4, <2>1, <2>2
<1> QED BY <1>3, <1>4 DEF AudiencesKept

\* A push that fails or dies is a stray if its audience stays without a link.
LEMMA PushEnds ==
    ASSUME AudienceTypeOK, AudiencesKept, AudienceTypeOK', NEW p \in Pushes, NEW r \in PushRow,
           push' = [push EXCEPT ![p] = r], r.at = "over",
           audiences' = audiences, overlaps' = overlaps, link' = link,
           strays' = IF Made(p) THEN strays + 1 ELSE strays
    PROVE  AudiencesKept'
<1>1. push'[p] = r /\ \A q \in Pushes \ {p} : push'[q] = push[q]
    BY PushTyped
<1>2. Makers' \subseteq Makers
    BY <1>1 DEF Makers
<1>3. \A q \in Pushes : push'[q].at \in {"upload", "store"} => push'[q].on # NoLink
    BY <1>1 DEF AudiencesKept
<1>4. Storing \ Storing' \subseteq {a \in {push[p].on} : a[1] = p}
    <2> SUFFICES ASSUME NEW a \in Storing, a \notin Storing'
                 PROVE  a = push[p].on /\ a[1] = p
        OBVIOUS
    <2>1. a \in Audiences /\ a[1] \in Pushes /\ push[a[1]].at \in {"upload", "store"} /\ push[a[1]].on = a
        BY Named DEF Storing
    <2>2. a[1] = p
        BY <1>1, <2>1 DEF Storing
    <2> QED BY <2>1, <2>2
<1>5. strays' \in {strays, strays + 1}
    OBVIOUS
<1>6. link = NoLink => \/ audiences \ Storing' \subseteq audiences \ Storing
                       \/ /\ strays' = strays + 1
                          /\ audiences \ Storing' \subseteq (audiences \ Storing) \union {push[p].on}
    <2>1. CASE Made(p)
        BY <1>4, <2>1
    <2>2. CASE ~Made(p)
        <3> SUFFICES ASSUME link = NoLink PROVE audiences \ Storing' \subseteq audiences \ Storing
            OBVIOUS
        <3>1. \A a \in Storing \ Storing' : a \notin audiences
            BY <1>4, <2>2, Named DEF Made, Storing
        <3> QED BY <3>1
    <2> QED BY <2>1, <2>2
<1> QED BY <1>2, <1>3, <1>5, <1>6, AudiencesFrame

\* The first push to read that there is no link finds only strays and overlaps; a
\* later one is an overlap itself.
LEMMA LinkRead ==
    ASSUME AudienceTypeOK, AudiencesKept, AudienceTypeOK', NEW p \in Pushes, ReadLink(p)
    PROVE  AudiencesKept'
<1>1. PICK r \in PushRow : /\ push' = [push EXCEPT ![p] = r] /\ r.on = link
                           /\ r.at \in {"renew", "audience"}
    BY ReadMoves
<1>2. push'[p] = r /\ \A q \in Pushes \ {p} : push'[q] = push[q]
    BY <1>1, PushTyped
<1>3. /\ push[p].at = "link" /\ link' = link /\ audiences' = audiences /\ strays' = strays
      /\ overlaps' = IF \E q \in Pushes \ {p} : UsesLink(q) THEN overlaps + 1 ELSE overlaps
    BY DEF ReadLink
<1>4. \A q \in Pushes : push'[q].at \in {"upload", "store"} => push'[q].on # NoLink
    BY <1>1, <1>2 DEF AudiencesKept
<1>5. Storing' = Storing
    BY <1>1, <1>2, <1>3 DEF Storing
<1>6. Makers' \subseteq Makers \union {p} /\ (link # NoLink => Makers' \subseteq Makers)
    BY <1>1, <1>2, <1>3 DEF Makers
<1>7. /\ IsFiniteSet(Makers) /\ IsFiniteSet(audiences) /\ Cardinality(Makers) \in Nat
      /\ Cardinality(audiences) \in Nat /\ strays \in Nat /\ overlaps \in Nat
    <2>1. Makers \subseteq Pushes /\ audiences \subseteq Audiences
        BY DEF Makers, AudienceTypeOK
    <2> QED BY <2>1, PartCount, FewAudiences, AudienceAssumption DEF AudienceTypeOK
<1>8. /\ Cardinality(Makers') \in Nat /\ Cardinality(Makers') <= Cardinality(Makers) + 1
      /\ link # NoLink => Cardinality(Makers') <= Cardinality(Makers)
    BY <1>6, <1>7, PartCount, OneMoreCount
<1>9. Cardinality(audiences) + Cardinality(Makers) <= 1 + strays + overlaps
    BY DEF AudiencesKept
<1>10. Cardinality(audiences') + Cardinality(Makers') <= 1 + strays' + overlaps'
    <2>1. CASE \E q \in Pushes \ {p} : UsesLink(q)
        BY <1>3, <1>7, <1>8, <1>9, <2>1
    <2>2. CASE link # NoLink
        BY <1>3, <1>7, <1>8, <1>9, <2>2
    <2>3. CASE link = NoLink /\ ~\E q \in Pushes \ {p} : UsesLink(q)
        <3>1. Makers = {} /\ Storing = {}
            <4>1. \A q \in Pushes : push[q].at \notin {"renew", "keep", "audience", "upload", "store"}
                BY <1>3, <2>3 DEF UsesLink
            <4>2. \A a \in Storing : a[1] \in Pushes /\ push[a[1]].at \in {"upload", "store"}
                BY Named DEF Storing
            <4>3. Makers = {}
                BY <2>3, <4>1 DEF Makers
            <4> QED BY <4>1, <4>2, <4>3
        <3>2. audiences \ Storing = audiences
            BY <3>1
        <3>3. Cardinality(audiences) <= strays + overlaps
            BY <2>3, <3>2 DEF AudiencesKept
        <3>4. Cardinality(Makers) = 0
            BY <3>1, FS_EmptySet
        <3> QED BY <1>3, <1>7, <1>8, <2>3, <3>3, <3>4
    <2> QED BY <2>1, <2>2, <2>3
<1>11. link' = NoLink => Cardinality(audiences' \ Storing') <= strays' + overlaps'
    <2>1. audiences' \ Storing' = audiences \ Storing
        BY <1>3, <1>5
    <2>2. Cardinality(audiences \ Storing) \in Nat
        <3>1. audiences \ Storing \subseteq audiences
            OBVIOUS
        <3> QED BY <1>7, <3>1, PartCount
    <2>3. overlaps' \in {overlaps, overlaps + 1}
        BY <1>3
    <2> QED BY <1>3, <1>7, <2>1, <2>2, <2>3 DEF AudiencesKept
<1> QED BY <1>4, <1>10, <1>11 DEF AudiencesKept

\* An attempt made an audience that is to be stored, or a stray, or none.
LEMMA AudienceMade ==
    ASSUME AudienceTypeOK, AudiencesKept, AudienceTypeOK', NEW p \in Pushes, CreateAudience(p)
    PROVE  AudiencesKept'
<1> DEFINE a == <<p, push[p].attempt>>
<1>1. push[p].at = "audience" /\ push[p].on = NoLink /\ a \in Audiences /\ a[1] = p
    BY Named DEF CreateAudience, AudienceTypeOK
<1>2. /\ link' = link /\ overlaps' = overlaps
      /\ \E r \in PushRow :
            /\ push' = [push EXCEPT ![p] = r]
            /\ \/ r.at = "upload" /\ r.on = a /\ strays' = strays /\ audiences' = audiences \union {a}
               \/ /\ (r.at = "over" \/ (r.at = "audience" /\ r.on = NoLink))
                  /\ \/ audiences' = audiences \union {a} /\ strays' = strays + 1
                     \/ audiences' = audiences /\ strays' = strays
    <2>1. CASE /\ push' = [push EXCEPT ![p].at = "upload", ![p].on = <<p, push[p].attempt>>]
               /\ audiences' = audiences \union {<<p, push[p].attempt>>}
               /\ UNCHANGED <<conn, link, renewals, disconnects, revoked, strays, overlaps, carried>>
        <3>1. PICK r \in PushRow : push' = [push EXCEPT ![p] = r] /\ r.on = <<p, push[p].attempt>>
                                  /\ r.at = "upload"
            BY <2>1, MadeMoves
        <3> QED BY <2>1, <3>1
    <2>2. ASSUME NEW made \in BOOLEAN,
                 audiences' = IF made THEN audiences \union {<<p, push[p].attempt>>} ELSE audiences,
                 strays' = IF made THEN strays + 1 ELSE strays,
                 UNCHANGED <<link, renewals, disconnects, revoked, overlaps>>,
                 \/ /\ push[p].attempt < Attempts /\ push' = [push EXCEPT ![p].attempt = @ + 1]
                    /\ UNCHANGED <<conn, carried>>
                 \/ PushFails(p, made)
          PROVE  /\ link' = link /\ overlaps' = overlaps
                 /\ \E r \in PushRow :
                       /\ push' = [push EXCEPT ![p] = r]
                       /\ (r.at = "over" \/ (r.at = "audience" /\ r.on = NoLink))
                 /\ \/ audiences' = audiences \union {a} /\ strays' = strays + 1
                    \/ audiences' = audiences /\ strays' = strays
        <3>1. \E r \in PushRow : /\ push' = [push EXCEPT ![p] = r]
                                /\ (r.at = "over" \/ (r.at = "audience" /\ r.on = NoLink))
            <4>1. CASE PushFails(p, made)
                BY <4>1, FailMoves
            <4>2. CASE push[p].attempt < Attempts /\ push' = [push EXCEPT ![p].attempt = @ + 1]
                <5>1. PICK r \in PushRow : /\ push' = [push EXCEPT ![p] = r] /\ r.on = push[p].on
                                          /\ r.at = push[p].at
                    BY <4>2, RetryMoves
                <5> QED BY <1>1, <5>1
            <4> QED BY <2>2, <4>1, <4>2
        <3> QED BY <2>2, <3>1
    <2> QED BY <2>1, <2>2, AttemptCases
<1>3. PICK r \in PushRow :
         /\ push' = [push EXCEPT ![p] = r]
         /\ \/ r.at = "upload" /\ r.on = a /\ strays' = strays /\ audiences' = audiences \union {a}
            \/ /\ (r.at = "over" \/ (r.at = "audience" /\ r.on = NoLink))
               /\ \/ audiences' = audiences \union {a} /\ strays' = strays + 1
                  \/ audiences' = audiences /\ strays' = strays
    BY <1>2
<1> HIDE DEF a
<1>4. push'[p] = r /\ \A q \in Pushes \ {p} : push'[q] = push[q]
    BY <1>3, PushTyped
<1>5. p \in Makers /\ Makers' \subseteq Makers /\ (r.at = "upload" => Makers' \subseteq Makers \ {p})
    BY <1>1, <1>3, <1>4 DEF Makers
<1>6. /\ IsFiniteSet(Makers) /\ IsFiniteSet(audiences) /\ IsFiniteSet(audiences \ Storing)
      /\ strays \in Nat /\ overlaps \in Nat
    <2>1. Makers \subseteq Pushes /\ audiences \subseteq Audiences /\ audiences \ Storing \subseteq Audiences
        BY DEF Makers, AudienceTypeOK
    <2> QED BY <2>1, PartCount, FewAudiences, AudienceAssumption DEF AudienceTypeOK
<1>7. /\ Cardinality(audiences') \in Nat /\ Cardinality(audiences) \in Nat
      /\ Cardinality(audiences') <= Cardinality(audiences) + 1
    BY <1>3, <1>6, OneMoreCount
<1>8. /\ Cardinality(Makers') \in Nat /\ Cardinality(Makers) \in Nat
      /\ Cardinality(Makers') <= Cardinality(Makers)
      /\ r.at = "upload" => Cardinality(Makers') + 1 <= Cardinality(Makers)
    BY <1>5, <1>6, PartCount, OneLessCount
<1>9. Cardinality(audiences') + Cardinality(Makers') <= 1 + strays' + overlaps'
    BY <1>2, <1>3, <1>6, <1>7, <1>8 DEF AudiencesKept
<1>10. \A q \in Pushes : push'[q].at \in {"upload", "store"} => push'[q].on # NoLink
    BY <1>1, <1>3, <1>4, Named DEF AudiencesKept
<1>11. ASSUME link' = NoLink
       PROVE  Cardinality(audiences' \ Storing') <= strays' + overlaps'
    <2>1. Cardinality(audiences \ Storing) <= strays + overlaps /\ Cardinality(audiences \ Storing) \in Nat
        BY <1>2, <1>6, <1>11, FS_CardinalityType DEF AudiencesKept
    <2>2. Storing \subseteq Storing'
        BY <1>1, <1>4, Named DEF Storing
    <2>3. CASE audiences' \ Storing' \subseteq audiences \ Storing
        <3>1. Cardinality(audiences' \ Storing') \in Nat /\ Cardinality(audiences' \ Storing') <= Cardinality(audiences \ Storing)
            BY <1>6, <2>3, PartCount
        <3> QED BY <1>2, <1>3, <1>6, <2>1, <3>1
    <2>4. CASE r.at = "upload" /\ r.on = a /\ strays' = strays /\ audiences' = audiences \union {a}
        <3>1. a \in Storing'
            BY <1>1, <1>4, <2>4 DEF Storing
        <3> QED BY <2>2, <2>3, <2>4, <3>1
    <2>5. CASE audiences' = audiences \union {a} /\ strays' = strays + 1
        <3>1. audiences' \ Storing' \subseteq (audiences \ Storing) \union {a}
            BY <2>2, <2>5
        <3>2. Cardinality(audiences' \ Storing') \in Nat /\ Cardinality(audiences' \ Storing') <= Cardinality(audiences \ Storing) + 1
            BY <1>6, <3>1, OneMoreCount
        <3> QED BY <1>2, <1>6, <2>1, <2>5, <3>2
    <2>6. CASE audiences' = audiences /\ strays' = strays
        BY <2>2, <2>3, <2>6
    <2> QED BY <1>3, <2>4, <2>5, <2>6
<1> QED BY <1>9, <1>10, <1>11 DEF AudiencesKept

\* No step makes an audience too many that is neither a stray nor an overlap.
LEMMA AudiencesStep == AudienceTypeOK /\ AudiencesKept /\ [AudienceNext]_audienceVars => AudiencesKept'
<1> SUFFICES ASSUME AudienceTypeOK, AudiencesKept, [AudienceNext]_audienceVars
             PROVE  AudiencesKept'
    OBVIOUS
<1>0. AudienceTypeOK'
    BY AudienceTypeStep
<1>a. ASSUME UNCHANGED <<link, audiences, strays, overlaps>>,
             \A q \in Pushes : push'[q].at = push[q].at /\ push'[q].on = push[q].on
      PROVE  AudiencesKept'
    <2>1. Makers' = Makers
        BY <1>a DEF Makers
    <2>2. \A a \in Audiences : a[1] \in Pushes
        BY Named
    <2>3. Storing' = Storing
        BY <1>a, <2>2 DEF Storing
    <2> QED BY <1>a, <2>1, <2>3 DEF AudiencesKept
<1>b. ASSUME NEW p \in Pushes, NEW r \in PushRow, push' = [push EXCEPT ![p] = r],
             UNCHANGED <<link, audiences, strays, overlaps>>,
             \/ push[p].at \in {"off", "test"} /\ r.at \in {"link", "test", "over"}
             \/ push[p].at \in {"renew", "keep"} /\ r.at \in {"keep", "audience"} /\ r.on = push[p].on
             \/ push[p].at = "audience" /\ r.at = "upload" /\ r.on = push[p].on /\ r.on # NoLink
             \/ push[p].at = "upload" /\ r.at = "store" /\ r.on = push[p].on
      PROVE  AudiencesKept'
    <2>1. push'[p] = r /\ \A q \in Pushes \ {p} : push'[q] = push[q]
        BY <1>b, PushTyped
    <2>2. Makers' \subseteq Makers /\ Storing \subseteq Storing'
        BY <1>b, <2>1 DEF Makers, Storing
    <2>3. \A q \in Pushes : push'[q].at \in {"upload", "store"} => push'[q].on # NoLink
        BY <1>b, <2>1 DEF AudiencesKept
    <2>4. audiences' = audiences /\ overlaps' = overlaps /\ strays' = strays /\ link' = link
        BY <1>b
    <2> QED BY <1>0, <2>2, <2>3, <2>4, AudiencesFrame
<1>1. CASE TokenExpires
    BY <1>1, <1>a DEF TokenExpires
<1>2. CASE Disconnect
    BY <1>2, <1>a DEF Disconnect, AudienceTypeOK
<1>3. CASE Connect
    BY <1>3, <1>a DEF Connect, AudienceTypeOK
<1>4. ASSUME NEW p \in Pushes, BeginTest(p) \/ LoadConnection(p)
      PROVE  AudiencesKept'
    <2>1. PICK r \in PushRow : push' = [push EXCEPT ![p] = r] /\ r.at \in {"link", "test"}
        BY <1>4, LoadMoves
    <2>2. push[p].at = "off" /\ UNCHANGED <<link, audiences, strays, overlaps>>
        BY <1>4 DEF BeginTest, LoadConnection
    <2> QED BY <1>b, <2>1, <2>2
<1>5. ASSUME NEW p \in Pushes, FinishTest(p)
      PROVE  AudiencesKept'
    <2>1. PushGoto(p, "over") /\ push[p].at = "test" /\ UNCHANGED <<link, audiences, strays, overlaps>>
        BY <1>5 DEF FinishTest
    <2>2. PICK r \in PushRow : push' = [push EXCEPT ![p] = r] /\ r.at = "over"
        BY <2>1, PushGoes DEF PushSteps
    <2> QED BY <1>b, <2>1, <2>2
<1>6. ASSUME NEW p \in Pushes, ReadLink(p)
      PROVE  AudiencesKept'
    BY <1>0, <1>6, LinkRead
<1>7. ASSUME NEW p \in Pushes, RenewAdToken(p)
      PROVE  AudiencesKept'
    <2>1. push[p].at = "renew" /\ UNCHANGED <<link, audiences, strays, overlaps>>
        BY <1>7 DEF RenewAdToken
    <2>2. PICK r \in PushRow : push' = [push EXCEPT ![p] = r] /\ r.at \in {"keep", "audience"} /\ r.on = push[p].on
        <3>1. CASE PushGoto(p, "keep")
            BY <3>1, PushGoes DEF PushSteps
        <3>2. CASE push' = [push EXCEPT ![p].at = "audience", ![p].row.status = "error"]
            BY <3>2, ErrorMoves
        <3> QED BY <1>7, <3>1, <3>2 DEF RenewAdToken
    <2> QED BY <1>b, <2>1, <2>2
<1>8. ASSUME NEW p \in Pushes, KeepAdToken(p)
      PROVE  AudiencesKept'
    <2>1. push[p].at = "keep" /\ UNCHANGED <<link, audiences, strays, overlaps>>
        BY <1>8 DEF KeepAdToken
    <2>2. PICK r \in PushRow : push' = [push EXCEPT ![p] = r] /\ r.at = "audience" /\ r.on = push[p].on
        BY <1>8, KeepMoves
    <2> QED BY <1>b, <2>1, <2>2
<1>9. ASSUME NEW p \in Pushes, UseAudience(p)
      PROVE  AudiencesKept'
    <2>1. /\ push[p].at = "audience" /\ push[p].on # NoLink /\ PushGoto(p, "upload")
          /\ UNCHANGED <<link, audiences, strays, overlaps>>
        BY <1>9 DEF UseAudience
    <2>2. PICK r \in PushRow : push' = [push EXCEPT ![p] = r] /\ r.at = "upload" /\ r.on = push[p].on
        BY <2>1, PushGoes DEF PushSteps
    <2> QED BY <1>b, <2>1, <2>2
<1>10. ASSUME NEW p \in Pushes, CreateAudience(p)
       PROVE  AudiencesKept'
    BY <1>0, <1>10, AudienceMade
<1>11. ASSUME NEW p \in Pushes, AudienceRefused(p)
       PROVE  AudiencesKept'
    <2>1. /\ push[p].at = "audience" /\ PushFails(p, FALSE) /\ audiences' = audiences
          /\ overlaps' = overlaps /\ link' = link /\ strays' = strays
        BY <1>11 DEF AudienceRefused, PushFails
    <2>2. PICK r \in PushRow : push' = [push EXCEPT ![p] = r] /\ r.at = "over"
        BY <2>1, FailMoves
    <2>3. CASE Made(p)
        \* Without a link of its own to give up: nobody's audience is dropped.
        <3>1. push'[p] = r /\ \A q \in Pushes \ {p} : push'[q] = push[q]
            BY <2>2, PushTyped
        <3>2. Makers' \subseteq Makers /\ Storing \subseteq Storing'
            BY <2>1, <2>2, <3>1, Named DEF Makers, Storing
        <3>3. \A q \in Pushes : push'[q].at \in {"upload", "store"} => push'[q].on # NoLink
            BY <2>2, <3>1 DEF AudiencesKept
        <3> QED BY <1>0, <2>1, <3>2, <3>3, AudiencesFrame
    <2>4. CASE ~Made(p)
        BY <1>0, <2>1, <2>2, <2>4, PushEnds
    <2> QED BY <2>3, <2>4
<1>12. ASSUME NEW p \in Pushes, Upload(p)
       PROVE  AudiencesKept'
    <2>1. push[p].at = "upload" /\ audiences' = audiences
        BY <1>12 DEF Upload
    <2>2. CASE PushGoto(p, "store")
               /\ UNCHANGED <<conn, link, renewals, disconnects, revoked, strays, overlaps, carried>>
        <3>1. PICK r \in PushRow : push' = [push EXCEPT ![p] = r] /\ r.at = "store" /\ r.on = push[p].on
            BY <2>2, PushGoes DEF PushSteps
        <3> QED BY <1>b, <2>1, <2>2, <3>1
    <2>3. CASE PushFails(p, Made(p))
        <3>1. /\ overlaps' = overlaps /\ link' = link
              /\ strays' = IF Made(p) THEN strays + 1 ELSE strays
            BY <2>3 DEF PushFails
        <3>2. PICK r \in PushRow : push' = [push EXCEPT ![p] = r] /\ r.at = "over"
            BY <2>3, FailMoves
        <3> QED BY <1>0, <2>1, <3>1, <3>2, PushEnds
    <2> QED BY <1>12, <2>2, <2>3 DEF Upload
<1>13. ASSUME NEW p \in Pushes, StoreLink(p)
       PROVE  AudiencesKept'
    <2>1. /\ push[p].at = "store" /\ link' = push[p].on /\ PushGoto(p, "over")
          /\ audiences' = audiences /\ overlaps' = overlaps /\ strays' = strays
        BY <1>13 DEF StoreLink
    <2>2. PICK r \in PushRow : push' = [push EXCEPT ![p] = r] /\ r.at = "over"
        BY <2>1, PushGoes DEF PushSteps
    <2>3. push'[p] = r /\ \A q \in Pushes \ {p} : push'[q] = push[q]
        BY <2>2, PushTyped
    <2>4. link' # NoLink
        BY <2>1 DEF AudiencesKept
    <2>5. Makers' \subseteq Makers
        BY <2>2, <2>3 DEF Makers
    <2>6. \A q \in Pushes : push'[q].at \in {"upload", "store"} => push'[q].on # NoLink
        BY <2>2, <2>3 DEF AudiencesKept
    <2> QED BY <1>0, <2>1, <2>4, <2>5, <2>6, AudiencesFrame
<1>14. ASSUME NEW p \in Pushes, PushDies(p)
       PROVE  AudiencesKept'
    <2>1. /\ PushGoto(p, "over") /\ audiences' = audiences /\ overlaps' = overlaps /\ link' = link
          /\ strays' = IF Made(p) THEN strays + 1 ELSE strays
        BY <1>14 DEF PushDies
    <2>2. PICK r \in PushRow : push' = [push EXCEPT ![p] = r] /\ r.at = "over"
        BY <2>1, PushGoes DEF PushSteps
    <2> QED BY <1>0, <2>1, <2>2, PushEnds
<1>15. CASE UNCHANGED audienceVars
    BY <1>15, <1>a DEF audienceVars
<1> QED BY <1>1, <1>2, <1>3, <1>4, <1>5, <1>6, <1>7, <1>8, <1>9, <1>10, <1>11, <1>12, <1>13, <1>14, <1>15
        DEF AudienceNext

\* A step of a push that is not old writes no token and no "connected".
LEMMA TokenFrame ==
    ASSUME AudienceTypeOK, TokenGone, NEW p \in Pushes, NEW r \in PushRow, push' = [push EXCEPT ![p] = r],
           revoked' = revoked, carried => carried',
           revoked /\ ~carried' =>
              /\ conn'.token = "none" /\ conn'.status # "connected"
              /\ r.at \notin {"off", "over"} /\ ~r.old =>
                    /\ r.at \in {"link", "audience", "test"}
                    /\ r.row.token = "none" /\ r.row.status # "connected"
    PROVE  TokenGone'
<1>1. push'[p] = r /\ \A q \in Pushes \ {p} : push'[q] = push[q]
    BY PushTyped
<1> QED BY <1>1 DEF TokenGone

\* What WriteStatus leaves of a connection that is to stay disconnected.
LEMMA StatusHarmless ==
    ASSUME AudienceTypeOK, TokenGone, NEW p \in Pushes, NEW status \in {"connected", "error"},
           WriteStatus(p, status), push[p].at \notin {"off", "over"},
           ~push[p].old => (revoked /\ ~carried => status # "connected")
    PROVE  /\ carried => carried'
           /\ revoked /\ ~carried' => conn'.token = "none" /\ conn'.status # "connected"
<1>1. /\ conn'.token = conn.token /\ (carried => carried')
      /\ status = push[p].row.status => conn' = conn /\ carried' = carried
      /\ status # push[p].row.status =>
            /\ conn'.status = status
            /\ push[p].old => carried'
            /\ ~push[p].old => carried' = carried
    BY StatusWritten
<1>2. push[p].old \in BOOLEAN /\ carried \in BOOLEAN
    BY DEF AudienceTypeOK
<1>3. revoked /\ ~carried => conn.token = "none" /\ conn.status # "connected"
    BY DEF TokenGone
<1> QED BY <1>1, <1>2, <1>3

\* No step gives a disconnected connection its token back, but an old push.
LEMMA TokenGoneStep == AudienceTypeOK /\ TokenGone /\ [AudienceNext]_audienceVars => TokenGone'
<1> SUFFICES ASSUME AudienceTypeOK, TokenGone, [AudienceNext]_audienceVars
             PROVE  TokenGone'
    OBVIOUS
<1>0. revoked /\ ~carried =>
         /\ conn.token = "none" /\ conn.status # "connected"
         /\ \A p \in Pushes : push[p].at \notin {"off", "over"} /\ ~push[p].old =>
               /\ push[p].at \in {"link", "audience", "test"}
               /\ push[p].row.token = "none" /\ push[p].row.status # "connected"
    BY DEF TokenGone
<1>1. CASE TokenExpires
    BY <1>1 DEF TokenExpires, TokenGone
<1>2. CASE Disconnect
    <2>1. conn' = [token |-> "none", status |-> "disconnected"]
        BY <1>2 DEF Disconnect
    <2>2. \A p \in Pushes : push'[p].at = push[p].at /\ (push[p].at \notin {"off", "over"} => push'[p].old)
        BY <1>2 DEF Disconnect, AudienceTypeOK
    <2> QED BY <2>1, <2>2 DEF TokenGone
<1>3. CASE Connect
    BY <1>3 DEF Connect, TokenGone
<1>4. ASSUME NEW p \in Pushes, BeginTest(p) \/ LoadConnection(p)
      PROVE  TokenGone'
    <2>1. PICK r \in PushRow : push' = [push EXCEPT ![p] = r] /\ r.at \in {"link", "test"} /\ r.row = conn
        BY <1>4, LoadMoves
    <2>2. UNCHANGED <<conn, revoked, carried>>
        BY <1>4 DEF BeginTest, LoadConnection
    <2> QED BY <1>0, <2>1, <2>2, TokenFrame
<1>5. ASSUME NEW p \in Pushes, FinishTest(p)
      PROVE  TokenGone'
    <2>1. PushGoto(p, "over") /\ push[p].at = "test" /\ revoked' = revoked
        BY <1>5 DEF FinishTest
    <2>2. PICK r \in PushRow : push' = [push EXCEPT ![p] = r] /\ r.at = "over"
        BY <2>1, PushGoes DEF PushSteps
    <2>3. PICK status \in {"connected", "error"} :
             WriteStatus(p, status) /\ (status = "connected" => push[p].row.token = "fresh")
        BY <1>5 DEF FinishTest
    <2>4. ~push[p].old => (revoked /\ ~carried => status # "connected")
        BY <1>0, <2>1, <2>3
    <2>5. /\ carried => carried'
          /\ revoked /\ ~carried' => conn'.token = "none" /\ conn'.status # "connected"
        BY <2>1, <2>3, <2>4, StatusHarmless
    <2> QED BY <2>1, <2>2, <2>5, TokenFrame
<1>6. ASSUME NEW p \in Pushes, ReadLink(p)
      PROVE  TokenGone'
    <2>1. PICK r \in PushRow :
             /\ push' = [push EXCEPT ![p] = r] /\ r.row = push[p].row /\ r.old = push[p].old
             /\ r.at = IF push[p].row.token = "stale" THEN "renew" ELSE "audience"
        BY <1>6, ReadMoves
    <2>2. push[p].at = "link" /\ UNCHANGED <<conn, revoked, carried>>
        BY <1>6 DEF ReadLink
    <2> QED BY <1>0, <2>1, <2>2, TokenFrame
<1>7. ASSUME NEW p \in Pushes, RenewAdToken(p)
      PROVE  TokenGone'
    <2>1. push[p].at = "renew" /\ revoked' = revoked
        BY <1>7 DEF RenewAdToken
    <2>2. revoked /\ ~carried => push[p].old
        BY <1>0, <2>1
    <2>3. CASE PushGoto(p, "keep") /\ UNCHANGED <<conn, carried>>
        <3>1. PICK r \in PushRow : push' = [push EXCEPT ![p] = r] /\ r.old = push[p].old
            BY <2>3, PushGoes DEF PushSteps
        <3> QED BY <1>0, <2>1, <2>2, <2>3, <3>1, TokenFrame
    <2>4. CASE WriteStatus(p, "error") /\ push' = [push EXCEPT ![p].at = "audience", ![p].row.status = "error"]
        <3>2. PICK r \in PushRow : push' = [push EXCEPT ![p] = r] /\ r.old = push[p].old
            BY <2>4, ErrorMoves
        <3>3. /\ carried => carried'
              /\ revoked /\ ~carried' => conn'.token = "none" /\ conn'.status # "connected"
            BY <2>1, <2>4, StatusHarmless
        <3>4. revoked /\ ~carried' => r.old
            BY <2>2, <3>2, <3>3
        <3> QED BY <2>1, <3>2, <3>3, <3>4, TokenFrame
    <2> QED BY <1>7, <2>3, <2>4 DEF RenewAdToken
<1>8. ASSUME NEW p \in Pushes, KeepAdToken(p)
      PROVE  TokenGone'
    <2>1. push[p].at = "keep" /\ revoked' = revoked /\ carried' = (carried \/ push[p].old)
        BY <1>8 DEF KeepAdToken
    <2>2. PICK r \in PushRow : push' = [push EXCEPT ![p] = r]
        BY <1>8, KeepMoves
    <2>3. revoked => carried'
        BY <1>0, <2>1
    <2> QED BY <2>1, <2>2, <2>3, TokenFrame
<1>9. ASSUME NEW p \in Pushes, UseAudience(p)
      PROVE  TokenGone'
    <2>1. /\ push[p].at = "audience" /\ push[p].row.token # "none" /\ PushGoto(p, "upload")
          /\ UNCHANGED <<conn, revoked, carried>>
        BY <1>9 DEF UseAudience
    <2>2. PICK r \in PushRow : push' = [push EXCEPT ![p] = r] /\ r.old = push[p].old
        BY <2>1, PushGoes DEF PushSteps
    <2> QED BY <1>0, <2>1, <2>2, TokenFrame
<1>a. ASSUME NEW p \in Pushes, NEW made, PushFails(p, made), push[p].at \notin {"off", "over"}
      PROVE  TokenGone'
    <2>1. PICK r \in PushRow : push' = [push EXCEPT ![p] = r] /\ r.at = "over"
        BY <1>a, FailMoves
    <2>2. WriteStatus(p, "error") /\ revoked' = revoked
        BY <1>a DEF PushFails
    <2>3. /\ carried => carried'
          /\ revoked /\ ~carried' => conn'.token = "none" /\ conn'.status # "connected"
        BY <1>a, <2>2, StatusHarmless
    <2> QED BY <2>1, <2>2, <2>3, TokenFrame
<1>10. ASSUME NEW p \in Pushes, CreateAudience(p)
       PROVE  TokenGone'
    <2>1. push[p].at = "audience" /\ push[p].row.token # "none"
        BY <1>10 DEF CreateAudience
    <2>2. ASSUME NEW r \in PushRow, push' = [push EXCEPT ![p] = r], r.old = push[p].old,
                 UNCHANGED <<conn, revoked, carried>>
          PROVE  TokenGone'
        BY <1>0, <2>1, <2>2, TokenFrame
    <2>3. CASE /\ push' = [push EXCEPT ![p].at = "upload", ![p].on = <<p, push[p].attempt>>]
               /\ UNCHANGED <<conn, revoked, carried>>
        BY <2>2, <2>3, MadeMoves
    <2>4. CASE /\ push[p].attempt < Attempts /\ push' = [push EXCEPT ![p].attempt = @ + 1]
               /\ UNCHANGED <<conn, revoked, carried>>
        BY <2>2, <2>4, RetryMoves
    <2>5. ASSUME NEW made, PushFails(p, made) PROVE TokenGone'
        BY <1>a, <2>1, <2>5
    <2> QED BY <1>10, <2>3, <2>4, <2>5, AttemptCases
<1>11. ASSUME NEW p \in Pushes, AudienceRefused(p)
       PROVE  TokenGone'
    BY <1>11, <1>a DEF AudienceRefused
<1>12. ASSUME NEW p \in Pushes, Upload(p)
       PROVE  TokenGone'
    <2>1. push[p].at = "upload"
        BY <1>12 DEF Upload
    <2>2. CASE PushGoto(p, "store")
               /\ UNCHANGED <<conn, link, renewals, disconnects, revoked, strays, overlaps, carried>>
        <3>1. PICK r \in PushRow : push' = [push EXCEPT ![p] = r] /\ r.old = push[p].old
            BY <2>2, PushGoes DEF PushSteps
        <3> QED BY <1>0, <2>1, <2>2, <3>1, TokenFrame
    <2>3. CASE PushFails(p, Made(p))
        BY <1>a, <2>1, <2>3
    <2> QED BY <1>12, <2>2, <2>3 DEF Upload
<1>13. ASSUME NEW p \in Pushes, StoreLink(p)
       PROVE  TokenGone'
    <2>1. push[p].at = "store" /\ PushGoto(p, "over") /\ revoked' = revoked
        BY <1>13 DEF StoreLink
    <2>2. PICK r \in PushRow : push' = [push EXCEPT ![p] = r] /\ r.at = "over"
        BY <2>1, PushGoes DEF PushSteps
    <2>3. PICK status \in {"connected", "error"} : WriteStatus(p, status)
        BY <1>13 DEF StoreLink
    <2>4. ~push[p].old => (revoked /\ ~carried => status # "connected")
        BY <1>0, <2>1
    <2>5. /\ carried => carried'
          /\ revoked /\ ~carried' => conn'.token = "none" /\ conn'.status # "connected"
        BY <2>1, <2>3, <2>4, StatusHarmless
    <2> QED BY <2>1, <2>2, <2>5, TokenFrame
<1>14. ASSUME NEW p \in Pushes, PushDies(p)
       PROVE  TokenGone'
    <2>1. PushGoto(p, "over") /\ UNCHANGED <<conn, revoked, carried>>
        BY <1>14 DEF PushDies
    <2>2. PICK r \in PushRow : push' = [push EXCEPT ![p] = r] /\ r.at = "over"
        BY <2>1, PushGoes DEF PushSteps
    <2> QED BY <1>0, <2>1, <2>2, TokenFrame
<1>15. CASE UNCHANGED audienceVars
    BY <1>15 DEF audienceVars, TokenGone
<1> QED BY <1>1, <1>2, <1>3, <1>4, <1>5, <1>6, <1>7, <1>8, <1>9, <1>10, <1>11, <1>12, <1>13, <1>14, <1>15
        DEF AudienceNext

\* The connection begins connected, with no link and no audience.
LEMMA AudienceInitInv == AudienceInit => AudienceInv
<1> SUFFICES ASSUME AudienceInit
             PROVE  AudienceInv
    OBVIOUS
<1>1. AudienceTypeOK
    <2>1. conn \in Conn
        BY DEF AudienceInit, Conn
    <2>2. [at |-> "off", row |-> conn, on |-> NoLink, attempt |-> 1, old |-> FALSE] \in PushRow
        <3>1. 1 \in 1..Attempts
            BY AudienceAssumption
        <3> QED BY <2>1, <3>1 DEF PushRow, PushSteps
    <2>3. push \in [Pushes -> PushRow]
        BY <2>2 DEF AudienceInit
    <2>4. 0 \in 0..MaxExpiries /\ 0 \in 0..MaxConnects
        BY AudienceAssumption
    <2>5. /\ link = NoLink /\ audiences = {} /\ renewals = 0 /\ disconnects = 0 /\ revoked = FALSE
          /\ strays = 0 /\ overlaps = 0 /\ carried = FALSE
        BY DEF AudienceInit
    <2> QED BY <2>1, <2>3, <2>4, <2>5 DEF AudienceTypeOK, PushRow
<1>2. Makers = {} /\ audiences = {} /\ audiences \ Storing = {}
    BY DEF AudienceInit, Makers
<1>3. AudiencesKept
    BY <1>2, FS_EmptySet DEF AudienceInit, AudiencesKept
<1>4. TokenGone
    BY DEF AudienceInit, TokenGone
<1> QED BY <1>1, <1>3, <1>4 DEF AudienceInv

\* The inductive invariant of the pushes: each audience is the one that is linked or
\* being stored, a stray or an overlap; and only pushes that loaded the connection
\* before it was disconnected work with a token (services/ads_push.py).
THEOREM AudienceInvariance == AudienceSpec => []AudienceInv
<1>1. AudienceInv /\ [AudienceNext]_audienceVars => AudienceInv'
    BY AudienceTypeStep, AudiencesStep, TokenGoneStep DEF AudienceInv
<1> QED BY <1>1, AudienceInitInv, PTL DEF AudienceSpec

\* A segment has one audience, and one more only for an attempt without an answer that
\* made one, a push that made one and ended badly, or an overlap; a connection stays
\* disconnected but through a push or test that had loaded it before; for any number
\* of pushes, tests and attempts (services/ads_push.py, services/ads/meta.py).
THEOREM PushesAreSound == AudienceSpec => []PushesSound
<1>1. AudienceInv => PushesSound
    <2> SUFFICES ASSUME AudienceInv PROVE PushesSound
        OBVIOUS
    <2>1. /\ Cardinality(Makers) \in Nat /\ Cardinality(audiences) \in Nat
        <3>1. Makers \subseteq Pushes /\ audiences \subseteq Audiences
            BY DEF Makers, AudienceInv, AudienceTypeOK
        <3> QED BY <3>1, PartCount, FewAudiences, AudienceAssumption
    <2>2. OneAudience
        BY <2>1 DEF AudienceInv, AudienceTypeOK, AudiencesKept, OneAudience
    <2>3. DisconnectHolds
        BY DEF AudienceInv, TokenGone, DisconnectHolds
    <2> QED BY <2>2, <2>3 DEF PushesSound
<1> QED BY <1>1, AudienceInvariance, PTL

-----------------------------------------------------------------------------
(* Referrals *)

MemberRow == [code : Pages \union {NoCode}, referrer : Members \union {NoMember},
              activated : BOOLEAN, bonus : 0..BonusCap, live : BOOLEAN]
AwardRow == [at : {"next", "flip", "pay", "commit"}, pending : SUBSET (Members \X Members),
             referee : Members \union {NoMember}, referrer : Members \union {NoMember}]

\* u was recorded to come from r, and still is unless claims of u overlapped.
CameFrom(u, r) == r # u /\ r # NoMember /\ (member[u].referrer = r \/ u \in reclaimed)

\* Nobody refers themselves, not even in a claim or an award under way.
NoSelfReferral ==
    /\ \A u \in Members : member[u].referrer # u
    /\ \A c \in Claims : claim[c].at \in {"find", "write"} => claim[c].who \in Members
    /\ \A c \in Claims : claim[c].at = "write" =>
          claim[c].referrer \in Members /\ claim[c].referrer # claim[c].who

\* A sweep acts on what was recorded; an award under way holds a row that is not
\* activated, and no two hold the same.
AwardsApart ==
    /\ \A s \in Activators : \A x \in activator[s].pending : CameFrom(x[1], x[2])
    /\ \A s \in Activators : activator[s].at # "next" =>
          /\ activator[s].referee \in Members /\ activator[s].referrer \in Members
          /\ member[activator[s].referee].live
          /\ CameFrom(activator[s].referee, activator[s].referrer)
    /\ \A s \in Activators : activator[s].at \in {"pay", "commit"} =>
          ~member[activator[s].referee].activated
    /\ \A s, t \in Activators : s # t => Holds(s) \cap Holds(t) = {}

\* Who was paid for: the members whose award was committed.
PaidFor ==
    \A e \in Members : /\ member[e].activated <=> payee[e] # NoMember
                       /\ payee[e] # e

\* Pages of one member that were open together have met; what a page loaded is
\* still the member's code, or was overwritten by a page that it met.
PagesMeet ==
    /\ \A p \in Pages : page[p].at = "open" => page[p].who \in Members
    /\ \A p, q \in Pages : p # q /\ page[p].at = "open" /\ page[q].at = "open" /\ page[p].who = page[q].who
          => p \in met /\ q \in met
    /\ \A p \in Pages : page[p].at = "open" =>
          LET code == member[page[p].who].code IN
             IF page[p].code = NoCode THEN code = NoCode \/ code \in met
             ELSE code = page[p].code \/ page[p].code \in met

ReferralsInv ==
    /\ ReferralsTypeOK /\ NoSelfReferral /\ AwardsApart /\ PaidFor /\ PagesMeet
    /\ AwardsExact /\ PaidToReferrer /\ ShownCodesStand

\* What the rows may become.
LEMMA AwardTyped ==
    ASSUME ReferralsTypeOK, NEW s \in Activators, NEW r \in AwardRow, activator' = [activator EXCEPT ![s] = r]
    PROVE  activator' \in [Activators -> AwardRow] /\ activator'[s] = r
           /\ \A t \in Activators \ {s} : activator'[t] = activator[t]
    BY DEF ReferralsTypeOK, AwardRow

\* The same for the row of a member.
LEMMA MemberTyped ==
    ASSUME ReferralsTypeOK, NEW u \in Members, NEW r \in MemberRow, member' = [member EXCEPT ![u] = r]
    PROVE  member' \in [Members -> MemberRow] /\ member'[u] = r
           /\ \A v \in Members \ {u} : member'[v] = member[v]
    BY DEF ReferralsTypeOK, MemberRow

\* The pixel's first events.
LEMMA LiveMoves ==
    ASSUME ReferralsTypeOK, NEW u \in Members, member' = [member EXCEPT ![u].live = TRUE]
    PROVE  \E r \in MemberRow :
              /\ member' = [member EXCEPT ![u] = r]
              /\ r.live = TRUE /\ r.code = member[u].code /\ r.referrer = member[u].referrer /\ r.activated = member[u].activated /\ r.bonus = member[u].bonus
<1> DEFINE r == [member[u] EXCEPT !.live = TRUE]
<1>0. member[u] \in MemberRow
    BY DEF ReferralsTypeOK, MemberRow
<1>1. r \in MemberRow
    <2>1. \A m \in MemberRow : \A x \in BOOLEAN : [m EXCEPT !.live = x] \in MemberRow
        BY DEF MemberRow
    <2>2. TRUE \in BOOLEAN
        OBVIOUS
    <2> QED BY <1>0, <2>1, <2>2
<1>2. r.live = TRUE /\ r.code = member[u].code /\ r.referrer = member[u].referrer /\ r.activated = member[u].activated /\ r.bonus = member[u].bonus
    BY <1>0 DEF MemberRow
<1>3. member' = [member EXCEPT ![u] = r]
    OBVIOUS
<1> QED BY <1>1, <1>2, <1>3

\* A code is written.
LEMMA CodeMoves ==
    ASSUME ReferralsTypeOK, NEW u \in Members, NEW p \in Pages, member' = [member EXCEPT ![u].code = p]
    PROVE  \E r \in MemberRow :
              /\ member' = [member EXCEPT ![u] = r]
              /\ r.live = member[u].live /\ r.code = p /\ r.referrer = member[u].referrer /\ r.activated = member[u].activated /\ r.bonus = member[u].bonus
<1> DEFINE r == [member[u] EXCEPT !.code = p]
<1>0. member[u] \in MemberRow
    BY DEF ReferralsTypeOK, MemberRow
<1>1. r \in MemberRow
    <2>1. \A m \in MemberRow : \A x \in Pages : [m EXCEPT !.code = x] \in MemberRow
        BY DEF MemberRow
    <2>2. p \in Pages
        OBVIOUS
    <2> QED BY <1>0, <2>1, <2>2
<1>2. r.live = member[u].live /\ r.code = p /\ r.referrer = member[u].referrer /\ r.activated = member[u].activated /\ r.bonus = member[u].bonus
    BY <1>0 DEF MemberRow
<1>3. member' = [member EXCEPT ![u] = r]
    OBVIOUS
<1> QED BY <1>1, <1>2, <1>3

\* A referrer is written.
LEMMA ReferrerMoves ==
    ASSUME ReferralsTypeOK, NEW u \in Members, NEW v \in Members, member' = [member EXCEPT ![u].referrer = v]
    PROVE  \E r \in MemberRow :
              /\ member' = [member EXCEPT ![u] = r]
              /\ r.live = member[u].live /\ r.code = member[u].code /\ r.referrer = v /\ r.activated = member[u].activated /\ r.bonus = member[u].bonus
<1> DEFINE r == [member[u] EXCEPT !.referrer = v]
<1>0. member[u] \in MemberRow
    BY DEF ReferralsTypeOK, MemberRow
<1>1. r \in MemberRow
    <2>1. \A m \in MemberRow : \A x \in Members : [m EXCEPT !.referrer = x] \in MemberRow
        BY DEF MemberRow
    <2>2. v \in Members
        OBVIOUS
    <2> QED BY <1>0, <2>1, <2>2
<1>2. r.live = member[u].live /\ r.code = member[u].code /\ r.referrer = v /\ r.activated = member[u].activated /\ r.bonus = member[u].bonus
    BY <1>0 DEF MemberRow
<1>3. member' = [member EXCEPT ![u] = r]
    OBVIOUS
<1> QED BY <1>1, <1>2, <1>3

\* The award in hand is dropped or done.
LEMMA NextMoves ==
    ASSUME ReferralsTypeOK, NEW s \in Activators, NextReferral(s)
    PROVE  \E r \in AwardRow : /\ activator' = [activator EXCEPT ![s] = r]
                               /\ r.at = "next" /\ r.pending = activator[s].pending
<1> DEFINE r == [activator[s] EXCEPT !.at = "next", !.referee = NoMember, !.referrer = NoMember]
<1>1. r \in AwardRow /\ r.at = "next" /\ r.pending = activator[s].pending
    BY DEF ReferralsTypeOK, AwardRow
<1>2. activator' = [activator EXCEPT ![s] = r]
    BY DEF NextReferral
<1> QED BY <1>1, <1>2

\* The award in hand goes on to its next statement.
LEMMA GoesOn ==
    ASSUME ReferralsTypeOK, NEW s \in Activators, NEW step \in {"pay", "commit"},
           activator' = [activator EXCEPT ![s].at = step]
    PROVE  \E r \in AwardRow : /\ activator' = [activator EXCEPT ![s] = r]
                               /\ r.at = step /\ r.pending = activator[s].pending
                               /\ r.referee = activator[s].referee /\ r.referrer = activator[s].referrer
<1> DEFINE r == [activator[s] EXCEPT !.at = step]
<1>1. /\ r \in AwardRow /\ r.at = step /\ r.pending = activator[s].pending
      /\ r.referee = activator[s].referee /\ r.referrer = activator[s].referrer
    BY DEF ReferralsTypeOK, AwardRow
<1>2. activator' = [activator EXCEPT ![s] = r]
    OBVIOUS
<1> QED BY <1>1, <1>2

\* A bonus more.
LEMMA OneBonusMore ==
    ASSUME NEW b \in Nat, NEW cap \in Nat, NEW n \in Nat
    PROVE  Least(Least(b * n, cap) + b, cap) = Least(b * (n + 1), cap)
<1>1. b * (n + 1) = b * n + b /\ b * n \in Nat
    OBVIOUS
<1> DEFINE k == b * n
<1>2. k \in Nat /\ b * (n + 1) = k + b
    BY <1>1
<1> HIDE DEF k
<1>3. Least(Least(k, cap) + b, cap) = Least(k + b, cap)
    BY <1>2 DEF Least
<1> QED BY <1>2, <1>3 DEF k

\* What a committed award does to the two rows.
LEMMA CommitMoves ==
    ASSUME ReferralsTypeOK, NEW s \in Activators, CommitAward(s),
           activator[s].referee \in Members, activator[s].referrer \in Members,
           activator[s].referee # activator[s].referrer
    PROVE  LET e == activator[s].referee
               r == activator[s].referrer IN
           /\ member' \in [Members -> MemberRow]
           /\ \A u \in Members : /\ member'[u].code = member[u].code
                                 /\ member'[u].referrer = member[u].referrer
                                 /\ member'[u].live = member[u].live
           /\ member'[e].activated
           /\ \A u \in Members \ {e} : member'[u].activated = member[u].activated
           /\ \A u \in {e, r} : member'[u].bonus = Least(member[u].bonus + Bonus, BonusCap)
           /\ \A u \in Members \ {e, r} : member'[u].bonus = member[u].bonus
<1> DEFINE e == activator[s].referee
           r == activator[s].referrer
           Paid(u) == Least(member[u].bonus + Bonus, BonusCap)
           rowE == [member[e] EXCEPT !.activated = TRUE, !.bonus = Paid(e)]
           rowR == [member[r] EXCEPT !.bonus = Paid(r)]
<1>1. \A u \in Members : Paid(u) \in 0..BonusCap
    BY ReferralsAssumption DEF ReferralsTypeOK, Least
<1>2. \A m \in MemberRow : \A b \in BOOLEAN : \A n \in 0..BonusCap :
         /\ [m EXCEPT !.activated = b, !.bonus = n] \in MemberRow
         /\ [m EXCEPT !.bonus = n] \in MemberRow
    BY DEF MemberRow
<1>3. \A u \in Members : member[u] \in MemberRow
    BY DEF ReferralsTypeOK, MemberRow
<1>4. rowE \in MemberRow /\ rowR \in MemberRow
    <2>1. Paid(e) \in 0..BonusCap /\ Paid(r) \in 0..BonusCap /\ TRUE \in BOOLEAN
        BY <1>1
    <2> HIDE DEF Paid
    <2> QED BY <1>2, <1>3, <2>1
<1>5. /\ rowE.activated /\ rowE.bonus = Paid(e) /\ rowE.code = member[e].code
      /\ rowE.referrer = member[e].referrer /\ rowE.live = member[e].live
      /\ rowR.activated = member[r].activated /\ rowR.bonus = Paid(r) /\ rowR.code = member[r].code
      /\ rowR.referrer = member[r].referrer /\ rowR.live = member[r].live
    BY <1>3 DEF MemberRow
<1>6. member' = [[member EXCEPT ![e] = rowE] EXCEPT ![r] = rowR]
    BY DEF CommitAward, ReferralsTypeOK
<1> HIDE DEF rowE, rowR, e, r
<1>7. /\ member' \in [Members -> MemberRow] /\ member'[e] = rowE /\ member'[r] = rowR
      /\ \A u \in Members \ {e, r} : member'[u] = member[u]
    <2>1. e \in Members /\ r \in Members /\ e # r
        BY DEF e, r
    <2> QED BY <1>3, <1>4, <1>6, <2>1 DEF ReferralsTypeOK
<1> HIDE DEF Paid
<1>8. e \in Members /\ r \in Members /\ e # r
    BY DEF e, r
<1>9. /\ \A u \in Members : /\ member'[u].code = member[u].code
                            /\ member'[u].referrer = member[u].referrer
                            /\ member'[u].live = member[u].live
      /\ member'[e].activated
      /\ \A u \in Members \ {e} : member'[u].activated = member[u].activated
      /\ \A u \in {e, r} : member'[u].bonus = Paid(u)
      /\ \A u \in Members \ {e, r} : member'[u].bonus = member[u].bonus
    BY <1>5, <1>7, <1>8
<1> QED BY <1>7, <1>9 DEF Paid, e, r

\* Every step keeps the types.
LEMMA ReferralsTypeStep ==
    ReferralsTypeOK /\ AwardsApart /\ NoSelfReferral /\ PagesMeet /\ [ReferralsNext]_referralVars
       => ReferralsTypeOK'
<1> SUFFICES ASSUME ReferralsTypeOK, AwardsApart, NoSelfReferral, PagesMeet, [ReferralsNext]_referralVars
             PROVE  ReferralsTypeOK'
    OBVIOUS
<1>0. /\ member \in [Members -> MemberRow] /\ page \in [Pages -> RequestRow] /\ claim \in [Claims -> RequestRow]
      /\ activator \in [Activators -> AwardRow]
      /\ shown \subseteq Pages \X Members /\ met \subseteq Pages /\ reclaimed \subseteq Members
      /\ payee \in [Members -> Members \union {NoMember}]
    BY DEF ReferralsTypeOK, MemberRow, AwardRow
<1>a. ASSUME member' \in [Members -> MemberRow], page' \in [Pages -> RequestRow], claim' \in [Claims -> RequestRow],
             activator' \in [Activators -> AwardRow],
             shown' \subseteq Pages \X Members, met' \subseteq Pages, reclaimed' \subseteq Members,
             payee' \in [Members -> Members \union {NoMember}]
      PROVE  ReferralsTypeOK'
    BY <1>a DEF ReferralsTypeOK, MemberRow, AwardRow
<1>b. Request("over") \in RequestRow
    BY DEF Request, RequestRow
<1>1. ASSUME NEW u \in Members, GoLive(u)
      PROVE  ReferralsTypeOK'
    <2>1. PICK r \in MemberRow : member' = [member EXCEPT ![u] = r]
        BY <1>1, LiveMoves DEF GoLive
    <2>2. member' \in [Members -> MemberRow]
        BY <2>1, MemberTyped
    <2> QED BY <1>0, <1>1, <1>a, <2>2 DEF GoLive
<1>2. ASSUME NEW p \in Pages, NEW u \in Members, OpenPage(p, u)
      PROVE  ReferralsTypeOK'
    <2>1. [at |-> "open", who |-> u, code |-> member[u].code, referrer |-> NoMember] \in RequestRow
        BY <1>0 DEF MemberRow, RequestRow
    <2>2. page' \in [Pages -> RequestRow]
        BY <1>0, <1>2, <2>1 DEF OpenPage
    <2>3. met' \subseteq Pages
        BY <1>0, <1>2 DEF OpenPage
    <2> QED BY <1>0, <1>2, <1>a, <2>2, <2>3 DEF OpenPage
<1>3. ASSUME NEW p \in Pages, EnsureCode(p)
      PROVE  ReferralsTypeOK'
    <2>1. page[p].who \in Members /\ page[p].code \in Pages \union {NoCode}
        BY <1>0, <1>3 DEF EnsureCode, PagesMeet, RequestRow
    <2>2. page' \in [Pages -> RequestRow]
        BY <1>0, <1>3, <1>b DEF EnsureCode
    <2>3. shown' \subseteq Pages \X Members
        BY <1>0, <1>3, <2>1 DEF EnsureCode
    <2>4. member' \in [Members -> MemberRow]
        <3>1. CASE member' = [member EXCEPT ![page[p].who].code = p]
            <4>1. PICK u \in Members : member' = [member EXCEPT ![u].code = p]
                BY <2>1, <3>1
            <4>2. PICK r \in MemberRow : member' = [member EXCEPT ![u] = r]
                BY <4>1, CodeMoves
            <4> QED BY <4>2, MemberTyped
        <3> QED BY <1>0, <1>3, <3>1 DEF EnsureCode
    <2> QED BY <1>0, <1>3, <1>a, <2>2, <2>3, <2>4 DEF EnsureCode
<1>4. ASSUME NEW c \in Claims, NEW u \in Members, BeginClaim(c, u)
      PROVE  ReferralsTypeOK'
    <2>1. PICK x \in shown : claim' = [claim EXCEPT ![c] = [at |-> "find", who |-> u, code |-> x[1],
                                                       referrer |-> member[u].referrer]]
        BY <1>4 DEF BeginClaim
    <2>2. [at |-> "find", who |-> u, code |-> x[1], referrer |-> member[u].referrer] \in RequestRow
        BY <1>0 DEF MemberRow, RequestRow
    <2>3. claim' \in [Claims -> RequestRow]
        BY <1>0, <2>1, <2>2
    <2> QED BY <1>0, <1>4, <1>a, <2>3 DEF BeginClaim
<1>5. ASSUME NEW c \in Claims, FindReferrer(c)
      PROVE  ReferralsTypeOK'
    <2>1. claim' \in [Claims -> RequestRow]
        <3>1. CASE claim' = [claim EXCEPT ![c] = Request("over")]
            BY <1>0, <1>b, <3>1
        <3>2. ASSUME NEW r \in Members, claim' = [claim EXCEPT ![c].at = "write", ![c].referrer = r]
              PROVE  claim' \in [Claims -> RequestRow]
            <4> DEFINE row == [claim[c] EXCEPT !.at = "write", !.referrer = r]
            <4>1. row \in RequestRow
                BY <1>0 DEF RequestRow
            <4>2. claim' = [claim EXCEPT ![c] = row]
                BY <3>2
            <4> HIDE DEF row
            <4> QED BY <1>0, <4>1, <4>2
        <3> QED BY <1>5, <3>1, <3>2 DEF FindReferrer
    <2> QED BY <1>0, <1>5, <1>a, <2>1 DEF FindReferrer
<1>6. ASSUME NEW c \in Claims, WriteReferrer(c)
      PROVE  ReferralsTypeOK'
    <2>1. claim[c].who \in Members /\ claim[c].referrer \in Members
        BY <1>6 DEF WriteReferrer, NoSelfReferral
    <2>2. PICK u, v \in Members : member' = [member EXCEPT ![u].referrer = v]
        BY <1>6, <2>1 DEF WriteReferrer
    <2>3. member' \in [Members -> MemberRow]
        <3>1. PICK r \in MemberRow : member' = [member EXCEPT ![u] = r]
            BY <2>2, ReferrerMoves
        <3> QED BY <3>1, MemberTyped
    <2>4. reclaimed' \subseteq Members
        BY <1>0, <1>6, <2>1 DEF WriteReferrer
    <2>5. claim' \in [Claims -> RequestRow]
        BY <1>0, <1>6, <1>b DEF WriteReferrer
    <2> QED BY <1>0, <1>6, <1>a, <2>3, <2>4, <2>5 DEF WriteReferrer
<1>7. ASSUME NEW s \in Activators, ReadPending(s)
      PROVE  ReferralsTypeOK'
    <2> DEFINE list == {<<u, member[u].referrer>> : u \in
             {v \in Members : member[v].referrer # NoMember /\ ~member[v].activated}}
    <2>1. list \in SUBSET (Members \X Members)
        BY <1>0 DEF MemberRow
    <2>2. activator' = [activator EXCEPT ![s].pending = list]
        BY <1>7 DEF ReadPending
    <2> HIDE DEF list
    <2>3. activator' \in [Activators -> AwardRow]
        <3> DEFINE row == [activator[s] EXCEPT !.pending = list]
        <3>1. row \in AwardRow
            BY <1>0, <2>1 DEF AwardRow
        <3>2. activator' = [activator EXCEPT ![s] = row]
            BY <2>2
        <3> HIDE DEF row
        <3> QED BY <1>0, <3>1, <3>2
    <2> QED BY <1>0, <1>7, <1>a, <2>3 DEF ReadPending
<1>8. ASSUME NEW s \in Activators, CheckLive(s)
      PROVE  ReferralsTypeOK'
    <2>1. PICK x \in activator[s].pending :
             activator' = [activator EXCEPT
                ![s] = [at |-> IF member[x[1]].live THEN "flip" ELSE "next",
                        pending |-> @.pending \ {x},
                        referee |-> IF member[x[1]].live THEN x[1] ELSE NoMember,
                        referrer |-> IF member[x[1]].live THEN x[2] ELSE NoMember]]
        BY <1>8 DEF CheckLive
    <2>2. x \in Members \X Members
        BY <1>0 DEF AwardRow
    <2>3. [at |-> IF member[x[1]].live THEN "flip" ELSE "next",
           pending |-> activator[s].pending \ {x},
           referee |-> IF member[x[1]].live THEN x[1] ELSE NoMember,
           referrer |-> IF member[x[1]].live THEN x[2] ELSE NoMember] \in AwardRow
        BY <1>0, <2>2 DEF AwardRow
    <2>4. activator' \in [Activators -> AwardRow]
        BY <1>0, <2>1, <2>3
    <2> QED BY <1>0, <1>8, <1>a, <2>4 DEF CheckLive
<1>c. ASSUME NEW s \in Activators, NextReferral(s)
      PROVE  activator' \in [Activators -> AwardRow]
    <2>1. PICK r \in AwardRow : activator' = [activator EXCEPT ![s] = r]
        BY <1>c, NextMoves
    <2> QED BY <2>1, AwardTyped
<1>d. ASSUME NEW s \in Activators, NEW step \in {"pay", "commit"}, activator' = [activator EXCEPT ![s].at = step]
      PROVE  activator' \in [Activators -> AwardRow]
    <2>1. PICK r \in AwardRow : activator' = [activator EXCEPT ![s] = r]
        BY <1>d, GoesOn
    <2> QED BY <2>1, AwardTyped
<1>9. ASSUME NEW s \in Activators, Flip(s)
      PROVE  ReferralsTypeOK'
    <2>1. activator' \in [Activators -> AwardRow]
        BY <1>9, <1>c, <1>d DEF Flip
    <2> QED BY <1>0, <1>9, <1>a, <2>1 DEF Flip
<1>10. ASSUME NEW s \in Activators, PayReferrer(s)
       PROVE  ReferralsTypeOK'
    <2>1. activator' \in [Activators -> AwardRow]
        BY <1>10, <1>d DEF PayReferrer
    <2> QED BY <1>0, <1>10, <1>a, <2>1 DEF PayReferrer
<1>11. ASSUME NEW s \in Activators, CommitAward(s)
       PROVE  ReferralsTypeOK'
    <2>1. /\ activator[s].referee \in Members /\ activator[s].referrer \in Members
          /\ activator[s].referee # activator[s].referrer
        BY <1>11 DEF CommitAward, AwardsApart, CameFrom
    <2>2. member' \in [Members -> MemberRow]
        BY <1>11, <2>1, CommitMoves
    <2>3. activator' \in [Activators -> AwardRow] /\ payee' \in [Members -> Members \union {NoMember}]
        BY <1>0, <1>11, <1>c, <2>1 DEF CommitAward
    <2> QED BY <1>0, <1>11, <1>a, <2>2, <2>3 DEF CommitAward
<1>12. ASSUME NEW s \in Activators, AwardFails(s)
       PROVE  ReferralsTypeOK'
    <2>1. activator' \in [Activators -> AwardRow]
        BY <1>12, <1>c DEF AwardFails
    <2> QED BY <1>0, <1>12, <1>a, <2>1 DEF AwardFails
<1>13. ASSUME NEW s \in Activators, ActivatorDies(s)
       PROVE  ReferralsTypeOK'
    <2>1. NoAward \in AwardRow
        BY DEF NoAward, AwardRow
    <2>2. activator' \in [Activators -> AwardRow]
        BY <1>0, <1>13, <2>1 DEF ActivatorDies
    <2> QED BY <1>0, <1>13, <1>a, <2>2 DEF ActivatorDies
<1>14. CASE UNCHANGED referralVars
    BY <1>0, <1>14, <1>a DEF referralVars
<1> QED BY <1>1, <1>2, <1>3, <1>4, <1>5, <1>6, <1>7, <1>8, <1>9, <1>10, <1>11, <1>12, <1>13, <1>14
        DEF ReferralsNext

\* Each column of the members' rows has one writer.
LEMMA ColumnWriters ==
    ASSUME ReferralsTypeOK, AwardsApart, NoSelfReferral, PagesMeet, [ReferralsNext]_referralVars
    PROVE  /\ \A u \in Members : member[u].live => member'[u].live
           /\ \/ \E p \in Pages : EnsureCode(p)
              \/ \A u \in Members : member'[u].code = member[u].code
           /\ \/ \E c \in Claims : WriteReferrer(c)
              \/ reclaimed' = reclaimed /\ \A u \in Members : member'[u].referrer = member[u].referrer
           /\ \/ \E s \in Activators : CommitAward(s)
              \/ payee' = payee /\ \A u \in Members : /\ member'[u].activated = member[u].activated
                                                      /\ member'[u].bonus = member[u].bonus
<1> DEFINE Goal ==
           /\ \A u \in Members : member[u].live => member'[u].live
           /\ \/ \E p \in Pages : EnsureCode(p)
              \/ \A u \in Members : member'[u].code = member[u].code
           /\ \/ \E c \in Claims : WriteReferrer(c)
              \/ reclaimed' = reclaimed /\ \A u \in Members : member'[u].referrer = member[u].referrer
           /\ \/ \E s \in Activators : CommitAward(s)
              \/ payee' = payee /\ \A u \in Members : /\ member'[u].activated = member[u].activated
                                                      /\ member'[u].bonus = member[u].bonus
<1>a. ASSUME member' = member, reclaimed' = reclaimed, payee' = payee
      PROVE  Goal
    BY <1>a
<1>1. ASSUME NEW u \in Members, GoLive(u)
      PROVE  Goal
    <2>1. PICK r \in MemberRow :
             /\ member' = [member EXCEPT ![u] = r]
             /\ r.live /\ r.code = member[u].code
             /\ r.referrer = member[u].referrer /\ r.activated = member[u].activated /\ r.bonus = member[u].bonus
        BY <1>1, LiveMoves DEF GoLive
    <2>2. member'[u] = r /\ \A v \in Members \ {u} : member'[v] = member[v]
        BY <2>1, MemberTyped
    <2>3. reclaimed' = reclaimed /\ payee' = payee
        BY <1>1 DEF GoLive
    <2> QED BY <2>1, <2>2, <2>3
<1>2. ASSUME NEW p \in Pages, EnsureCode(p)
      PROVE  Goal
    <2>1. reclaimed' = reclaimed /\ payee' = payee
        BY <1>2 DEF EnsureCode
    <2>2. PICK u \in Members : member' = member \/ member' = [member EXCEPT ![u].code = p]
        BY <1>2 DEF EnsureCode, PagesMeet
    <2>3. CASE member' = [member EXCEPT ![u].code = p]
        <3>1. PICK r \in MemberRow :
                 /\ member' = [member EXCEPT ![u] = r]
                 /\ r.live = member[u].live
                 /\ r.referrer = member[u].referrer /\ r.activated = member[u].activated /\ r.bonus = member[u].bonus
            BY <2>3, CodeMoves
        <3>2. member'[u] = r /\ \A v \in Members \ {u} : member'[v] = member[v]
            BY <3>1, MemberTyped
        <3> QED BY <1>2, <2>1, <3>1, <3>2
    <2> QED BY <2>1, <2>2, <2>3, <1>a
<1>3. ASSUME NEW c \in Claims, WriteReferrer(c)
      PROVE  Goal
    <2>1. payee' = payee
        BY <1>3 DEF WriteReferrer
    <2>2. PICK u, v \in Members : member' = [member EXCEPT ![u].referrer = v]
        BY <1>3 DEF WriteReferrer, NoSelfReferral
    <2>3. PICK r \in MemberRow :
             /\ member' = [member EXCEPT ![u] = r]
             /\ r.live = member[u].live /\ r.code = member[u].code
             /\ r.activated = member[u].activated /\ r.bonus = member[u].bonus
        BY <2>2, ReferrerMoves
    <2>4. member'[u] = r /\ \A w \in Members \ {u} : member'[w] = member[w]
        BY <2>3, MemberTyped
    <2> QED BY <1>3, <2>1, <2>3, <2>4
<1>4. ASSUME NEW s \in Activators, CommitAward(s)
      PROVE  Goal
    <2>1. /\ activator[s].referee \in Members /\ activator[s].referrer \in Members
          /\ activator[s].referee # activator[s].referrer
        BY <1>4 DEF CommitAward, AwardsApart, CameFrom
    <2>2. \A u \in Members : /\ member'[u].code = member[u].code
                             /\ member'[u].referrer = member[u].referrer
                             /\ member'[u].live = member[u].live
        BY <1>4, <2>1, CommitMoves
    <2>3. reclaimed' = reclaimed
        BY <1>4 DEF CommitAward
    <2> QED BY <1>4, <2>2, <2>3
<1>5. ASSUME \/ \E u \in Members, p \in Pages : OpenPage(p, u)
             \/ \E u \in Members, c \in Claims : BeginClaim(c, u)
             \/ \E c \in Claims : FindReferrer(c)
             \/ \E s \in Activators : \/ ReadPending(s) \/ CheckLive(s) \/ Flip(s) \/ PayReferrer(s)
                                      \/ AwardFails(s) \/ ActivatorDies(s)
             \/ UNCHANGED referralVars
      PROVE  Goal
    <2>1. member' = member /\ reclaimed' = reclaimed /\ payee' = payee
        BY <1>5 DEF OpenPage, BeginClaim, FindReferrer, ReadPending, CheckLive, Flip, PayReferrer,
                    AwardFails, ActivatorDies, referralVars
    <2> QED BY <2>1, <1>a
<1> HIDE DEF Goal
<1>6. Goal
    BY <1>1, <1>2, <1>3, <1>4, <1>5 DEF ReferralsNext
<1> QED BY <1>6 DEF Goal

\* Only the award's own steps move a sweep.
LEMMA SweepsIdle ==
    ASSUME \/ \E u \in Members : GoLive(u)
           \/ \E u \in Members, p \in Pages : OpenPage(p, u)
           \/ \E u \in Members, c \in Claims : BeginClaim(c, u)
           \/ \E p \in Pages : EnsureCode(p)
           \/ \E c \in Claims : FindReferrer(c) \/ WriteReferrer(c)
           \/ UNCHANGED referralVars
    PROVE  activator' = activator
    BY DEF GoLive, OpenPage, BeginClaim, EnsureCode, FindReferrer, WriteReferrer, referralVars

\* Nor does a sweep touch a request.
LEMMA RequestsIdle ==
    ASSUME \/ \E u \in Members : GoLive(u)
           \/ \E s \in Activators : \/ ReadPending(s) \/ CheckLive(s) \/ Flip(s) \/ PayReferrer(s)
                                    \/ CommitAward(s) \/ AwardFails(s) \/ ActivatorDies(s)
           \/ UNCHANGED referralVars
    PROVE  page' = page /\ claim' = claim /\ shown' = shown /\ met' = met
    BY DEF GoLive, ReadPending, CheckLive, Flip, PayReferrer, CommitAward, AwardFails, ActivatorDies, referralVars

\* Claims do not touch pages, nor pages claims.
LEMMA PagesIdle ==
    ASSUME \/ \E u \in Members, c \in Claims : BeginClaim(c, u)
           \/ \E c \in Claims : FindReferrer(c) \/ WriteReferrer(c)
    PROVE  page' = page /\ shown' = shown /\ met' = met
    BY DEF BeginClaim, FindReferrer, WriteReferrer

\* Nor do pages touch claims.
LEMMA ClaimsIdle ==
    ASSUME \/ \E u \in Members, p \in Pages : OpenPage(p, u)
           \/ \E p \in Pages : EnsureCode(p)
    PROVE  claim' = claim
    BY DEF OpenPage, EnsureCode

\* A page that opens while another of its member is open has met it.
LEMMA PageOpens ==
    ASSUME ReferralsInv, NEW p \in Pages, NEW u \in Members, OpenPage(p, u)
    PROVE  PagesMeet' /\ ShownCodesStand'
<1>1. /\ page[p].at = "off" /\ member' = member /\ shown' = shown
      /\ page' = [page EXCEPT ![p] = [at |-> "open", who |-> u, code |-> member[u].code,
                                      referrer |-> NoMember]]
    BY DEF OpenPage
<1> DEFINE open == {q \in Pages : page[q].at = "open" /\ page[q].who = u}
<1>2. met' = IF open = {} THEN met ELSE met \union open \union {p}
    BY DEF OpenPage
<1>3. /\ page'[p].at = "open" /\ page'[p].who = u /\ page'[p].code = member[u].code
      /\ \A q \in Pages \ {p} : page'[q] = page[q]
    BY <1>1 DEF ReferralsInv, ReferralsTypeOK
<1>4. met \subseteq met' /\ \A q \in Pages \ {p} : page[q].at = "open" /\ page[q].who = u => q \in met' /\ p \in met'
    BY <1>2
<1> HIDE DEF open
<1>5. PagesMeet'
    BY <1>1, <1>3, <1>4 DEF ReferralsInv, PagesMeet
<1>6. ShownCodesStand'
    BY <1>1, <1>4 DEF ReferralsInv, ShownCodesStand
<1> QED BY <1>5, <1>6

\* A page that writes a new code overwrites only the code of a page that it met.
LEMMA CodeEnsured ==
    ASSUME ReferralsInv, NEW p \in Pages, EnsureCode(p)
    PROVE  PagesMeet' /\ ShownCodesStand'
<1>1. PICK u \in Members : u = page[p].who
    BY DEF EnsureCode, ReferralsInv, PagesMeet
<1> DEFINE old == page[p].code
           now == IF old = NoCode THEN p ELSE old
<1>2. /\ page[p].at = "open" /\ met' = met /\ shown' = shown \union {<<now, u>>}
      /\ page' = [page EXCEPT ![p] = Request("over")]
      /\ member' = IF old = NoCode THEN [member EXCEPT ![u].code = p] ELSE member
    BY <1>1 DEF EnsureCode
<1>3. /\ page'[p].at = "over" /\ \A q \in Pages \ {p} : page'[q] = page[q]
    BY <1>2 DEF ReferralsInv, ReferralsTypeOK, Request
<1>4. /\ \A v \in Members \ {u} : member'[v].code = member[v].code
      /\ old # NoCode => member'[u].code = member[u].code
      /\ old = NoCode => member'[u].code = p
    <2>1. CASE old = NoCode
        <3>1. member' = [member EXCEPT ![u].code = p]
            BY <1>2, <2>1
        <3>2. PICK r \in MemberRow : member' = [member EXCEPT ![u] = r] /\ r.code = p
            BY <3>1, CodeMoves DEF ReferralsInv
        <3>3. member'[u] = r /\ \A v \in Members \ {u} : member'[v] = member[v]
            BY <3>2, MemberTyped DEF ReferralsInv
        <3> QED BY <2>1, <3>2, <3>3
    <2>2. CASE old # NoCode
        BY <1>2, <2>2
    <2> QED BY <2>1, <2>2
<1>5. IF old = NoCode THEN member[u].code = NoCode \/ member[u].code \in met
      ELSE member[u].code = old \/ old \in met
    BY <1>1, <1>2 DEF ReferralsInv, PagesMeet
<1>6. \A q \in Pages \ {p} : page[q].at = "open" /\ page[q].who = u => p \in met /\ q \in met
    BY <1>1, <1>2 DEF ReferralsInv, PagesMeet
<1>7. p # NoCode
    BY ReferralsAssumption
<1>8. PagesMeet'
    <2>1. \A q \in Pages : page'[q].at = "open" => q # p /\ page[q].at = "open" /\ page'[q] = page[q]
        BY <1>3
    <2>2. \A q \in Pages : page'[q].at = "open" => page'[q].who \in Members
        BY <2>1 DEF ReferralsInv, PagesMeet
    <2>3. \A q, r \in Pages : q # r /\ page'[q].at = "open" /\ page'[r].at = "open" /\ page'[q].who = page'[r].who
             => q \in met' /\ r \in met'
        BY <1>2, <2>1 DEF ReferralsInv, PagesMeet
    <2>4. ASSUME NEW q \in Pages, page'[q].at = "open"
          PROVE  IF page'[q].code = NoCode
                 THEN member'[page'[q].who].code = NoCode \/ member'[page'[q].who].code \in met'
                 ELSE member'[page'[q].who].code = page'[q].code \/ page'[q].code \in met'
        <3>1. q # p /\ page[q].at = "open" /\ page'[q] = page[q] /\ page[q].who \in Members
            BY <2>1, <2>2, <2>4
        <3>2. IF page[q].code = NoCode
              THEN member[page[q].who].code = NoCode \/ member[page[q].who].code \in met
              ELSE member[page[q].who].code = page[q].code \/ page[q].code \in met
            BY <3>1 DEF ReferralsInv, PagesMeet
        <3>3. CASE page[q].who # u
            BY <1>2, <1>4, <3>1, <3>2, <3>3
        <3>4. CASE page[q].who = u
            <4>1. p \in met
                BY <1>6, <3>1, <3>4
            <4> QED BY <1>2, <1>4, <1>5, <3>1, <3>2, <3>4, <4>1
        <3> QED BY <3>3, <3>4
    <2> QED BY <2>2, <2>3, <2>4 DEF PagesMeet
<1>9. ShownCodesStand'
    <2> SUFFICES ASSUME NEW x \in shown \union {<<now, u>>}
                 PROVE  member'[x[2]].code = x[1] \/ x[1] \in met
        BY <1>2 DEF ShownCodesStand
    <2>1. CASE x = <<now, u>>
        BY <1>4, <1>5, <2>1
    <2>2. CASE x \in shown
        <3>1. /\ x[1] \in Pages /\ x[2] \in Members
              /\ member[x[2]].code = x[1] \/ x[1] \in met
            BY <2>2 DEF ReferralsInv, ReferralsTypeOK, ShownCodesStand
        <3>2. x[1] # NoCode
            BY <3>1, ReferralsAssumption
        <3> QED BY <1>4, <1>5, <3>1, <3>2
    <2> QED BY <2>1, <2>2
<1> QED BY <1>8, <1>9

\* No step lets a code that was shown lapse, but by two pages that met.
LEMMA CodesStep == ReferralsInv /\ [ReferralsNext]_referralVars => PagesMeet' /\ ShownCodesStand'
<1> SUFFICES ASSUME ReferralsInv, [ReferralsNext]_referralVars
             PROVE  PagesMeet' /\ ShownCodesStand'
    OBVIOUS
<1>1. ASSUME NEW u \in Members, NEW p \in Pages, OpenPage(p, u)
      PROVE  PagesMeet' /\ ShownCodesStand'
    BY <1>1, PageOpens
<1>2. ASSUME NEW p \in Pages, EnsureCode(p)
      PROVE  PagesMeet' /\ ShownCodesStand'
    BY <1>2, CodeEnsured
<1>3. ASSUME page' = page, shown' = shown, met' = met, ~\E p \in Pages : EnsureCode(p)
      PROVE  PagesMeet' /\ ShownCodesStand'
    <2>1. \A u \in Members : member'[u].code = member[u].code
        BY <1>3, ColumnWriters DEF ReferralsInv
    <2>2. \A x \in shown : x[2] \in Members
        BY DEF ReferralsInv, ReferralsTypeOK
    <2>3. PagesMeet'
        BY <1>3, <2>1 DEF ReferralsInv, PagesMeet
    <2>4. ShownCodesStand'
        BY <1>3, <2>1, <2>2 DEF ReferralsInv, ShownCodesStand
    <2> QED BY <2>3, <2>4
<1>4. \/ \E u \in Members, p \in Pages : OpenPage(p, u)
      \/ \E p \in Pages : EnsureCode(p)
      \/ page' = page /\ shown' = shown /\ met' = met
    BY RequestsIdle, PagesIdle DEF ReferralsNext
<1> QED BY <1>1, <1>2, <1>3, <1>4

\* No claim refers a member to itself.
LEMMA SelfStep == ReferralsInv /\ [ReferralsNext]_referralVars => NoSelfReferral'
<1> SUFFICES ASSUME ReferralsInv, [ReferralsNext]_referralVars
             PROVE  NoSelfReferral'
    OBVIOUS
<1>1. ASSUME NEW c \in Claims, NEW u \in Members, BeginClaim(c, u)
      PROVE  NoSelfReferral'
    <2>1. member' = member
        BY <1>1 DEF BeginClaim
    <2>2. /\ claim'[c].at = "find" /\ claim'[c].who = u
          /\ \A d \in Claims \ {c} : claim'[d] = claim[d]
        BY <1>1 DEF BeginClaim, ReferralsInv, ReferralsTypeOK
    <2> QED BY <2>1, <2>2 DEF ReferralsInv, NoSelfReferral
<1>2. ASSUME NEW c \in Claims, FindReferrer(c)
      PROVE  NoSelfReferral'
    <2>1. member' = member /\ claim[c].at = "find" /\ claim[c].who \in Members
        BY <1>2 DEF FindReferrer, ReferralsInv, NoSelfReferral
    <2>2. CASE claim' = [claim EXCEPT ![c] = Request("over")]
        <3>1. /\ claim'[c].at = "over"
              /\ \A d \in Claims \ {c} : claim'[d] = claim[d]
            BY <2>2 DEF ReferralsInv, ReferralsTypeOK, Request
        <3> QED BY <2>1, <3>1 DEF ReferralsInv, NoSelfReferral
    <2>3. ASSUME NEW r \in Members \ {claim[c].who}, claim' = [claim EXCEPT ![c].at = "write", ![c].referrer = r]
          PROVE  NoSelfReferral'
        <3>1. /\ claim'[c].at = "write" /\ claim'[c].who = claim[c].who /\ claim'[c].referrer = r
              /\ \A d \in Claims \ {c} : claim'[d] = claim[d]
            BY <2>3 DEF ReferralsInv, ReferralsTypeOK, RequestRow
        <3> QED BY <2>1, <3>1 DEF ReferralsInv, NoSelfReferral
    <2> QED BY <1>2, <2>2, <2>3 DEF FindReferrer
<1>3. ASSUME NEW c \in Claims, WriteReferrer(c)
      PROVE  NoSelfReferral'
    <2>1. PICK u, v \in Members : u = claim[c].who /\ v = claim[c].referrer /\ u # v
        BY <1>3 DEF WriteReferrer, ReferralsInv, NoSelfReferral
    <2>2. member' = [member EXCEPT ![u].referrer = v] /\ claim' = [claim EXCEPT ![c] = Request("over")]
        BY <1>3, <2>1 DEF WriteReferrer
    <2>3. member'[u].referrer = v
        BY <2>1, <2>2 DEF ReferralsInv, ReferralsTypeOK
    <2>4. \A w \in Members \ {u} : member'[w] = member[w]
        BY <2>1, <2>2 DEF ReferralsInv, ReferralsTypeOK
    <2>5. claim'[c].at = "over" /\ \A d \in Claims \ {c} : claim'[d] = claim[d]
        BY <2>2 DEF ReferralsInv, ReferralsTypeOK, Request
    <2> QED BY <2>1, <2>3, <2>4, <2>5 DEF ReferralsInv, NoSelfReferral
<1>4. ASSUME claim' = claim, ~\E c \in Claims : WriteReferrer(c)
      PROVE  NoSelfReferral'
    <2>1. \A u \in Members : member'[u].referrer = member[u].referrer
        BY <1>4, ColumnWriters DEF ReferralsInv
    <2> QED BY <1>4, <2>1 DEF ReferralsInv, NoSelfReferral
<1>5. \/ \E c \in Claims : FindReferrer(c) \/ WriteReferrer(c)
      \/ \E c \in Claims, u \in Members : BeginClaim(c, u)
      \/ claim' = claim
    BY RequestsIdle, ClaimsIdle DEF ReferralsNext
<1> QED BY <1>1, <1>2, <1>3, <1>4, <1>5

\* Where a member came from stands, whatever later claims write.
LEMMA OriginKept ==
    ASSUME ReferralsInv, [ReferralsNext]_referralVars, NEW e \in Members, NEW r, CameFrom(e, r)
    PROVE  CameFrom(e, r)'
<1>1. CASE \E c \in Claims : WriteReferrer(c)
    <2>1. PICK c \in Claims : WriteReferrer(c)
        BY <1>1
    <2>2. PICK u, v \in Members : u = claim[c].who /\ v = claim[c].referrer /\ u # v
        BY <2>1 DEF WriteReferrer, ReferralsInv, NoSelfReferral
    <2>3. /\ member' = [member EXCEPT ![u].referrer = v]
          /\ reclaimed' = IF member[u].referrer = NoMember THEN reclaimed ELSE reclaimed \union {u}
        BY <2>1, <2>2 DEF WriteReferrer
    <2>4. PICK row \in MemberRow : member' = [member EXCEPT ![u] = row]
        BY <2>3, ReferrerMoves DEF ReferralsInv
    <2>5. \A w \in Members \ {u} : member'[w] = member[w]
        BY <2>4, MemberTyped DEF ReferralsInv
    <2> QED BY <2>3, <2>5 DEF CameFrom
<1>2. CASE ~\E c \in Claims : WriteReferrer(c)
    <2>1. reclaimed' = reclaimed /\ member'[e].referrer = member[e].referrer
        BY <1>2, ColumnWriters DEF ReferralsInv
    <2> QED BY <2>1 DEF CameFrom
<1> QED BY <1>1, <1>2

\* What a sweep may become when it moves.
LEMMA AwardsFrame ==
    ASSUME ReferralsInv, [ReferralsNext]_referralVars, NEW s \in Activators, NEW row \in AwardRow,
           activator' = [activator EXCEPT ![s] = row],
           \A x \in row.pending : CameFrom(x[1], x[2]),
           row.at # "next" => /\ row.referee \in Members /\ row.referrer \in Members
                              /\ member[row.referee].live /\ CameFrom(row.referee, row.referrer),
           row.at \in {"pay", "commit"} =>
              /\ member' = member /\ ~member[row.referee].activated
              /\ \A t \in Activators \ {s} : row.referee \notin Holds(t),
           row.at = "commit" => \A t \in Activators \ {s} : row.referrer \notin Holds(t),
           \A t \in Activators \ {s} : activator[t].at \in {"pay", "commit"} =>
              ~member'[activator[t].referee].activated
    PROVE  AwardsApart'
<1>1. activator'[s] = row /\ \A t \in Activators \ {s} : activator'[t] = activator[t]
    BY AwardTyped DEF ReferralsInv
<1>2. row.pending \subseteq Members \X Members
    BY DEF AwardRow
<1>3. \A t \in Activators : activator[t].pending \subseteq Members \X Members
    BY DEF ReferralsInv, ReferralsTypeOK
<1>4. \A e \in Members : \A r : CameFrom(e, r) => CameFrom(e, r)'
    BY OriginKept
<1>5. \A u \in Members : member[u].live => member'[u].live
    BY ColumnWriters DEF ReferralsInv
<1>6. \A t \in Activators : \A x \in activator'[t].pending : CameFrom(x[1], x[2])'
    <2> SUFFICES ASSUME NEW t \in Activators, NEW x \in activator'[t].pending
                 PROVE  CameFrom(x[1], x[2])'
        OBVIOUS
    <2>1. x[1] \in Members /\ x[2] \in Members /\ CameFrom(x[1], x[2])
        BY <1>1, <1>2, <1>3 DEF ReferralsInv, AwardsApart
    <2>2. PICK e, r \in Members : x[1] = e /\ x[2] = r
        BY <2>1
    <2> QED BY <1>4, <2>1, <2>2 DEF CameFrom
<1>7. ASSUME NEW t \in Activators, activator'[t].at # "next"
      PROVE  /\ activator'[t].referee \in Members /\ activator'[t].referrer \in Members
             /\ member'[activator'[t].referee].live
             /\ CameFrom(activator[t].referee, activator[t].referrer)'
    <2>1. PICK e, r \in Members : /\ activator'[t].referee = e /\ activator'[t].referrer = r
                                  /\ member[e].live /\ CameFrom(e, r)
        BY <1>1, <1>7 DEF ReferralsInv, AwardsApart
    <2>2. member'[e].live /\ CameFrom(e, r)'
        BY <1>4, <1>5, <2>1
    <2> QED BY <2>1, <2>2 DEF CameFrom
<1>8. \A t \in Activators : activator'[t].at \in {"pay", "commit"} => ~member'[activator'[t].referee].activated
    BY <1>1
<1>9. \A t \in Activators \ {s} : Holds(t)' = Holds(t)
    BY <1>1 DEF Holds
<1>10. Holds(s)' = CASE row.at = "pay" -> {row.referee}
                     [] row.at = "commit" -> {row.referee, row.referrer}
                     [] OTHER -> {}
    BY <1>1 DEF Holds
<1>11. \A t \in Activators \ {s} : Holds(s)' \cap Holds(t) = {}
    BY <1>10
<1>12. \A t, q \in Activators : t # q => Holds(t)' \cap Holds(q)' = {}
    BY <1>9, <1>11 DEF ReferralsInv, AwardsApart
<1> QED BY <1>6, <1>7, <1>8, <1>12 DEF AwardsApart

\* A sweep that is between awards has nothing to answer for but its list.
LEMMA BetweenAwards ==
    ASSUME ReferralsInv, [ReferralsNext]_referralVars, NEW s \in Activators, NEW row \in AwardRow,
           activator' = [activator EXCEPT ![s] = row], row.at = "next",
           \A x \in row.pending : CameFrom(x[1], x[2]),
           \/ member' = member
           \/ activator[s].at = "commit" /\ CommitAward(s)
    PROVE  AwardsApart'
<1>1. ASSUME NEW t \in Activators \ {s}, activator[t].at \in {"pay", "commit"}
      PROVE  ~member'[activator[t].referee].activated
    <2>1. ~member[activator[t].referee].activated /\ activator[t].referee \in Members
        BY <1>1 DEF ReferralsInv, AwardsApart
    <2>2. CASE member' = member
        BY <2>1, <2>2
    <2>3. CASE activator[s].at = "commit" /\ CommitAward(s)
        <3>1. /\ activator[s].referee \in Members /\ activator[s].referrer \in Members
              /\ activator[s].referee # activator[s].referrer
            BY <2>3 DEF ReferralsInv, AwardsApart, CameFrom
        <3>2. \A u \in Members \ {activator[s].referee} : member'[u].activated = member[u].activated
            BY <2>3, <3>1, CommitMoves DEF ReferralsInv
        <3>3. Holds(s) \cap Holds(t) = {}
            BY DEF ReferralsInv, AwardsApart
        <3>4. activator[s].referee \in Holds(s)
            BY <2>3 DEF Holds
        <3>5. activator[t].referee \in Holds(t)
            BY <1>1 DEF Holds
        <3> QED BY <2>1, <3>2, <3>3, <3>4, <3>5
    <2> QED BY <2>2, <2>3
<1> QED BY <1>1, AwardsFrame

\* Every step keeps the awards apart.
LEMMA AwardsStep == ReferralsInv /\ [ReferralsNext]_referralVars => AwardsApart'
<1> SUFFICES ASSUME ReferralsInv, [ReferralsNext]_referralVars
             PROVE  AwardsApart'
    OBVIOUS
<1>0. activator \in [Activators -> AwardRow]
    BY DEF ReferralsInv, ReferralsTypeOK, AwardRow
<1>a. \A t \in Activators : activator[t].at \in {"pay", "commit"} => ~member[activator[t].referee].activated
    BY DEF ReferralsInv, AwardsApart
<1>b. \A t \in Activators : \A x \in activator[t].pending : CameFrom(x[1], x[2])
    BY DEF ReferralsInv, AwardsApart
<1>c. NoAward \in AwardRow /\ NoAward.at = "next" /\ NoAward.pending = {}
    BY DEF NoAward, AwardRow
<1>1. ASSUME NEW s \in Activators, ReadPending(s)
      PROVE  AwardsApart'
    <2> DEFINE list == {<<u, member[u].referrer>> : u \in
                          {v \in Members : member[v].referrer # NoMember /\ ~member[v].activated}}
               row == [NoAward EXCEPT !.pending = list]
    <2>1. \A u \in Members : member[u].referrer \in Members \union {NoMember} /\ member[u].referrer # u
        BY DEF ReferralsInv, ReferralsTypeOK, NoSelfReferral
    <2>2. list \subseteq Members \X Members
        BY <2>1
    <2>3. \A x \in list : CameFrom(x[1], x[2])
        BY <2>1 DEF CameFrom
    <2> HIDE DEF list
    <2>4. row \in AwardRow /\ row.at = "next" /\ row.pending = list
        BY <2>2 DEF NoAward, AwardRow
    <2>5. activator' = [activator EXCEPT ![s] = row] /\ member' = member
        BY <1>1 DEF ReadPending, list
    <2> QED BY <2>3, <2>4, <2>5, BetweenAwards
<1>2. ASSUME NEW s \in Activators, CheckLive(s)
      PROVE  AwardsApart'
    <2>1. PICK x \in activator[s].pending :
             activator' = [activator EXCEPT
                ![s] = [at |-> IF member[x[1]].live THEN "flip" ELSE "next",
                        pending |-> @.pending \ {x},
                        referee |-> IF member[x[1]].live THEN x[1] ELSE NoMember,
                        referrer |-> IF member[x[1]].live THEN x[2] ELSE NoMember]]
        BY <1>2 DEF CheckLive
    <2> DEFINE row == [at |-> IF member[x[1]].live THEN "flip" ELSE "next",
                       pending |-> activator[s].pending \ {x},
                       referee |-> IF member[x[1]].live THEN x[1] ELSE NoMember,
                       referrer |-> IF member[x[1]].live THEN x[2] ELSE NoMember]
    <2>2. x[1] \in Members /\ x[2] \in Members /\ CameFrom(x[1], x[2])
          /\ activator[s].pending \subseteq Members \X Members
        BY <1>0, <1>b DEF AwardRow
    <2>3. /\ row \in AwardRow /\ row.at \in {"flip", "next"}
          /\ row.at # "next" => row.referee = x[1] /\ row.referrer = x[2] /\ member[x[1]].live
          /\ row.pending \subseteq activator[s].pending
        BY <2>2 DEF AwardRow
    <2>4. activator' = [activator EXCEPT ![s] = row]
        BY <2>1
    <2>5. member' = member
        BY <1>2 DEF CheckLive
    <2> HIDE DEF row
    <2>6. row.at # "next" => /\ row.referee \in Members /\ row.referrer \in Members
                             /\ member[row.referee].live /\ CameFrom(row.referee, row.referrer)
        BY <2>2, <2>3 DEF CameFrom
    <2>7. \A y \in row.pending : CameFrom(y[1], y[2])
        BY <1>b, <2>3
    <2>8. row.at \notin {"pay", "commit"}
        BY <2>3
    <2> QED BY <1>a, <2>3, <2>4, <2>5, <2>6, <2>7, <2>8, AwardsFrame
<1>3. ASSUME NEW s \in Activators, NextReferral(s), member' = member \/ (activator[s].at = "commit" /\ CommitAward(s))
      PROVE  AwardsApart'
    <2>1. PICK row \in AwardRow : /\ activator' = [activator EXCEPT ![s] = row]
                                  /\ row.at = "next" /\ row.pending = activator[s].pending
        BY <1>3, NextMoves DEF ReferralsInv
    <2>2. \A x \in row.pending : CameFrom(x[1], x[2])
        BY <1>b, <2>1
    <2> QED BY <1>3, <2>1, <2>2, BetweenAwards
<1>4. ASSUME NEW s \in Activators, Flip(s), ~member[activator[s].referee].activated
      PROVE  AwardsApart'
    <2>1. /\ activator' = [activator EXCEPT ![s].at = "pay"] /\ member' = member
          /\ activator[s].at = "flip" /\ Unlocked(activator[s].referee)
        BY <1>4 DEF Flip
    <2>2. PICK row \in AwardRow : /\ activator' = [activator EXCEPT ![s] = row]
                                  /\ row.at = "pay" /\ row.pending = activator[s].pending
                                  /\ row.referee = activator[s].referee /\ row.referrer = activator[s].referrer
        BY <2>1, GoesOn DEF ReferralsInv
    <2>3. /\ row.referee \in Members /\ row.referrer \in Members
          /\ member[row.referee].live /\ CameFrom(row.referee, row.referrer)
        BY <2>1, <2>2 DEF ReferralsInv, AwardsApart, CameFrom
    <2>4. ~member[row.referee].activated /\ \A t \in Activators \ {s} : row.referee \notin Holds(t)
        BY <1>4, <2>1, <2>2 DEF Unlocked
    <2>5. \A x \in row.pending : CameFrom(x[1], x[2])
        BY <1>b, <2>2
    <2> QED BY <1>a, <2>1, <2>2, <2>3, <2>4, <2>5, AwardsFrame
<1>5. ASSUME NEW s \in Activators, PayReferrer(s)
      PROVE  AwardsApart'
    <2>1. /\ activator' = [activator EXCEPT ![s].at = "commit"] /\ member' = member
          /\ activator[s].at = "pay" /\ Unlocked(activator[s].referrer)
        BY <1>5 DEF PayReferrer
    <2>2. PICK row \in AwardRow : /\ activator' = [activator EXCEPT ![s] = row]
                                  /\ row.at = "commit" /\ row.pending = activator[s].pending
                                  /\ row.referee = activator[s].referee /\ row.referrer = activator[s].referrer
        BY <2>1, GoesOn DEF ReferralsInv
    <2>3. /\ row.referee \in Members /\ row.referrer \in Members
          /\ member[row.referee].live /\ CameFrom(row.referee, row.referrer)
          /\ ~member[row.referee].activated
        BY <2>1, <2>2 DEF ReferralsInv, AwardsApart, CameFrom
    <2>4. row.referee \in Holds(s)
        BY <2>1, <2>2 DEF Holds
    <2>5. \A t \in Activators \ {s} : row.referee \notin Holds(t) /\ row.referrer \notin Holds(t)
        BY <2>1, <2>2, <2>4 DEF Unlocked, ReferralsInv, AwardsApart
    <2>6. \A x \in row.pending : CameFrom(x[1], x[2])
        BY <1>b, <2>2
    <2> QED BY <1>a, <2>1, <2>2, <2>3, <2>5, <2>6, AwardsFrame
<1>6. ASSUME NEW s \in Activators, ActivatorDies(s)
      PROVE  AwardsApart'
    <2>1. activator' = [activator EXCEPT ![s] = NoAward] /\ member' = member
        BY <1>6 DEF ActivatorDies
    <2>2. PICK row \in AwardRow : row = NoAward
        BY <1>c
    <2> QED BY <1>c, <2>1, <2>2, BetweenAwards
<1>7. ASSUME activator' = activator, ~\E s \in Activators : CommitAward(s)
      PROVE  AwardsApart'
    <2>1. \A u \in Members : member'[u].activated = member[u].activated
        BY <1>7, ColumnWriters DEF ReferralsInv
    <2>2. \A u \in Members : member[u].live => member'[u].live
        BY ColumnWriters DEF ReferralsInv
    <2>3. \A e \in Members : \A r : CameFrom(e, r) => CameFrom(e, r)'
        BY OriginKept
    <2>4. \A t \in Activators : Holds(t)' = Holds(t)
        BY <1>7 DEF Holds
    <2>5. ASSUME NEW t \in Activators, NEW x \in activator[t].pending
          PROVE  CameFrom(x[1], x[2])'
        <3>1. PICK e, r \in Members : x[1] = e /\ x[2] = r /\ CameFrom(e, r)
            BY <1>0, <1>b DEF AwardRow
        <3> QED BY <2>3, <3>1 DEF CameFrom
    <2>6. ASSUME NEW t \in Activators, activator[t].at # "next"
          PROVE  /\ activator[t].referee \in Members /\ activator[t].referrer \in Members
                 /\ member'[activator[t].referee].live
                 /\ CameFrom(activator[t].referee, activator[t].referrer)'
        <3>1. PICK e, r \in Members : /\ activator[t].referee = e /\ activator[t].referrer = r
                                      /\ member[e].live /\ CameFrom(e, r)
            BY <2>6 DEF ReferralsInv, AwardsApart
        <3>2. member'[e].live /\ CameFrom(e, r)'
            BY <2>2, <2>3, <3>1
        <3> QED BY <1>7, <3>1, <3>2 DEF CameFrom
    <2>7. \A t \in Activators : activator[t].at \in {"pay", "commit"} => ~member'[activator[t].referee].activated
        BY <1>a, <2>1 DEF ReferralsInv, AwardsApart
    <2> QED BY <1>7, <2>4, <2>5, <2>6, <2>7 DEF ReferralsInv, AwardsApart
<1>8. ASSUME NEW s \in Activators, CheckLive(s) \/ ReadPending(s) \/ Flip(s) \/ PayReferrer(s)
                                   \/ CommitAward(s) \/ AwardFails(s) \/ ActivatorDies(s)
      PROVE  AwardsApart'
    <2>1. CASE Flip(s)
        BY <1>3, <1>4, <2>1 DEF Flip
    <2>2. CASE CommitAward(s)
        BY <1>3, <2>2 DEF CommitAward
    <2>3. CASE AwardFails(s)
        BY <1>3, <2>3 DEF AwardFails
    <2> QED BY <1>1, <1>2, <1>5, <1>6, <1>8, <2>1, <2>2, <2>3
<1>9. \/ \E s \in Activators : CheckLive(s) \/ ReadPending(s) \/ Flip(s) \/ PayReferrer(s)
                               \/ CommitAward(s) \/ AwardFails(s) \/ ActivatorDies(s)
      \/ activator' = activator /\ ~\E s \in Activators : CommitAward(s)
    BY SweepsIdle DEF ReferralsNext
<1> QED BY <1>7, <1>8, <1>9

\* Only a committed award moves activation, bonuses and the record of who was paid.
LEMMA AwardCommitted ==
    ASSUME ReferralsInv, [ReferralsNext]_referralVars, NEW s \in Activators, CommitAward(s)
    PROVE  PaidFor' /\ PaidToReferrer' /\ AwardsExact'
<1>1. PICK e, r \in Members : e = activator[s].referee /\ r = activator[s].referrer
    BY DEF CommitAward, ReferralsInv, AwardsApart
<1>2. e # r /\ ~member[e].activated /\ member[e].live /\ CameFrom(e, r)
    BY <1>1 DEF CommitAward, ReferralsInv, AwardsApart, CameFrom
<1>3. /\ \A u \in Members : /\ member'[u].referrer = member[u].referrer
                            /\ member'[u].live = member[u].live
      /\ member'[e].activated
      /\ \A u \in Members \ {e} : member'[u].activated = member[u].activated
      /\ member'[e].bonus = Least(member[e].bonus + Bonus, BonusCap)
      /\ member'[r].bonus = Least(member[r].bonus + Bonus, BonusCap)
      /\ \A u \in Members \ {e, r} : member'[u].bonus = member[u].bonus
    BY <1>1, <1>2, CommitMoves DEF ReferralsInv
<1>4. payee' = [payee EXCEPT ![e] = r] /\ reclaimed' = reclaimed
    BY <1>1 DEF CommitAward
<1>5. payee'[e] = r /\ \A u \in Members \ {e} : payee'[u] = payee[u]
    BY <1>4 DEF ReferralsInv, ReferralsTypeOK
<1>6. PaidFor'
    BY <1>2, <1>3, <1>5, ReferralsAssumption DEF ReferralsInv, PaidFor
<1>7. PaidToReferrer'
    BY <1>2, <1>3, <1>4, <1>5 DEF ReferralsInv, PaidToReferrer, CameFrom
<1> DEFINE Own(u) == IF member[u].activated THEN {u} ELSE {}
           Referred(u) == {m \in Members : payee[m] = u}
           n(u) == Cardinality(Own(u)) + Cardinality(Referred(u))
<1>8. payee[e] = NoMember /\ Own(e) = {} /\ Own(e)' = {e} /\ \A u \in Members \ {e} : Own(u)' = Own(u)
    BY <1>2, <1>3 DEF ReferralsInv, PaidFor
<1>9. /\ e \notin Referred(r) /\ Referred(r)' = Referred(r) \union {e}
      /\ \A u \in Members \ {r} : Referred(u)' = Referred(u)
    BY <1>5, <1>8, ReferralsAssumption
<1>10. \A u \in Members : IsFiniteSet(Referred(u)) /\ Cardinality(Referred(u)) \in Nat
    <2> SUFFICES ASSUME NEW u \in Members
                 PROVE  IsFiniteSet(Referred(u)) /\ Cardinality(Referred(u)) \in Nat
        OBVIOUS
    <2>1. Referred(u) \subseteq Members
        OBVIOUS
    <2> QED BY <2>1, PartCount, ReferralsAssumption
<1>11. \A u \in Members : Cardinality(Own(u)) \in Nat
    <2>1. Cardinality({}) \in Nat
        BY FS_EmptySet
    <2>2. \A u \in Members : Cardinality({u}) = 1
        BY FS_Singleton
    <2> QED BY <2>1, <2>2
<1>12. Cardinality(Own(e)) = 0 /\ Cardinality(Own(e)') = 1
    BY <1>8, FS_EmptySet, FS_Singleton
<1>13. Cardinality(Referred(r)') = Cardinality(Referred(r)) + 1
    BY <1>9, <1>10, FS_AddElement
<1> HIDE DEF Own, Referred
<1>14. /\ \A u \in Members : n(u) \in Nat
       /\ n(e)' = n(e) + 1 /\ n(r)' = n(r) + 1 /\ \A u \in Members \ {e, r} : n(u)' = n(u)
    BY <1>2, <1>8, <1>9, <1>10, <1>11, <1>12, <1>13
<1>15. \A u \in Members : member[u].bonus = Least(Bonus * n(u), BonusCap)
    BY DEF ReferralsInv, AwardsExact, Own, Referred
<1> HIDE DEF n
<1>16. \A u \in {e, r} : member'[u].bonus = Least(Bonus * n(u)', BonusCap)
    <2> SUFFICES ASSUME NEW u \in {e, r}
                 PROVE  member'[u].bonus = Least(Bonus * n(u)', BonusCap)
        OBVIOUS
    <2>1. Least(Least(Bonus * n(u), BonusCap) + Bonus, BonusCap) = Least(Bonus * (n(u) + 1), BonusCap)
        BY <1>14, OneBonusMore, ReferralsAssumption
    <2> QED BY <1>3, <1>14, <1>15, <2>1
<1>17. \A u \in Members : member'[u].bonus = Least(Bonus * n(u)', BonusCap)
    BY <1>3, <1>14, <1>15, <1>16
<1>18. AwardsExact'
    BY <1>17 DEF AwardsExact, n, Own, Referred
<1> QED BY <1>6, <1>7, <1>18

\* Every step keeps the awards exact, and paid to whom the member came from.
LEMMA PaidStep == ReferralsInv /\ [ReferralsNext]_referralVars => PaidFor' /\ PaidToReferrer' /\ AwardsExact'
<1> SUFFICES ASSUME ReferralsInv, [ReferralsNext]_referralVars
             PROVE  PaidFor' /\ PaidToReferrer' /\ AwardsExact'
    OBVIOUS
<1>1. CASE \E s \in Activators : CommitAward(s)
    BY <1>1, AwardCommitted
<1>2. CASE ~\E s \in Activators : CommitAward(s)
    <2>1. payee' = payee /\ \A u \in Members : /\ member'[u].activated = member[u].activated
                                              /\ member'[u].bonus = member[u].bonus
        BY <1>2, ColumnWriters DEF ReferralsInv
    <2>2. \A u \in Members : member[u].live => member'[u].live
        BY ColumnWriters DEF ReferralsInv
    <2>3. PaidFor'
        BY <2>1 DEF ReferralsInv, PaidFor
    <2>4. AwardsExact'
        BY <2>1 DEF ReferralsInv, AwardsExact
    <2>5. ASSUME NEW e \in Members, member'[e].activated
          PROVE  member'[e].live /\ (payee'[e] = member'[e].referrer \/ e \in reclaimed')
        <3>1. PICK r : r = payee[e]
            OBVIOUS
        <3>2. /\ member[e].live /\ r \in Members /\ r # e
              /\ r = member[e].referrer \/ e \in reclaimed
            BY <2>1, <2>5, <3>1 DEF ReferralsInv, ReferralsTypeOK, PaidFor, PaidToReferrer
        <3>3. CameFrom(e, r)
            BY <3>2, ReferralsAssumption DEF CameFrom
        <3>4. CameFrom(e, r)'
            BY <3>3, OriginKept
        <3> QED BY <2>1, <2>2, <3>1, <3>2, <3>4 DEF CameFrom
    <2> QED BY <2>3, <2>4, <2>5 DEF PaidToReferrer
<1> QED BY <1>1, <1>2

\* The invariant holds at the start.
LEMMA ReferralsInitInv == ReferralsInit => ReferralsInv
<1> SUFFICES ASSUME ReferralsInit
             PROVE  ReferralsInv
    OBVIOUS
<1>1. ReferralsTypeOK
    <2>1. Request("off") \in RequestRow /\ NoAward \in AwardRow
        BY DEF Request, RequestRow, NoAward, AwardRow
    <2>2. 0 \in 0..BonusCap
        BY ReferralsAssumption
    <2> QED BY <2>1, <2>2 DEF ReferralsInit, ReferralsTypeOK, AwardRow
<1>2. /\ \A p \in Pages : page[p].at = "off"
      /\ \A c \in Claims : claim[c].at = "off"
      /\ \A s \in Activators : activator[s].at = "next" /\ activator[s].pending = {}
      /\ \A u \in Members : /\ member[u].referrer = NoMember /\ ~member[u].activated
                            /\ member[u].bonus = 0 /\ payee[u] = NoMember
      /\ shown = {}
    BY DEF ReferralsInit, Request, NoAward
<1>3. NoSelfReferral /\ AwardsApart /\ PaidFor /\ PagesMeet
    <2>1. \A s \in Activators : Holds(s) = {}
        BY <1>2 DEF Holds
    <2>2. NoSelfReferral /\ PaidFor /\ PagesMeet
        BY <1>2, ReferralsAssumption DEF NoSelfReferral, PaidFor, PagesMeet
    <2> QED BY <1>2, <2>1, <2>2 DEF AwardsApart
<1>4. AwardsExact
    <2> SUFFICES ASSUME NEW u \in Members
                 PROVE  member[u].bonus = Least(Bonus * (Cardinality(IF member[u].activated THEN {u} ELSE {})
                                                + Cardinality({e \in Members : payee[e] = u})), BonusCap)
        BY DEF AwardsExact
    <2>1. (IF member[u].activated THEN {u} ELSE {}) = {} /\ {e \in Members : payee[e] = u} = {}
        BY <1>2, ReferralsAssumption
    <2>2. Cardinality({}) = 0
        BY FS_EmptySet
    <2>3. Least(Bonus * (0 + 0), BonusCap) = 0
        BY ReferralsAssumption DEF Least
    <2> QED BY <1>2, <2>1, <2>2, <2>3
<1>5. PaidToReferrer /\ ShownCodesStand
    BY <1>2 DEF PaidToReferrer, ShownCodesStand
<1> QED BY <1>1, <1>3, <1>4, <1>5 DEF ReferralsInv

\* The invariant is inductive.
LEMMA ReferralsStepInv == ReferralsInv /\ [ReferralsNext]_referralVars => ReferralsInv'
<1> SUFFICES ASSUME ReferralsInv, [ReferralsNext]_referralVars
             PROVE  ReferralsInv'
    OBVIOUS
<1>1. ReferralsTypeOK'
    BY ReferralsTypeStep DEF ReferralsInv
<1>2. NoSelfReferral' /\ AwardsApart' /\ PagesMeet' /\ ShownCodesStand'
    BY SelfStep, AwardsStep, CodesStep
<1>3. PaidFor' /\ PaidToReferrer' /\ AwardsExact'
    BY PaidStep
<1> QED BY <1>1, <1>2, <1>3 DEF ReferralsInv

\* The inductive invariant of the awards: one under way holds the row of a member
\* who is not activated, comes from whom it names, and no two hold the same row.
THEOREM ReferralsInvariance == ReferralsSpec => []ReferralsInv
    BY ReferralsInitInv, ReferralsStepInv, PTL DEF ReferralsSpec

\* Bonuses are exactly those of the awards that were committed, go to whom the
\* member came from, and links that were shown keep working, with any number of
\* members, requests and overlapping sweeps.
THEOREM AwardsAreSound == ReferralsSpec => []ReferralsSound
<1>1. ReferralsInv => ReferralsSound
    BY DEF ReferralsInv, ReferralsSound
<1> QED BY <1>1, ReferralsInvariance, PTL

-----------------------------------------------------------------------------
(* The composition *)

\* What is left out of a part's behaviour is left alone.
LEMMA OutboundParts ==
    [Next]_<<part, postingVars, inactivityVars, audienceVars, referralVars>> =>
       /\ [PostingNext]_postingVars /\ [InactivityNext]_inactivityVars
       /\ [AudienceNext]_audienceVars /\ [ReferralsNext]_referralVars
    BY DEF Next

\* The parts stay well typed together, for any number of actors in each: TypeOK.
THEOREM OutboundTyped == Spec => []TypeOK
<1> DEFINE Inv == PostingInv /\ InactivityInv /\ AudienceInv /\ ReferralsInv
<1>1. Init => Inv
    BY PostingInitInv, InactivityInitInv, AudienceInitInv, ReferralsInitInv DEF Init
<1>2. Inv /\ [Next]_<<part, postingVars, inactivityVars, audienceVars, referralVars>> => Inv'
    <2>1. AudienceInv /\ [AudienceNext]_audienceVars => AudienceInv'
        BY AudienceTypeStep, AudiencesStep, TokenGoneStep DEF AudienceInv
    <2> QED BY <2>1, OutboundParts, PostingStepInv, InactivityStepInv, ReferralsStepInv
<1>3. Inv => TypeOK
    BY DEF TypeOK, PostingInv, InactivityInv, AudienceInv, ReferralsInv
<1> HIDE DEF Inv
<1> QED BY <1>1, <1>2, <1>3, PTL DEF Spec
=============================================================================
