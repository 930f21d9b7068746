---------------------------- MODULE SitesProofs -----------------------------
(***************************************************************************)
(* The life of a site, its analysis and the erasure of a person, for any       *)
(* number of owners, ids, requests, deletes, writers, analyses, sweeps and     *)
(* resolvers, and the types of the composition that is model-checked.         *)
(***************************************************************************)
EXTENDS MCSites, InactivityProofs

-----------------------------------------------------------------------------
(* Sites: an id is reclaimed by a request that read it off a tombstone some    *)
(* time ago, and deleted by one that read the site some time ago.  By then the *)
(* tombstone may have been used or have expired, and the site be gone: what    *)
(* holds is that whoever has the id in hand, in a row or in a request, has it  *)
(* for one owner and URL, and that an id in hand is not issued as a fresh one. *)

\* An id read off a tombstone.
Reclaims(c) == create[c].at = "picked" /\ create[c].id # NewId
Deleting(d) == removal[d].at # "off"

\* The site a create request means to add.
Meant(c) == [id |-> create[c].id, url |-> create[c].url, owner |-> create[c].owner]

InHand == sites \union tombstones \union {Meant(c) : c \in {b \in Creates : Reclaims(b)}}
              \union {removal[d].site : d \in {e \in Deletes : Deleting(e)}}

Agree(s, t) == s.id = t.id => s.owner = t.owner /\ s.url = t.url

LivesKnown == \A d \in Deletes : Deleting(d) => removal[d].life <= deleted[removal[d].site.id]

\* Why IdKeepsOwner holds.
OwnerInv ==
    /\ SiteTypeOK
    /\ \A s, t \in InHand : Agree(s, t)
    /\ \A s \in InHand : s \in sites \/ deleted[s.id] > 0
    /\ LivesKnown

Stands(w) == writer[w].at = "written"
Campaign(w, i) == Stands(w) /\ writer[w].table = "campaigns" /\ writer[w].id = i

\* The delete has been through the table of a row of the life it deletes.
Passed(d, w) == /\ writer[w].table \in Through(d) /\ writer[w].id = removal[d].site.id
                /\ writer[w].life = removal[d].life

\* Such a row is one of those it took, or was written afterwards.
TakenOrLate == \A d \in Deletes, w \in Writers :
                  Stands(w) /\ Passed(d, w) => w \in removal[d].taken \/ writer[w].late

\* A touchpoint has its campaign, and had one when it was read.
Under(w) == writer[w].parent \in Writers /\ Campaign(writer[w].parent, writer[w].id)
Bereft(w) == writer[w].parent \in Writers /\ writer[writer[w].parent].at = "over"
HasCampaign == \A w \in Writers : writer[w].table = "touchpoints" =>
    /\ Stands(w) => Under(w)
    /\ writer[w].at = "read" => Under(w) \/ Bereft(w)

\* A delete that has taken a campaign has its touchpoints.
CascadeTaken == \A d \in Deletes, w \in Writers :
    Stands(w) /\ writer[w].table = "touchpoints" /\ removal[d].at = "commit"
    /\ writer[w].parent \in removal[d].taken => w \in removal[d].taken

TakenOfSite == \A d \in Deletes : \A w \in removal[d].taken :
    writer[w].at = "over" \/ (Stands(w) /\ writer[w].id = removal[d].site.id)

\* Why CleanReuse holds: a touchpoint is found through a campaign.
ReuseInv ==
    /\ SiteTypeOK
    /\ CleanReuse
    /\ \A w \in Writers : writer[w].at \in {"read", "written"} =>
          writer[w].life <= deleted[writer[w].id]
    /\ TakenOrLate
    /\ HasCampaign
    /\ CascadeTaken
    /\ TakenOfSite

-----------------------------------------------------------------------------
(* Typing *)

CreateSet == [at : {"idle", "checked", "picked", "refused"}, owner : Owners, url : Urls,
              id : Ids \union {NewId}]
RemovalSet == [at : {"off", "touchpoints", "segments", "campaigns", "commit"},
               site : Site, life : 0..MaxDeletes, taken : SUBSET Writers]

\* What a request or a writer has before it begins and when it is over.
LEMMA BlanksTyped ==
    /\ NoWrite("idle") \in WriterRow /\ NoWrite("over") \in WriterRow
    /\ NoDelete \in RemovalSet /\ NoDelete.at = "off"
<1>1. 0 \in 0..MaxDeletes
    BY SiteAssumption
<1>2. \E s \in Site : TRUE
    <2>1. PICK i \in Ids, u \in Urls, o \in Owners : TRUE
        BY SiteAssumption
    <2>2. [id |-> i, url |-> u, owner |-> o] \in Site
        BY DEF Site
    <2> QED BY <2>2
<1>3. (CHOOSE s \in Site : TRUE) \in Site
    BY <1>2
<1> QED BY <1>1, <1>3 DEF NoWrite, WriterRow, Tables, NoDelete, RemovalSet

LEMMA SitesInitTyped == SiteInit => SiteTypeOK
<1> SUFFICES ASSUME SiteInit PROVE SiteTypeOK
    OBVIOUS
<1>1. (CHOOSE o \in Owners : TRUE) \in Owners /\ (CHOOSE u \in Urls : TRUE) \in Urls
    BY SiteAssumption
<1>2. 0 \in 0..MaxDeletes
    BY SiteAssumption
<1>3. /\ writer \in [Writers -> WriterRow]
      /\ \A w \in Writers : writer[w].at \in {"read", "written"} => writer[w].id \in Ids
    BY BlanksTyped DEF SiteInit, NoWrite
<1>4. /\ removal \in [Deletes -> RemovalSet]
      /\ \A d \in Deletes : removal[d].at # "off" => removal[d].life < MaxDeletes
    BY BlanksTyped DEF SiteInit
<1> QED BY <1>1, <1>2, <1>3, <1>4 DEF SiteInit, SiteTypeOK, RemovalSet

LEMMA SitesTyped ==
    ASSUME SiteTypeOK, NEW s \in sites \union tombstones
    PROVE  s \in Site /\ s.id \in Ids /\ s.url \in Urls /\ s.owner \in Owners
           /\ deleted[s.id] \in 0..MaxDeletes
BY DEF SiteTypeOK, Site

LEMMA RemovalTyped ==
    ASSUME SiteTypeOK, NEW d \in Deletes
    PROVE  /\ removal[d] \in RemovalSet
           /\ removal[d].site \in Site /\ removal[d].site.id \in Ids
           /\ removal[d].life \in Nat /\ deleted[removal[d].site.id] \in Nat
           /\ Deleting(d) => removal[d].life < MaxDeletes
BY SiteAssumption DEF SiteTypeOK, Site, RemovalSet, Deleting

LEMMA RowTyped ==
    ASSUME SiteTypeOK, NEW w \in Writers
    PROVE  /\ writer[w] \in WriterRow /\ writer[w].life \in Nat
           /\ writer[w].at \in {"read", "written"} =>
                 writer[w].id \in Ids /\ deleted[writer[w].id] \in Nat
BY SiteAssumption DEF SiteTypeOK, WriterRow

\* The site a request adds.
LEMMA AddTyped ==
    ASSUME SiteTypeOK, NEW c \in Creates, NEW i \in Ids, Add(c, i)
    PROVE  /\ [id |-> i, url |-> create[c].url, owner |-> create[c].owner] \in Site
           /\ sites' = sites \union {[id |-> i, url |-> create[c].url, owner |-> create[c].owner]}
           /\ sites' \subseteq Site
           /\ create' = [create EXCEPT ![c].at = "idle"]
           /\ create' \in [Creates -> CreateSet]
BY DEF SiteTypeOK, Add, Site, CreateSet

\* A step of a create request leaves the deletes and the rows alone.
LEMMA CreatesTyped ==
    ASSUME SiteTypeOK, sites' \subseteq Site, tombstones' \subseteq tombstones,
           create' \in [Creates -> CreateSet], UNCHANGED <<removal, writer, deleted>>
    PROVE  SiteTypeOK'
BY DEF SiteTypeOK, CreateSet

\* A step of a delete before its commit.
LEMMA RemovalsTyped ==
    ASSUME SiteTypeOK, NEW d \in Deletes, NEW r \in RemovalSet,
           r.at # "off" => r.life < MaxDeletes, removal' = [removal EXCEPT ![d] = r],
           UNCHANGED <<sites, tombstones, create, writer, deleted>>
    PROVE  SiteTypeOK'
<1>1. /\ removal' \in [Deletes -> RemovalSet]
      /\ \A e \in Deletes : removal'[e].at # "off" => removal'[e].life < MaxDeletes
    BY DEF SiteTypeOK, RemovalSet
<1> QED BY <1>1 DEF SiteTypeOK, RemovalSet

\* A step of a writer, or another that rewrites rows.
LEMMA WritersTyped ==
    ASSUME SiteTypeOK, UNCHANGED <<sites, tombstones, create, removal, deleted>>,
           writer' \in [Writers -> WriterRow],
           \A w \in Writers : writer'[w].at \in {"read", "written"} => writer'[w].id \in Ids
    PROVE  SiteTypeOK'
BY DEF SiteTypeOK

\* The statement of a delete that takes rows.
LEMMA TakeTyped ==
    ASSUME SiteTypeOK, NEW d \in Deletes, NEW R \in SUBSET Writers, Deleting(d),
           NEW next \in {"touchpoints", "segments", "campaigns", "commit"}, Take(d, R, next)
    PROVE  SiteTypeOK'
<1> DEFINE r == [removal[d] EXCEPT !.at = next, !.taken = removal[d].taken \union R]
<1>1. r \in RemovalSet /\ r.life < MaxDeletes
    BY RemovalTyped DEF RemovalSet
<1>2. removal' = [removal EXCEPT ![d] = r]
    BY DEF Take
<1>3. UNCHANGED <<sites, tombstones, create, writer, deleted>>
    BY DEF Take
<1> HIDE DEF r
<1> QED BY <1>1, <1>2, <1>3, RemovalsTyped

LEMMA CommitTyped ==
    ASSUME SiteTypeOK, NEW d \in Deletes, CommitDelete(d)
    PROVE  SiteTypeOK'
<1> DEFINE s == removal[d].site
           current == removal[d].life = deleted[s.id]
<1>1. /\ s \in Site /\ s.id \in Ids /\ removal[d].life \in Nat /\ deleted[s.id] \in Nat
      /\ removal[d].life < MaxDeletes /\ removal[d].at = "commit"
    BY RemovalTyped DEF CommitDelete, Deleting
<1>2. tombstones' \subseteq Site /\ sites' \subseteq Site /\ create' = create
    BY <1>1 DEF CommitDelete, SiteTypeOK
<1>3. deleted' \in [Ids -> 0..MaxDeletes]
    <2>1. CASE current
        <3>1. deleted' = [deleted EXCEPT ![s.id] = @ + 1]
            BY <2>1 DEF CommitDelete
        <3>2. deleted[s.id] + 1 \in 0..MaxDeletes
            BY <1>1, <2>1, SiteAssumption
        <3> QED BY <1>1, <3>1, <3>2 DEF SiteTypeOK
    <2>2. CASE ~current
        BY <2>2 DEF CommitDelete, SiteTypeOK
    <2> QED BY <2>1, <2>2
<1>4. /\ writer' \in [Writers -> WriterRow]
      /\ \A w \in Writers : writer'[w].at \in {"read", "written"} => writer'[w].id \in Ids
    <2>1. writer' = [w \in Writers |-> IF w \in removal[d].taken THEN NoWrite("over") ELSE writer[w]]
        BY DEF CommitDelete
    <2>2. NoWrite("over").at = "over"
        BY DEF NoWrite
    <2> QED BY <2>1, <2>2, BlanksTyped DEF SiteTypeOK
<1>5. /\ removal' \in [Deletes -> RemovalSet]
      /\ \A e \in Deletes : removal'[e].at # "off" => removal'[e].life < MaxDeletes
    <2>1. removal' = [removal EXCEPT ![d] = NoDelete]
        BY DEF CommitDelete
    <2> QED BY <2>1, BlanksTyped DEF SiteTypeOK, RemovalSet
<1> QED BY <1>2, <1>3, <1>4, <1>5 DEF SiteTypeOK, RemovalSet

\* The row a writer writes, or nothing when the parent is gone.
LEMMA WriteTyped ==
    ASSUME SiteTypeOK, NEW w \in Writers, WriteRow(w)
    PROVE  SiteTypeOK'
<1> DEFINE mine == IF writer[w].parent = NoParent \/ writer[writer[w].parent].at = "written"
                  THEN [writer[w] EXCEPT !.at = "written", !.late = Late(writer[w])]
                  ELSE NoWrite("over")
<1>1. writer' = [writer EXCEPT ![w] = mine]
    BY DEF WriteRow, SiteTypeOK
<1>2. Late(writer[w]) \in BOOLEAN
    BY DEF Late
<1>3. mine \in WriterRow
    BY <1>2, RowTyped, BlanksTyped DEF WriterRow
<1>4. mine.at \in {"read", "written"} => mine.id \in Ids
    BY RowTyped DEF NoWrite, WriteRow
<1> HIDE DEF mine
<1>5. /\ writer' \in [Writers -> WriterRow]
      /\ \A v \in Writers : writer'[v].at \in {"read", "written"} => writer'[v].id \in Ids
    BY <1>1, <1>3, <1>4 DEF SiteTypeOK
<1> QED BY <1>5, WritersTyped DEF WriteRow

LEMMA ReadTyped ==
    ASSUME SiteTypeOK, NEW w \in Writers, NEW i \in Ids, NEW table \in Tables,
           ReadSite(w, i, table)
    PROVE  SiteTypeOK'
<1>1. PICK parent \in Parents(i, table) :
          writer' = [writer EXCEPT ![w] = [at |-> "read", table |-> table, id |-> i,
                                           life |-> deleted[i], parent |-> parent, late |-> FALSE]]
    BY DEF ReadSite
<1>2. parent \in Writers \union {NoParent}
    BY DEF Parents, Rows
<1> DEFINE mine == [at |-> "read", table |-> table, id |-> i, life |-> deleted[i],
                   parent |-> parent, late |-> FALSE]
<1>3. mine \in WriterRow /\ mine.id \in Ids
    BY <1>2 DEF WriterRow, SiteTypeOK
<1> HIDE DEF mine
<1>4. writer' = [writer EXCEPT ![w] = mine]
    BY <1>1 DEF mine
<1>5. /\ writer' \in [Writers -> WriterRow]
      /\ \A v \in Writers : writer'[v].at \in {"read", "written"} => writer'[v].id \in Ids
    BY <1>3, <1>4 DEF SiteTypeOK
<1> QED BY <1>5, WritersTyped DEF ReadSite

LEMMA SegmentTyped ==
    ASSUME SiteTypeOK, NEW w \in Writers, DeleteSegment(w)
    PROVE  SiteTypeOK'
<1> DEFINE linked == {v \in Writers : writer[v].at = "written" /\ writer[v].parent = w}
           mine(v) == IF v = w THEN NoWrite("over")
                     ELSE IF v \in linked THEN [writer[v] EXCEPT !.parent = NoParent]
                     ELSE writer[v]
<1>1. writer' = [v \in Writers |-> mine(v)]
    BY DEF DeleteSegment
<1>2. \A v \in Writers : mine(v) \in WriterRow
    BY RowTyped, BlanksTyped DEF WriterRow
<1>3. \A v \in Writers : mine(v).at \in {"read", "written"} => mine(v).id \in Ids
    <2>1. NoWrite("over").at = "over"
        BY DEF NoWrite
    <2> QED BY <2>1, RowTyped DEF WriterRow
<1> HIDE DEF mine
<1> QED BY <1>1, <1>2, <1>3, WritersTyped DEF DeleteSegment

LEMMA SitesStayTyped == SiteTypeOK /\ [SiteNext]_siteVars => SiteTypeOK'
<1> SUFFICES ASSUME SiteTypeOK, [SiteNext]_siteVars PROVE SiteTypeOK'
    OBVIOUS
<1>1. ASSUME NEW c \in Creates, NEW o \in Owners, NEW u \in Urls, CheckCreate(c, o, u)
      PROVE  SiteTypeOK'
    BY <1>1 DEF CheckCreate, SiteTypeOK
<1>2. ASSUME NEW c \in Creates, PickTombstone(c) PROVE SiteTypeOK'
    <2> DEFINE T == Reclaimable(create[c].owner, create[c].url)
    <2>1. PICK i \in IF T = {} THEN {NewId} ELSE {t.id : t \in T} :
              create' = [create EXCEPT ![c] = [@ EXCEPT !.at = "picked", !.id = i]]
        BY <1>2 DEF PickTombstone
    <2>2. i \in Ids \union {NewId}
        BY SitesTyped DEF Reclaimable
    <2>3. [create[c] EXCEPT !.at = "picked", !.id = i] \in CreateSet
        <3>1. create[c] \in CreateSet
            BY DEF SiteTypeOK, CreateSet
        <3> QED BY <2>2, <3>1 DEF CreateSet
    <2>4. create' \in [Creates -> CreateSet]
        BY <2>1, <2>3 DEF SiteTypeOK, CreateSet
    <2>5. UNCHANGED <<sites, tombstones, removal, writer, deleted>>
        BY <1>2 DEF PickTombstone
    <2> QED BY <2>4, <2>5, CreatesTyped DEF SiteTypeOK
<1>3. ASSUME NEW c \in Creates, InsertReclaimed(c) PROVE SiteTypeOK'
    <2>1. create[c].id \in Ids /\ Add(c, create[c].id)
        BY <1>3 DEF InsertReclaimed, SiteTypeOK
    <2>2. UNCHANGED <<removal, writer, deleted>> /\ tombstones' \subseteq tombstones
        BY <1>3 DEF InsertReclaimed
    <2> QED BY <2>1, <2>2, AddTyped, CreatesTyped
<1>4. ASSUME NEW c \in Creates, InsertFresh(c) PROVE SiteTypeOK'
    <2>1. PICK i \in Ids : Add(c, i)
        BY <1>4 DEF InsertFresh, Unissued
    <2>2. UNCHANGED <<tombstones, removal, writer, deleted>>
        BY <1>4 DEF InsertFresh
    <2> QED BY <2>1, <2>2, AddTyped, CreatesTyped
<1>5. ASSUME NEW c \in Creates, InsertCollides(c) \/ Forget(c) PROVE SiteTypeOK'
    <2>1. create' = [create EXCEPT ![c].at = "refused"] \/ create' = [create EXCEPT ![c].at = "idle"]
        BY <1>5 DEF InsertCollides, Forget
    <2>2. create' \in [Creates -> CreateSet]
        BY <2>1 DEF SiteTypeOK, CreateSet
    <2> QED BY <1>5, <2>2, CreatesTyped DEF InsertCollides, Forget, SiteTypeOK
<1>6. ASSUME NEW d \in Deletes, NEW s \in sites, BeginDelete(d, s) PROVE SiteTypeOK'
    <2> DEFINE r == [at |-> "touchpoints", site |-> s, life |-> deleted[s.id], taken |-> {}]
    <2>1. deleted[s.id] \in 0..MaxDeletes /\ s \in Site /\ deleted[s.id] < MaxDeletes
        BY <1>6, SitesTyped DEF BeginDelete
    <2>2. r \in RemovalSet /\ r.life < MaxDeletes
        BY <2>1 DEF RemovalSet
    <2>3. removal' = [removal EXCEPT ![d] = r]
        BY <1>6 DEF BeginDelete
    <2> HIDE DEF r
    <2> QED BY <1>6, <2>2, <2>3, RemovalsTyped DEF BeginDelete
<1>7. ASSUME NEW d \in Deletes, DeleteTouchpoints(d) \/ DeleteSegments(d) \/ DeleteCampaigns(d)
      PROVE  SiteTypeOK'
    <2>1. \E R \in SUBSET Writers, next \in {"touchpoints", "segments", "campaigns", "commit"} :
              Deleting(d) /\ Take(d, R, next)
        <3>1. CASE DeleteTouchpoints(d)
            BY <3>1 DEF DeleteTouchpoints, Deleting, Rows
        <3>2. CASE DeleteSegments(d)
            BY <3>2 DEF DeleteSegments, Deleting, Rows
        <3>3. CASE DeleteCampaigns(d)
            <4> DEFINE campaigns == Rows("campaigns", removal[d].site.id)
                       R == campaigns \union
                            {w \in Writers : /\ writer[w].at = "written" /\ writer[w].table = "touchpoints"
                                             /\ writer[w].parent \in campaigns}
            <4>1. R \in SUBSET Writers
                BY DEF Rows
            <4>2. Deleting(d) /\ Take(d, R, "commit")
                BY <3>3 DEF DeleteCampaigns, Deleting
            <4> QED BY <4>1, <4>2
        <3> QED BY <1>7, <3>1, <3>2, <3>3
    <2> QED BY <2>1, TakeTyped
<1>8. ASSUME NEW d \in Deletes, CommitDelete(d) PROVE SiteTypeOK'
    BY <1>8, CommitTyped
<1>9. ASSUME NEW d \in Deletes, RollbackDelete(d) PROVE SiteTypeOK'
    BY <1>9, BlanksTyped, RemovalsTyped DEF RollbackDelete
<1>10. ASSUME NEW t \in tombstones, TombstoneExpires(t) PROVE SiteTypeOK'
    BY <1>10 DEF TombstoneExpires, SiteTypeOK
<1>11. ASSUME NEW w \in Writers, WriteRow(w) \/ DeleteSegment(w) PROVE SiteTypeOK'
    BY <1>11, WriteTyped, SegmentTyped
<1>12. ASSUME NEW w \in Writers, NEW i \in Ids, NEW table \in Tables, ReadSite(w, i, table)
      PROVE  SiteTypeOK'
    BY <1>12, ReadTyped
<1>13. CASE UNCHANGED siteVars
    BY <1>13 DEF siteVars, SiteTypeOK
<1> QED BY <1>1, <1>2, <1>3, <1>4, <1>5, <1>6, <1>7, <1>8, <1>9, <1>10, <1>11, <1>12, <1>13
        DEF SiteNext

-----------------------------------------------------------------------------
(* IdKeepsOwner *)

LEMMA OwnerInitially == SiteInit => OwnerInv
<1> SUFFICES ASSUME SiteInit PROVE OwnerInv
    OBVIOUS
<1>1. (\A c \in Creates : ~Reclaims(c)) /\ (\A d \in Deletes : ~Deleting(d))
    BY BlanksTyped DEF SiteInit, Reclaims, Deleting
<1>2. InHand = {}
    BY <1>1 DEF InHand, SiteInit
<1> QED BY <1>1, <1>2, SitesInitTyped DEF OwnerInv, LivesKnown

LEMMA HandsTyped ==
    ASSUME OwnerInv, NEW s \in InHand
    PROVE  s \in Site /\ s.id \in Ids /\ deleted[s.id] \in Nat
<1>1. \A c \in Creates : Reclaims(c) => Meant(c) \in Site
    BY DEF OwnerInv, SiteTypeOK, Reclaims, Meant, Site
<1>2. \A d \in Deletes : removal[d].site \in Site
    BY RemovalTyped DEF OwnerInv
<1>3. s \in Site
    BY <1>1, <1>2 DEF InHand, OwnerInv, SiteTypeOK
<1> QED BY <1>3, SiteAssumption DEF Site, OwnerInv, SiteTypeOK

\* A step that puts no other site into anyone's hands.
LEMMA StillAgree ==
    ASSUME OwnerInv, SiteTypeOK', InHand' \subseteq InHand, LivesKnown',
           \A j \in Ids : deleted[j] > 0 => deleted'[j] > 0,
           \A s \in sites \ sites' : deleted'[s.id] > 0
    PROVE  OwnerInv'
<1>1. \A s, t \in InHand' : Agree(s, t)
    BY DEF OwnerInv
<1>2. \A s \in InHand' : s \in sites' \/ deleted'[s.id] > 0
    BY HandsTyped DEF OwnerInv
<1>3. (\A s, t \in InHand : Agree(s, t))'
    BY <1>1 DEF Agree
<1> QED BY <1>2, <1>3 DEF OwnerInv

\* What is in hand after a step of one create request.
LEMMA HandsAfterCreate ==
    ASSUME OwnerInv, NEW c \in Creates, \A b \in Creates \ {c} : create'[b] = create[b],
           Reclaims(c)' => Meant(c)' \in InHand,
           sites' \subseteq InHand, tombstones' \subseteq InHand, UNCHANGED removal
    PROVE  InHand' \subseteq InHand
<1>1. \A b \in Creates : Reclaims(b)' => Meant(b)' \in InHand
    BY DEF Reclaims, Meant, InHand
<1>2. \A d \in Deletes : Deleting(d)' => removal'[d].site \in InHand
    BY DEF Deleting, InHand
<1>3. InHand' = sites' \union tombstones' \union {Meant(b)' : b \in {b \in Creates : Reclaims(b)'}}
              \union {removal'[d].site : d \in {e \in Deletes : Deleting(e)'}}
    BY DEF InHand
<1> QED BY <1>1, <1>2, <1>3

\* What is in hand after a step of one delete.
LEMMA HandsAfterDelete ==
    ASSUME OwnerInv, NEW d \in Deletes, \A e \in Deletes \ {d} : removal'[e] = removal[e],
           Deleting(d)' => removal'[d].site \in InHand,
           sites' \subseteq sites, tombstones' \subseteq InHand, UNCHANGED create
    PROVE  InHand' \subseteq InHand
<1>1. \A b \in Creates : Reclaims(b)' => Meant(b)' \in InHand
    BY DEF Reclaims, Meant, InHand
<1>2. \A e \in Deletes : Deleting(e)' => removal'[e].site \in InHand
    BY DEF Deleting, InHand
<1>3. sites' \subseteq InHand
    BY DEF InHand
<1>4. InHand' = sites' \union tombstones' \union {Meant(b)' : b \in {b \in Creates : Reclaims(b)'}}
              \union {removal'[e].site : e \in {e \in Deletes : Deleting(e)'}}
    BY DEF InHand
<1> QED BY <1>1, <1>2, <1>3, <1>4

\* A site with a fresh id is nobody else's.
LEMMA FreshAgrees ==
    ASSUME OwnerInv, SiteTypeOK', NEW c \in Creates, InsertFresh(c)
    PROVE  OwnerInv'
<1>1. PICK i \in Unissued : Add(c, i)
    BY DEF InsertFresh
<1> DEFINE mine == [id |-> i, url |-> create[c].url, owner |-> create[c].owner]
<1>2. i \in Ids /\ deleted[i] = 0 /\ \A s \in sites : s.id # i
    BY DEF Unissued, InUse
<1>3. /\ sites' = sites \union {mine} /\ create' = [create EXCEPT ![c].at = "idle"]
      /\ UNCHANGED <<tombstones, removal, deleted>>
    BY <1>1, <1>2, AddTyped DEF OwnerInv, InsertFresh
<1>4. \A s \in InHand : s.id # i
    BY <1>2, HandsTyped DEF OwnerInv
<1>5. mine.id = i
    OBVIOUS
<1> HIDE DEF mine
<1>6. InHand' \subseteq InHand \union {mine}
    <2>1. \A b \in Creates : Reclaims(b)' => Reclaims(b) /\ Meant(b)' = Meant(b)
        BY <1>3 DEF Reclaims, Meant, OwnerInv, SiteTypeOK
    <2>2. \A d \in Deletes : Deleting(d)' <=> Deleting(d)
        BY <1>3 DEF Deleting
    <2>3. InHand' = sites' \union tombstones' \union {Meant(b)' : b \in {b \in Creates : Reclaims(b)'}}
              \union {removal'[e].site : e \in {e \in Deletes : Deleting(e)'}}
        BY DEF InHand
    <2> QED BY <1>3, <2>1, <2>2, <2>3 DEF InHand
<1>7. (\A s, t \in InHand : Agree(s, t))'
    BY <1>4, <1>5, <1>6 DEF OwnerInv, Agree
<1>8. (\A s \in InHand : s \in sites \/ deleted[s.id] > 0)'
    BY <1>3, <1>6 DEF OwnerInv
<1>9. LivesKnown'
    BY <1>3 DEF OwnerInv, LivesKnown, Deleting
<1> QED BY <1>7, <1>8, <1>9 DEF OwnerInv

\* The site read off a tombstone is one in hand.
LEMMA PickAgrees ==
    ASSUME OwnerInv, SiteTypeOK', NEW c \in Creates, PickTombstone(c)
    PROVE  OwnerInv'
<1> DEFINE T == Reclaimable(create[c].owner, create[c].url)
<1>1. PICK i \in IF T = {} THEN {NewId} ELSE {t.id : t \in T} :
          create' = [create EXCEPT ![c] = [create[c] EXCEPT !.at = "picked", !.id = i]]
    BY DEF PickTombstone
<1>2. UNCHANGED <<sites, tombstones, removal, deleted>>
    BY DEF PickTombstone
<1>3. /\ \A b \in Creates \ {c} : create'[b] = create[b]
      /\ create'[c].id = i /\ create'[c].owner = create[c].owner /\ create'[c].url = create[c].url
    BY <1>1 DEF OwnerInv, SiteTypeOK
<1>4. ASSUME Reclaims(c)' PROVE Meant(c)' \in InHand
    <2>1. T # {}
        BY <1>1, <1>3, <1>4 DEF Reclaims
    <2>2. PICK t \in tombstones : t.id = i /\ t.owner = create[c].owner /\ t.url = create[c].url
        BY <1>1, <2>1 DEF Reclaimable
    <2>3. t \in [id : Ids, url : Urls, owner : Owners]
        BY <2>2, SitesTyped DEF OwnerInv, Site
    <2>4. Meant(c)' = [id |-> t.id, url |-> t.url, owner |-> t.owner]
        BY <1>3, <2>2 DEF Meant
    <2>5. Meant(c)' = t
        BY <2>3, <2>4
    <2> QED BY <2>5 DEF InHand
<1>5. InHand' \subseteq InHand
    <2>1. sites' \subseteq InHand /\ tombstones' \subseteq InHand
        BY <1>2 DEF InHand
    <2> QED BY <1>2, <1>3, <1>4, <2>1, HandsAfterCreate
<1>6. LivesKnown'
    BY <1>2 DEF OwnerInv, LivesKnown, Deleting
<1> QED BY <1>2, <1>5, <1>6, StillAgree

\* The other steps of a create request: nothing new in hand.
LEMMA CreatesAgree ==
    ASSUME OwnerInv, SiteTypeOK', NEW c \in Creates,
           \/ \E o \in Owners, u \in Urls : CheckCreate(c, o, u)
           \/ InsertReclaimed(c) \/ InsertCollides(c) \/ Forget(c)
    PROVE  OwnerInv'
<1>1. /\ \A b \in Creates \ {c} : create'[b] = create[b]
      /\ ~Reclaims(c)'
    BY DEF CheckCreate, InsertReclaimed, Add, InsertCollides, Forget, Reclaims, OwnerInv, SiteTypeOK
<1>2. UNCHANGED <<removal, deleted>> /\ sites \subseteq sites' /\ tombstones' \subseteq tombstones
    BY DEF CheckCreate, InsertReclaimed, Add, InsertCollides, Forget
<1>3. sites' \subseteq InHand
    <2>1. CASE InsertReclaimed(c)
        <3>1. sites' = sites \union {Meant(c)} /\ Reclaims(c)
            BY <2>1 DEF InsertReclaimed, Add, Meant, Reclaims
        <3> QED BY <3>1 DEF InHand
    <2>2. CASE ~InsertReclaimed(c)
        BY <2>2 DEF CheckCreate, InsertCollides, Forget, InHand
    <2> QED BY <2>1, <2>2
<1>4. tombstones' \subseteq InHand
    BY <1>2 DEF InHand
<1>5. InHand' \subseteq InHand
    BY <1>1, <1>2, <1>3, <1>4, HandsAfterCreate
<1>6. LivesKnown'
    BY <1>2 DEF OwnerInv, LivesKnown, Deleting
<1> QED BY <1>2, <1>5, <1>6, StillAgree

\* A delete in progress keeps the site it read.
LEMMA RemovalsAgree ==
    ASSUME OwnerInv, SiteTypeOK', NEW d \in Deletes,
           \/ \E s \in sites : BeginDelete(d, s)
           \/ DeleteTouchpoints(d) \/ DeleteSegments(d) \/ DeleteCampaigns(d)
           \/ RollbackDelete(d)
    PROVE  OwnerInv'
<1>1. UNCHANGED <<sites, tombstones, create, deleted>>
    BY DEF BeginDelete, DeleteTouchpoints, DeleteSegments, DeleteCampaigns, Take, RollbackDelete
<1>2. /\ \A e \in Deletes \ {d} : removal'[e] = removal[e]
      /\ Deleting(d)' => /\ removal'[d].site \in InHand
                         /\ removal'[d].life <= deleted[removal'[d].site.id]
    <2>1. CASE \E s \in sites : BeginDelete(d, s)
        <3>1. PICK s \in sites : BeginDelete(d, s)
            BY <2>1
        <3>2. removal' = [removal EXCEPT ![d] = [at |-> "touchpoints", site |-> s,
                                                 life |-> deleted[s.id], taken |-> {}]]
            BY <3>1 DEF BeginDelete
        <3>3. deleted[s.id] \in Nat
            BY SitesTyped, SiteAssumption DEF OwnerInv
        <3> QED BY <3>2, <3>3 DEF InHand, OwnerInv, SiteTypeOK
    <2>2. ASSUME NEW R, NEW next, Deleting(d), Take(d, R, next)
          PROVE  /\ \A e \in Deletes \ {d} : removal'[e] = removal[e]
                 /\ removal'[d].site \in InHand
                 /\ removal'[d].life <= deleted[removal'[d].site.id]
        <3>1. /\ \A e \in Deletes \ {d} : removal'[e] = removal[e]
              /\ removal'[d].site = removal[d].site /\ removal'[d].life = removal[d].life
            BY <2>2 DEF Take, OwnerInv, SiteTypeOK
        <3> QED BY <2>2, <3>1 DEF InHand, OwnerInv, LivesKnown
    <2>3. CASE DeleteTouchpoints(d) \/ DeleteSegments(d) \/ DeleteCampaigns(d)
        BY <2>2, <2>3 DEF DeleteTouchpoints, DeleteSegments, DeleteCampaigns, Deleting
    <2>4. CASE RollbackDelete(d)
        BY <2>4, BlanksTyped DEF RollbackDelete, Deleting, OwnerInv, SiteTypeOK
    <2> QED BY <2>1, <2>3, <2>4
<1>3. InHand' \subseteq InHand
    <2>1. tombstones' \subseteq InHand /\ sites' \subseteq sites
        BY <1>1 DEF InHand
    <2> QED BY <1>1, <1>2, <2>1, HandsAfterDelete
<1>4. LivesKnown'
    BY <1>1, <1>2 DEF OwnerInv, LivesKnown, Deleting
<1> QED BY <1>1, <1>3, <1>4, StillAgree

LEMMA CommitAgrees ==
    ASSUME OwnerInv, SiteTypeOK', NEW d \in Deletes, CommitDelete(d)
    PROVE  OwnerInv'
<1> DEFINE s == removal[d].site
           current == removal[d].life = deleted[s.id]
<1>1. /\ tombstones' = tombstones \union {s} /\ create' = create
      /\ \A e \in Deletes \ {d} : removal'[e] = removal[e]
      /\ ~Deleting(d)'
    BY BlanksTyped DEF CommitDelete, Deleting, OwnerInv, SiteTypeOK
<1>2. s \in InHand /\ Deleting(d)
    BY DEF CommitDelete, Deleting, InHand
<1>3. /\ sites' \subseteq sites
      /\ \A t \in sites \ sites' : t = s /\ current
    BY DEF CommitDelete
<1>4. s.id \in Ids /\ \A j \in Ids : deleted[j] \in Nat
    BY RemovalTyped, SiteAssumption DEF OwnerInv, SiteTypeOK
<1>5. \A j \in Ids : /\ deleted'[j] >= deleted[j] /\ deleted'[j] \in Nat
                     /\ j = s.id /\ current => deleted'[j] > 0
    <2>1. CASE current
        <3>1. deleted' = [deleted EXCEPT ![s.id] = @ + 1]
            BY <2>1 DEF CommitDelete
        <3> QED BY <1>4, <3>1 DEF OwnerInv, SiteTypeOK
    <2>2. CASE ~current
        BY <1>4, <2>2 DEF CommitDelete
    <2> QED BY <2>1, <2>2
<1>6. InHand' \subseteq InHand
    <2>1. tombstones' \subseteq InHand
        BY <1>1, <1>2 DEF InHand
    <2> QED BY <1>1, <1>3, <2>1, HandsAfterDelete
<1>7. LivesKnown'
    <2> SUFFICES ASSUME NEW e \in Deletes, Deleting(e)'
                 PROVE  removal'[e].life <= deleted'[removal'[e].site.id]
        BY DEF LivesKnown
    <2>1. e # d /\ removal'[e] = removal[e] /\ Deleting(e)
        BY <1>1 DEF Deleting
    <2>2. /\ removal[e].site.id \in Ids /\ removal[e].life \in Nat
          /\ removal[e].life <= deleted[removal[e].site.id]
        BY <2>1, RemovalTyped DEF OwnerInv, LivesKnown
    <2> DEFINE j == removal[e].site.id
    <2>3. deleted'[j] >= deleted[j] /\ deleted'[j] \in Nat /\ deleted[j] \in Nat
        BY <1>4, <1>5, <2>2
    <2> QED BY <2>1, <2>2, <2>3
<1>8. \A j \in Ids : deleted[j] > 0 => deleted'[j] > 0
    BY <1>4, <1>5
<1>9. \A t \in sites \ sites' : deleted'[t.id] > 0
    BY <1>3, <1>4, <1>5
<1> QED BY <1>6, <1>7, <1>8, <1>9, StillAgree

LEMMA OwnerPreserved == OwnerInv /\ [SiteNext]_siteVars => OwnerInv'
<1> SUFFICES ASSUME OwnerInv, [SiteNext]_siteVars PROVE OwnerInv'
    OBVIOUS
<1> SiteTypeOK'
    BY SitesStayTyped DEF OwnerInv
<1>1. ASSUME NEW c \in Creates,
             \/ \E o \in Owners, u \in Urls : CheckCreate(c, o, u)
             \/ InsertReclaimed(c) \/ InsertCollides(c) \/ Forget(c)
      PROVE  OwnerInv'
    BY <1>1, CreatesAgree
<1>2. ASSUME NEW c \in Creates, PickTombstone(c) PROVE OwnerInv'
    BY <1>2, PickAgrees
<1>3. ASSUME NEW c \in Creates, InsertFresh(c) PROVE OwnerInv'
    BY <1>3, FreshAgrees
<1>4. ASSUME NEW d \in Deletes,
             \/ \E s \in sites : BeginDelete(d, s)
             \/ DeleteTouchpoints(d) \/ DeleteSegments(d) \/ DeleteCampaigns(d)
             \/ RollbackDelete(d)
      PROVE  OwnerInv'
    BY <1>4, RemovalsAgree
<1>5. ASSUME NEW d \in Deletes, CommitDelete(d) PROVE OwnerInv'
    BY <1>5, CommitAgrees
<1>6. ASSUME UNCHANGED <<sites, create, removal, deleted>>, tombstones' \subseteq tombstones
      PROVE  OwnerInv'
    <2>1. InHand' \subseteq InHand /\ LivesKnown'
        BY <1>6 DEF InHand, Meant, Reclaims, Deleting, LivesKnown, OwnerInv
    <2> QED BY <1>6, <2>1, StillAgree
<1>7. ASSUME NEW t \in tombstones, TombstoneExpires(t) PROVE OwnerInv'
    BY <1>6, <1>7 DEF TombstoneExpires
<1>8. ASSUME NEW w \in Writers, WriteRow(w) \/ DeleteSegment(w) PROVE OwnerInv'
    BY <1>6, <1>8 DEF WriteRow, DeleteSegment
<1>9. ASSUME NEW w \in Writers, NEW i \in Ids, NEW table \in Tables, ReadSite(w, i, table)
      PROVE  OwnerInv'
    BY <1>6, <1>9 DEF ReadSite
<1>10. CASE UNCHANGED siteVars
    BY <1>6, <1>10 DEF siteVars
<1> QED BY <1>1, <1>2, <1>3, <1>4, <1>5, <1>7, <1>8, <1>9, <1>10 DEF SiteNext

\* A site id, live or reclaimable, stays with its owner and URL (create_site).
THEOREM OwnersKept == SiteSpec => []IdKeepsOwner
<1>1. OwnerInv => IdKeepsOwner
    BY DEF OwnerInv, IdKeepsOwner, InHand, Agree
<1> QED BY OwnerInitially, OwnerPreserved, <1>1, PTL DEF SiteSpec

-----------------------------------------------------------------------------
(* CleanReuse *)

LEMMA ReuseInitially == SiteInit => ReuseInv
<1> SUFFICES ASSUME SiteInit PROVE ReuseInv
    OBVIOUS
<1>1. \A w \in Writers : writer[w].at = "idle"
    BY DEF SiteInit, NoWrite
<1>2. \A d \in Deletes : removal[d].taken = {} /\ removal[d].at = "off"
    BY DEF SiteInit, NoDelete
<1> QED BY <1>1, <1>2, SitesInitTyped
        DEF ReuseInv, CleanReuse, Stands, TakenOrLate, HasCampaign, CascadeTaken, TakenOfSite

\* A step of a delete before its end takes every row its statement finds.
LEMMA StatementKeeps ==
    ASSUME ReuseInv, SiteTypeOK', NEW d \in Deletes, UNCHANGED <<writer, deleted>>,
           \A e \in Deletes \ {d} : removal'[e] = removal[e],
           \A w \in Writers : Stands(w) /\ Passed(d, w)' => w \in removal'[d].taken \/ writer[w].late,
           \A w \in Writers : Stands(w) /\ writer[w].table = "touchpoints" /\ removal'[d].at = "commit"
                              /\ writer[w].parent \in removal'[d].taken => w \in removal'[d].taken,
           \A w \in removal'[d].taken :
               writer[w].at = "over" \/ (Stands(w) /\ writer[w].id = removal'[d].site.id)
    PROVE  ReuseInv'
<1>1. CleanReuse' /\ HasCampaign'
    BY DEF ReuseInv, CleanReuse, HasCampaign, Under, Bereft, Stands, Campaign
<1>2. TakenOrLate'
    <2> SUFFICES ASSUME NEW e \in Deletes, NEW w \in Writers, Stands(w)', Passed(e, w)'
                 PROVE  w \in removal'[e].taken \/ writer'[w].late
        BY DEF TakenOrLate
    <2>1. CASE e = d
        BY <2>1 DEF Stands
    <2>2. CASE e # d
        BY <2>2 DEF ReuseInv, TakenOrLate, Stands, Passed, Through
    <2> QED BY <2>1, <2>2
<1>3. CascadeTaken'
    BY DEF ReuseInv, CascadeTaken, Stands
<1>4. TakenOfSite'
    BY DEF ReuseInv, TakenOfSite, Stands
<1> QED BY <1>1, <1>2, <1>3, <1>4 DEF ReuseInv

LEMMA StatementsPreserve ==
    ASSUME ReuseInv, SiteTypeOK', NEW d \in Deletes,
           \/ \E s \in sites : BeginDelete(d, s)
           \/ DeleteTouchpoints(d) \/ DeleteSegments(d) \/ DeleteCampaigns(d)
           \/ RollbackDelete(d)
    PROVE  ReuseInv'
<1> DEFINE i == removal[d].site.id
<1>1. UNCHANGED <<writer, deleted>>
    BY DEF BeginDelete, DeleteTouchpoints, DeleteSegments, DeleteCampaigns, Take, RollbackDelete
<1>2. CASE (\E s \in sites : BeginDelete(d, s)) \/ RollbackDelete(d)
    <2>1. /\ \A e \in Deletes \ {d} : removal'[e] = removal[e]
          /\ removal'[d].taken = {} /\ removal'[d].at \in {"off", "touchpoints"}
        BY <1>2 DEF BeginDelete, RollbackDelete, NoDelete, ReuseInv, SiteTypeOK
    <2>2. \A w \in Writers : ~Passed(d, w)'
        BY <2>1 DEF Passed, Through
    <2> QED BY <1>1, <2>1, <2>2, StatementKeeps
<1>3. ASSUME NEW R \in SUBSET Writers, NEW next, Take(d, R, next),
             \A w \in R : Stands(w) /\ writer[w].id = i
      PROVE  /\ \A e \in Deletes \ {d} : removal'[e] = removal[e]
             /\ removal'[d].taken = removal[d].taken \union R /\ removal'[d].at = next
             /\ removal'[d].site = removal[d].site /\ removal'[d].life = removal[d].life
             /\ \A w \in removal'[d].taken :
                   writer[w].at = "over" \/ (Stands(w) /\ writer[w].id = removal'[d].site.id)
    <2>1. /\ \A e \in Deletes \ {d} : removal'[e] = removal[e]
          /\ removal'[d].taken = removal[d].taken \union R /\ removal'[d].at = next
          /\ removal'[d].site = removal[d].site /\ removal'[d].life = removal[d].life
        BY <1>3 DEF Take, ReuseInv, SiteTypeOK
    <2> QED BY <1>3, <2>1 DEF ReuseInv, TakenOfSite
<1>4. CASE DeleteTouchpoints(d)
    <2> DEFINE R == {w \in Rows("touchpoints", i) : writer[w].parent \in Rows("campaigns", i)}
    <2>1. R \in SUBSET Writers /\ Take(d, R, "segments") /\ \A w \in R : Stands(w) /\ writer[w].id = i
        BY <1>4 DEF DeleteTouchpoints, Rows, Stands
    <2> HIDE DEF R
    <2>2. removal'[d].at = "segments"
        BY <1>3, <2>1
    <2>3. \A w \in Writers : ~Passed(d, w)'
        BY <2>2 DEF Passed, Through
    <2> QED BY <1>1, <1>3, <2>1, <2>2, <2>3, StatementKeeps
<1>5. CASE DeleteSegments(d)
    <2> DEFINE R == Rows("segments", i)
    <2>1. R \in SUBSET Writers /\ Take(d, R, "campaigns") /\ \A w \in R : Stands(w) /\ writer[w].id = i
        BY <1>5 DEF DeleteSegments, Rows, Stands
    <2>2. removal'[d].at = "campaigns" /\ removal'[d].taken = removal[d].taken \union R
          /\ removal'[d].site = removal[d].site
        BY <1>3, <2>1
    <2>3. ASSUME NEW w \in Writers, Stands(w), Passed(d, w)'
          PROVE  w \in removal'[d].taken
        <3>1. writer[w].table = "segments" /\ writer[w].id = i
            BY <1>1, <2>2, <2>3 DEF Passed, Through
        <3> QED BY <2>2, <2>3, <3>1 DEF Rows, Stands
    <2> HIDE DEF R
    <2> QED BY <1>1, <1>3, <2>1, <2>2, <2>3, StatementKeeps
<1>6. CASE DeleteCampaigns(d)
    <2> DEFINE campaigns == Rows("campaigns", i)
               R == campaigns \union
                    {w \in Writers : /\ writer[w].at = "written" /\ writer[w].table = "touchpoints"
                                     /\ writer[w].parent \in campaigns}
    <2>1. R \in SUBSET Writers /\ Take(d, R, "commit") /\ removal[d].at = "campaigns"
        BY <1>6 DEF DeleteCampaigns, Rows
    <2>2. \A w \in Writers : Stands(w) /\ writer[w].table = "touchpoints" =>
              /\ writer[w].parent \in Writers
              /\ Campaign(writer[w].parent, writer[w].id)
        BY DEF ReuseInv, HasCampaign, Under
    <2>3. \A k \in Writers : k \in campaigns <=> Campaign(k, i)
        BY DEF Rows, Campaign, Stands
    <2>4. \A w \in Writers : Stands(w) /\ writer[w].table = "touchpoints" /\ writer[w].id = i => w \in R
        BY <2>2, <2>3 DEF Stands
    <2>5. \A w \in R : Stands(w) /\ writer[w].id = i
        <3>1. \A k \in campaigns : Stands(k) /\ writer[k].id = i
            BY DEF Rows, Stands
        <3>2. \A w \in Writers : Stands(w) /\ writer[w].table = "touchpoints"
                                /\ writer[w].parent \in campaigns => writer[w].id = i
            BY <2>2, <3>1 DEF Campaign
        <3> QED BY <3>1, <3>2 DEF Stands
    <2>6. \A w \in Writers : Campaign(w, i) => w \in R
        BY <2>3
    <2> HIDE DEF R
    <2>7. /\ removal'[d].taken = removal[d].taken \union R /\ removal'[d].at = "commit"
          /\ removal'[d].site = removal[d].site /\ removal'[d].life = removal[d].life
        BY <1>3, <2>1, <2>5
    <2>8. ASSUME NEW w \in Writers, Stands(w), Passed(d, w)'
          PROVE  w \in removal'[d].taken \/ writer[w].late
        <3>1. /\ writer[w].table \in {"segments", "campaigns", "touchpoints"}
              /\ writer[w].id = i /\ writer[w].life = removal[d].life
            BY <1>1, <2>7, <2>8 DEF Passed, Through
        <3>2. CASE writer[w].table = "segments"
            <4>1. Passed(d, w)
                BY <2>1, <3>1, <3>2 DEF Passed, Through
            <4> QED BY <2>7, <2>8, <4>1 DEF ReuseInv, TakenOrLate
        <3>3. CASE writer[w].table # "segments"
            BY <2>4, <2>6, <2>7, <2>8, <3>1, <3>3 DEF Campaign
        <3> QED BY <3>2, <3>3
    <2>9. ASSUME NEW w \in Writers, Stands(w), writer[w].table = "touchpoints",
                 writer[w].parent \in removal'[d].taken
          PROVE  w \in removal'[d].taken
        <3>1. writer[w].parent \in Writers /\ Campaign(writer[w].parent, writer[w].id)
            BY <2>2, <2>9
        <3>2. writer[w].id = i
            <4>1. \A k \in removal[d].taken : Stands(k) => writer[k].id = i
                BY DEF ReuseInv, TakenOfSite, Stands
            <4> QED BY <2>5, <2>7, <2>9, <3>1, <4>1 DEF Campaign
        <3> QED BY <2>4, <2>7, <2>9, <3>2
    <2>10. /\ \A e \in Deletes \ {d} : removal'[e] = removal[e]
           /\ \A w \in removal'[d].taken :
                 writer[w].at = "over" \/ (Stands(w) /\ writer[w].id = removal'[d].site.id)
        BY <1>3, <2>1, <2>5
    <2> QED BY <1>1, <2>8, <2>9, <2>10, StatementKeeps
<1> QED BY <1>2, <1>4, <1>5, <1>6

LEMMA CommitPreserves ==
    ASSUME ReuseInv, SiteTypeOK', NEW d \in Deletes, CommitDelete(d)
    PROVE  ReuseInv'
<1> DEFINE s == removal[d].site
           T == removal[d].taken
           current == removal[d].life = deleted[s.id]
<1>1. /\ \A w \in Writers : writer'[w] = IF w \in T THEN NoWrite("over") ELSE writer[w]
      /\ NoWrite("over").at = "over" /\ NoWrite("over").table = "segments"
    BY DEF CommitDelete, NoWrite
<1>2. \A w \in Writers : Stands(w)' => w \notin T /\ Stands(w) /\ writer'[w] = writer[w]
    BY <1>1 DEF Stands
<1>3. /\ \A e \in Deletes \ {d} : removal'[e] = removal[e]
      /\ removal'[d].at = "off" /\ removal'[d].taken = {} /\ removal[d].at = "commit"
    BY DEF CommitDelete, NoDelete, ReuseInv, SiteTypeOK
<1>4. s.id \in Ids /\ \A j \in Ids : deleted[j] \in Nat
    BY RemovalTyped, SiteAssumption DEF ReuseInv, SiteTypeOK
<1>5. /\ \A j \in Ids : deleted'[j] \in Nat /\ deleted'[j] >= deleted[j]
      /\ \A j \in Ids : deleted'[j] = deleted[j]
                         \/ (j = s.id /\ current /\ deleted'[j] = deleted[j] + 1)
    <2>1. CASE current
        <3>1. deleted' = [deleted EXCEPT ![s.id] = @ + 1]
            BY <2>1 DEF CommitDelete
        <3> QED BY <1>4, <2>1, <3>1 DEF ReuseInv, SiteTypeOK
    <2>2. CASE ~current
        BY <1>4, <2>2 DEF CommitDelete
    <2> QED BY <2>1, <2>2
<1>6. CleanReuse'
    <2> SUFFICES ASSUME NEW w \in Writers, Stands(w)', writer'[w].life < deleted'[writer'[w].id]
                 PROVE  writer'[w].table \in LeftOut \/ writer'[w].late
        BY DEF CleanReuse, Stands
    <2>1. w \notin T /\ Stands(w) /\ writer'[w] = writer[w]
        BY <1>2
    <2> DEFINE j == writer[w].id
    <2>2. /\ j \in Ids /\ writer[w].life \in Nat /\ writer[w].life <= deleted[j]
          /\ writer[w].table \in Tables
        BY <2>1, RowTyped DEF Stands, ReuseInv, WriterRow
    <2>3. CASE writer[w].life < deleted[j]
        BY <2>1, <2>3 DEF ReuseInv, CleanReuse, Stands
    <2>4. CASE ~(writer[w].life < deleted[j])
        <3>1. writer[w].life = deleted[j] /\ deleted'[j] # deleted[j]
            BY <1>4, <1>5, <2>1, <2>2, <2>4
        <3>2. j = s.id /\ current
            BY <1>5, <2>2, <3>1
        <3>3. writer[w].table \in LeftOut \/ Passed(d, w)
            BY <1>3, <2>2, <3>1, <3>2 DEF Passed, Through, Tables, LeftOut
        <3> QED BY <2>1, <3>3 DEF ReuseInv, TakenOrLate
    <2> QED BY <2>3, <2>4
<1>7. \A w \in Writers : writer'[w].at \in {"read", "written"} =>
          writer'[w].life <= deleted'[writer'[w].id]
    <2> SUFFICES ASSUME NEW w \in Writers, writer'[w].at \in {"read", "written"}
                 PROVE  writer'[w].life <= deleted'[writer'[w].id]
        OBVIOUS
    <2>1. writer'[w] = writer[w]
        BY <1>1
    <2> DEFINE j == writer[w].id
               n == writer[w].life
    <2>2. j \in Ids /\ n \in Nat /\ n <= deleted[j]
        BY <2>1, RowTyped DEF ReuseInv
    <2>3. deleted[j] \in Nat /\ deleted'[j] \in Nat /\ deleted'[j] >= deleted[j]
        BY <1>4, <1>5, <2>2
    <2> HIDE DEF j, n
    <2>4. n <= deleted'[j]
        BY <2>2, <2>3
    <2> QED BY <2>1, <2>4 DEF j, n
<1>8. TakenOrLate'
    <2> SUFFICES ASSUME NEW e \in Deletes, NEW w \in Writers, Stands(w)', Passed(e, w)'
                 PROVE  w \in removal'[e].taken \/ writer'[w].late
        BY DEF TakenOrLate
    <2>1. e # d
        BY <1>3 DEF Passed, Through
    <2>2. Stands(w) /\ writer'[w] = writer[w] /\ removal'[e] = removal[e]
        BY <1>2, <1>3, <2>1
    <2>3. Passed(e, w)
        BY <2>2 DEF Passed, Through
    <2> QED BY <2>2, <2>3 DEF ReuseInv, TakenOrLate
<1>9. HasCampaign'
    <2> SUFFICES ASSUME NEW w \in Writers, writer'[w].table = "touchpoints",
                        writer'[w].at \in {"read", "written"}
                 PROVE  /\ Stands(w)' => Under(w)'
                        /\ writer'[w].at = "read" => Under(w)' \/ Bereft(w)'
        BY DEF HasCampaign, Stands
    <2>1. writer'[w] = writer[w] /\ w \notin T
        BY <1>1
    <2>2. PICK k \in Writers : writer[w].parent = k
        BY <2>1 DEF ReuseInv, HasCampaign, Stands, Under, Bereft
    <2>3. ASSUME Stands(w) PROVE Under(w)'
        <3>1. Campaign(k, writer[w].id)
            BY <2>1, <2>2, <2>3 DEF ReuseInv, HasCampaign, Under
        <3>2. k \notin T
            BY <1>3, <2>1, <2>2, <2>3 DEF ReuseInv, CascadeTaken
        <3>3. writer'[k] = writer[k]
            BY <1>1, <3>2
        <3> QED BY <2>1, <2>2, <3>1, <3>3 DEF Under, Campaign, Stands
    <2>4. ASSUME writer[w].at = "read" PROVE Under(w)' \/ Bereft(w)'
        <3>1. writer[k].at = "over" \/ Campaign(k, writer[w].id)
            BY <2>1, <2>2, <2>4 DEF ReuseInv, HasCampaign, Under, Bereft
        <3>2. writer'[k].at = "over" \/ writer'[k] = writer[k]
            BY <1>1
        <3> QED BY <2>1, <2>2, <3>1, <3>2 DEF Under, Bereft, Campaign, Stands
    <2> QED BY <2>1, <2>3, <2>4 DEF Stands
<1>10. CascadeTaken'
    BY <1>2, <1>3 DEF ReuseInv, CascadeTaken
<1>11. TakenOfSite'
    <2>1. \A e \in Deletes \ {d}, w \in Writers : w \in removal[e].taken =>
              writer'[w].at = "over" \/ (Stands(w)' /\ writer'[w].id = removal[e].site.id)
        BY <1>1 DEF ReuseInv, TakenOfSite, Stands
    <2>2. \A e \in Deletes : removal'[e].taken \subseteq Writers
        BY DEF SiteTypeOK
    <2> QED BY <1>3, <2>1, <2>2 DEF TakenOfSite
<1> QED BY <1>6, <1>7, <1>8, <1>9, <1>10, <1>11 DEF ReuseInv

\* A row that is read, written or given up by its writer.
LEMMA WriterPreserves ==
    ASSUME ReuseInv, SiteTypeOK', NEW w \in Writers, UNCHANGED <<removal, deleted>>,
           \A v \in Writers \ {w} : writer'[v] = writer[v],
           \A d \in Deletes : w \notin removal[d].taken,
           writer[w].at # "over", ~Stands(w),
           Stands(w)' =>
              /\ writer'[w].life < deleted[writer'[w].id] => writer'[w].late
              /\ \A d \in Deletes : Passed(d, w)' => writer'[w].late
              /\ writer'[w].table = "touchpoints" =>
                    Under(w)' /\ \A d \in Deletes : writer'[w].parent \notin removal[d].taken,
           writer'[w].at \in {"read", "written"} => writer'[w].life <= deleted[writer'[w].id],
           writer'[w].at = "read" /\ writer'[w].table = "touchpoints" => Under(w)'
    PROVE  ReuseInv'
<1>1. CleanReuse'
    BY DEF ReuseInv, CleanReuse, Stands
<1>2. \A v \in Writers : writer'[v].at \in {"read", "written"} =>
          writer'[v].life <= deleted'[writer'[v].id]
    BY DEF ReuseInv
<1>3. TakenOrLate'
    BY DEF ReuseInv, TakenOrLate, Stands, Passed, Through
<1>4. HasCampaign'
    <2> SUFFICES ASSUME NEW v \in Writers \ {w}, writer[v].table = "touchpoints"
                 PROVE  /\ Stands(v)' => Under(v)'
                        /\ writer'[v].at = "read" => Under(v)' \/ Bereft(v)'
        BY DEF HasCampaign, Stands
    <2>1. /\ Stands(v) => Under(v)
          /\ writer[v].at = "read" => Under(v) \/ Bereft(v)
        BY DEF ReuseInv, HasCampaign
    <2>2. Under(v) => Under(v)'
        BY DEF Under, Campaign, Stands
    <2>3. Bereft(v) => Bereft(v)'
        BY DEF Bereft
    <2> QED BY <2>1, <2>2, <2>3 DEF Stands
<1>5. CascadeTaken'
    BY DEF ReuseInv, CascadeTaken, Stands
<1>6. TakenOfSite'
    <2>1. \A d \in Deletes : removal[d].taken \subseteq Writers
        BY DEF ReuseInv, SiteTypeOK
    <2> QED BY <2>1 DEF ReuseInv, TakenOfSite, Stands
<1> QED BY <1>1, <1>2, <1>3, <1>4, <1>5, <1>6 DEF ReuseInv

\* No delete has taken a row that is not written.
LEMMA UntakenUntilWritten ==
    ASSUME ReuseInv, NEW w \in Writers, writer[w].at \in {"idle", "read"}
    PROVE  \A d \in Deletes : w \notin removal[d].taken
BY DEF ReuseInv, TakenOfSite, Stands

LEMMA ReadPreserves ==
    ASSUME ReuseInv, SiteTypeOK', NEW w \in Writers, NEW i \in Ids, NEW table \in Tables,
           ReadSite(w, i, table)
    PROVE  ReuseInv'
<1>1. PICK parent \in Parents(i, table) :
          writer' = [writer EXCEPT ![w] = [at |-> "read", table |-> table, id |-> i,
                                           life |-> deleted[i], parent |-> parent, late |-> FALSE]]
    BY DEF ReadSite
<1>2. /\ \A v \in Writers \ {w} : writer'[v] = writer[v]
      /\ writer'[w] = [at |-> "read", table |-> table, id |-> i,
                       life |-> deleted[i], parent |-> parent, late |-> FALSE]
    BY <1>1 DEF ReuseInv, SiteTypeOK
<1>3. table = "touchpoints" => parent \in Writers /\ Campaign(parent, i)
    BY DEF Parents, Rows, Campaign, Stands
<1>4. writer[w].at = "idle" /\ UNCHANGED <<removal, deleted>>
    BY DEF ReadSite
<1>5. table = "touchpoints" => Under(w)'
    BY <1>2, <1>3, <1>4 DEF Under, Campaign, Stands
<1>6. deleted[i] <= deleted[i]
    BY SiteAssumption DEF ReuseInv, SiteTypeOK
<1>7. \A d \in Deletes : w \notin removal[d].taken
    BY <1>4, UntakenUntilWritten
<1>8. ~Stands(w) /\ ~Stands(w)'
    BY <1>2, <1>4 DEF Stands
<1> QED BY <1>2, <1>4, <1>5, <1>6, <1>7, <1>8, WriterPreserves

LEMMA WritePreserves ==
    ASSUME ReuseInv, SiteTypeOK', NEW w \in Writers, WriteRow(w)
    PROVE  ReuseInv'
<1> DEFINE k == writer[w].parent
<1>1. /\ writer[w].at = "read" /\ UNCHANGED <<removal, deleted>>
      /\ \A d \in Deletes : k \notin removal[d].taken
      /\ \A v \in Writers \ {w} : writer'[v] = writer[v]
    BY DEF WriteRow, ReuseInv, SiteTypeOK
<1>2. ~Stands(w) /\ \A d \in Deletes : w \notin removal[d].taken
    BY <1>1, UntakenUntilWritten DEF Stands
<1>3. writer[w].id \in Ids /\ writer[w].life \in Nat /\ deleted[writer[w].id] \in Nat
      /\ writer[w].life <= deleted[writer[w].id]
    BY <1>1, RowTyped DEF ReuseInv
<1>4. CASE k = NoParent \/ writer[k].at = "written"
    <2>1. /\ writer'[w].at = "written" /\ writer'[w].table = writer[w].table
          /\ writer'[w].id = writer[w].id /\ writer'[w].life = writer[w].life
          /\ writer'[w].parent = k /\ writer'[w].late = Late(writer[w])
        BY <1>4 DEF WriteRow, ReuseInv, SiteTypeOK, WriterRow
    <2>2. ASSUME writer[w].life < deleted[writer[w].id] PROVE writer'[w].late
        <3>1. Late(writer[w])
            BY <1>3, <2>2 DEF Late
        <3> QED BY <2>1, <3>1
    <2>3. ASSUME NEW d \in Deletes, Passed(d, w)' PROVE writer'[w].late
        <3>1. Passed(d, w)
            BY <1>1, <2>1, <2>3 DEF Passed, Through
        <3>2. Late(writer[w])
            BY <3>1 DEF Late, Passed
        <3> QED BY <2>1, <3>2
    <2>4. ASSUME writer[w].table = "touchpoints" PROVE Under(w)'
        <3>1. k \in Writers /\ (writer[k].at = "over" \/ Campaign(k, writer[w].id))
            BY <1>1, <2>4 DEF ReuseInv, HasCampaign, Under, Bereft
        <3>2. Campaign(k, writer[w].id) /\ k # w
            BY <1>1, <1>4, <3>1, SiteAssumption DEF Campaign, Stands
        <3>3. writer'[k] = writer[k]
            BY <1>1, <3>1, <3>2
        <3>4. writer'[k].at = "written" /\ writer'[k].table = "campaigns"
              /\ writer'[k].id = writer'[w].id
            BY <2>1, <3>2, <3>3 DEF Campaign, Stands
        <3> HIDE DEF k
        <3> QED BY <2>1, <3>1, <3>4 DEF Under, Campaign, Stands
    <2>5. writer'[w].life <= deleted[writer'[w].id]
        BY <1>3, <2>1
    <2> QED BY <1>1, <1>2, <2>1, <2>2, <2>3, <2>4, <2>5, WriterPreserves
<1>5. CASE ~(k = NoParent \/ writer[k].at = "written")
    <2>1. writer'[w].at = "over" /\ writer'[w] = NoWrite("over")
        BY <1>5 DEF WriteRow, NoWrite, ReuseInv, SiteTypeOK
    <2>2. ~Stands(w)'
        BY <2>1 DEF Stands
    <2> QED BY <1>1, <1>2, <2>1, <2>2, WriterPreserves
<1> QED BY <1>4, <1>5

\* A segment goes, its campaigns are unlinked: no touchpoint and no taken row is touched.
LEMMA SegmentPreserves ==
    ASSUME ReuseInv, SiteTypeOK', NEW w \in Writers, DeleteSegment(w)
    PROVE  ReuseInv'
<1> DEFINE linked == {v \in Writers : writer[v].at = "written" /\ writer[v].parent = w}
<1>1. /\ writer[w].at = "written" /\ writer[w].table = "segments"
      /\ \A d \in Deletes : removal[d].taken \intersect (linked \union {w}) = {}
      /\ UNCHANGED <<removal, deleted>>
    BY DEF DeleteSegment
<1>2. \A v \in Writers : writer'[v] = IF v = w THEN NoWrite("over")
                                      ELSE IF v \in linked THEN [writer[v] EXCEPT !.parent = NoParent]
                                      ELSE writer[v]
    BY DEF DeleteSegment
<1>3. NoWrite("over").at = "over" /\ NoWrite("over").table = "segments"
    BY DEF NoWrite
<1>4. writer'[w].at = "over" /\ writer'[w].table = "segments"
    BY <1>2, <1>3
<1>5. \A v \in Writers \ {w} :
          /\ writer'[v].at = writer[v].at /\ writer'[v].table = writer[v].table
          /\ writer'[v].id = writer[v].id /\ writer'[v].life = writer[v].life
          /\ writer'[v].late = writer[v].late
          /\ writer'[v].parent = writer[v].parent \/ (v \in linked /\ writer'[v].parent = NoParent)
    <2> SUFFICES ASSUME NEW v \in Writers \ {w}
                 PROVE  /\ writer'[v].at = writer[v].at /\ writer'[v].table = writer[v].table
                        /\ writer'[v].id = writer[v].id /\ writer'[v].life = writer[v].life
                        /\ writer'[v].late = writer[v].late
                        /\ \/ writer'[v].parent = writer[v].parent
                           \/ v \in linked /\ writer'[v].parent = NoParent
        OBVIOUS
    <2>1. writer[v] \in WriterRow
        BY RowTyped DEF ReuseInv
    <2>2. writer'[v] = IF v \in linked THEN [writer[v] EXCEPT !.parent = NoParent] ELSE writer[v]
        BY <1>2
    <2> HIDE DEF linked
    <2> QED BY <2>1, <2>2 DEF WriterRow
<1>6. \A v \in linked : writer[v].table # "touchpoints"
    BY <1>1 DEF ReuseInv, HasCampaign, Stands, Under, Campaign
<1> HIDE DEF linked
<1>7. CleanReuse'
    BY <1>1, <1>4, <1>5 DEF ReuseInv, CleanReuse
<1>8. \A v \in Writers : writer'[v].at \in {"read", "written"} =>
          writer'[v].life <= deleted'[writer'[v].id]
    BY <1>1, <1>4, <1>5 DEF ReuseInv
<1>9. TakenOrLate'
    BY <1>1, <1>4, <1>5 DEF ReuseInv, TakenOrLate, Stands, Passed, Through
<1>10. HasCampaign'
    <2> SUFFICES ASSUME NEW v \in Writers \ {w}, writer[v].table = "touchpoints"
                 PROVE  /\ Stands(v)' => Under(v)'
                        /\ writer'[v].at = "read" => Under(v)' \/ Bereft(v)'
        BY <1>4, <1>5 DEF HasCampaign, Stands
    <2>1. /\ Stands(v) => Under(v)
          /\ writer[v].at = "read" => Under(v) \/ Bereft(v)
        BY DEF ReuseInv, HasCampaign
    <2>2. writer'[v].parent = writer[v].parent /\ writer'[v].id = writer[v].id
          /\ writer'[v].at = writer[v].at
        BY <1>5, <1>6
    <2>3. ASSUME Under(v) PROVE Under(v)'
        <3>1. PICK k \in Writers : k = writer[v].parent /\ Campaign(k, writer[v].id)
            BY <2>3 DEF Under
        <3>2. k # w
            BY <1>1, <3>1 DEF Campaign
        <3>3. writer'[k].at = writer[k].at /\ writer'[k].table = writer[k].table
              /\ writer'[k].id = writer[k].id
            BY <1>5, <3>2
        <3> QED BY <2>2, <3>1, <3>3 DEF Under, Campaign, Stands
    <2>4. ASSUME Bereft(v) PROVE Bereft(v)'
        <3>1. PICK k \in Writers : k = writer[v].parent /\ writer[k].at = "over"
            BY <2>4 DEF Bereft
        <3>2. writer'[k].at = "over"
            BY <1>4, <1>5, <3>1
        <3> QED BY <2>2, <3>1, <3>2 DEF Bereft
    <2> QED BY <2>1, <2>2, <2>3, <2>4 DEF Stands
<1>11. CascadeTaken'
    <2> SUFFICES ASSUME NEW d \in Deletes, NEW v \in Writers \ {w}, Stands(v)',
                        writer[v].table = "touchpoints", removal[d].at = "commit",
                        writer'[v].parent \in removal[d].taken
                 PROVE  v \in removal[d].taken
        BY <1>1, <1>4, <1>5 DEF CascadeTaken, Stands
    <2>1. writer'[v].parent = writer[v].parent /\ Stands(v)
        BY <1>5, <1>6 DEF Stands
    <2> QED BY <2>1 DEF ReuseInv, CascadeTaken
<1>12. TakenOfSite'
    <2>1. \A d \in Deletes : removal[d].taken \subseteq Writers /\ w \notin removal[d].taken
        BY <1>1 DEF ReuseInv, SiteTypeOK
    <2> QED BY <1>1, <1>5, <2>1 DEF ReuseInv, TakenOfSite, Stands
<1> QED BY <1>7, <1>8, <1>9, <1>10, <1>11, <1>12 DEF ReuseInv

LEMMA ReusePreserved == ReuseInv /\ [SiteNext]_siteVars => ReuseInv'
<1> SUFFICES ASSUME ReuseInv, [SiteNext]_siteVars PROVE ReuseInv'
    OBVIOUS
<1> SiteTypeOK'
    BY SitesStayTyped DEF ReuseInv
<1>1. ASSUME UNCHANGED <<removal, writer, deleted>> PROVE ReuseInv'
    BY <1>1 DEF ReuseInv, CleanReuse, TakenOrLate, HasCampaign, CascadeTaken, TakenOfSite,
                Stands, Passed, Through, Under, Bereft, Campaign
<1>2. ASSUME NEW c \in Creates,
             \/ \E o \in Owners, u \in Urls : CheckCreate(c, o, u)
             \/ PickTombstone(c) \/ InsertReclaimed(c) \/ InsertFresh(c)
             \/ InsertCollides(c) \/ Forget(c)
      PROVE  ReuseInv'
    BY <1>1, <1>2 DEF CheckCreate, PickTombstone, InsertReclaimed, InsertFresh, InsertCollides, Forget
<1>3. ASSUME NEW t \in tombstones, TombstoneExpires(t) PROVE ReuseInv'
    BY <1>1, <1>3 DEF TombstoneExpires
<1>4. ASSUME NEW d \in Deletes,
             \/ \E s \in sites : BeginDelete(d, s)
             \/ DeleteTouchpoints(d) \/ DeleteSegments(d) \/ DeleteCampaigns(d)
             \/ RollbackDelete(d)
      PROVE  ReuseInv'
    BY <1>4, StatementsPreserve
<1>5. ASSUME NEW d \in Deletes, CommitDelete(d) PROVE ReuseInv'
    BY <1>5, CommitPreserves
<1>6. ASSUME NEW w \in Writers, WriteRow(w) \/ DeleteSegment(w) PROVE ReuseInv'
    BY <1>6, WritePreserves, SegmentPreserves
<1>7. ASSUME NEW w \in Writers, NEW i \in Ids, NEW table \in Tables, ReadSite(w, i, table)
      PROVE  ReuseInv'
    BY <1>7, ReadPreserves
<1>8. CASE UNCHANGED siteVars
    BY <1>1, <1>8 DEF siteVars
<1> QED BY <1>2, <1>3, <1>4, <1>5, <1>6, <1>7, <1>8 DEF SiteNext

\* A site created again finds no row of its earlier life in a listed table, but one
\* written after the delete had been through that table, whatever interleaves with
\* the delete's statements (delete_site's list).
THEOREM ReusedClean == SiteSpec => []CleanReuse
<1>1. ReuseInv => CleanReuse
    BY DEF ReuseInv
<1> QED BY ReuseInitially, ReusePreserved, <1>1, PTL DEF SiteSpec

-----------------------------------------------------------------------------
(* Erasure: whoever is past the check when the tombstone is written is in      *)
(* `overtaken', and nobody passes it afterwards.  A sweep writes the tombstone *)
(* in the transaction that deletes, so when it comes to mark its request done, *)
(* only those resolvers can have written since, whatever other sweeps and      *)
(* requests did meanwhile.                                                    *)

\* The tombstone stands, and only resolvers it came too late for have written.
Sealed == listed /\ graph \subseteq overtaken

\* Sweep w has a request in hand.
Busy(w) == purger[w].at \in {"claim", "work", "mark", "fail"}

\* Why GraphStaysErased holds.
SealInv ==
    /\ ErasureTypeOK
    /\ listed => past \subseteq overtaken
    /\ \A q \in Erasures : queue[q].status # "none" => queue[q].at \notin {"off", "collected"}
    /\ \A w \in Purgers : Busy(w) => queue[purger[w].of].status # "none"
    /\ \A w \in Purgers :
          purger[w].at = "mark" /\ queue[purger[w].of].keys = "email" => Sealed
    /\ \A q \in Erasures : Erased(q) => Sealed

Request == [at : {"off", "collected", "deleting", "over"},
            status : {"none", "pending", "processing", "done", "failed"},
            keys : Keys, attempts : Nat, age : 0..(StaleAfter + 1)]
Pass == [at : {"off", "pick", "claim", "work", "mark", "fail"}, of : Erasures, attempts : Nat]

LEMMA ErasureTyping ==
    ErasureTypeOK <=>
        /\ local \in Keys /\ listed \in BOOLEAN /\ unsubscribed \in BOOLEAN
        /\ graph \subseteq Resolvers /\ signals \in BOOLEAN
        /\ queue \in [Erasures -> Request] /\ purger \in [Purgers -> Pass]
        /\ past \subseteq Resolvers /\ overtaken \subseteq Resolvers
        /\ errors \in 0..MaxErrors
BY DEF ErasureTypeOK, Request, Pass

LEMMA SealInitially == ErasureInit => SealInv
<1> SUFFICES ASSUME ErasureInit PROVE SealInv
    OBVIOUS
<1>1. SomeErasure \in Erasures
    BY ErasureAssumption DEF SomeErasure
<1>2. 0 \in 0..(StaleAfter + 1) /\ 0 \in 0..MaxErrors
    BY ErasureAssumption
<1>3. NotAsked \in Request /\ Idle \in Pass
    BY <1>1, <1>2 DEF NotAsked, Idle, Request, Pass, Keys
<1>4. ErasureTypeOK
    BY <1>2, <1>3, ErasureTyping DEF ErasureInit, Keys
<1>5. \A q \in Erasures : queue[q].status = "none"
    BY DEF ErasureInit, NotAsked
<1>6. \A w \in Purgers : purger[w].at = "off"
    BY DEF ErasureInit, Idle
<1> QED BY <1>4, <1>5, <1>6 DEF SealInv, Busy, Erased, ErasureInit

-----------------------------------------------------------------------------
(* What a step does to the seal *)

\* A tombstone overtakes whoever is past the check, once.
LEMMA Tombstoned ==
    ASSUME SealInv, Tombstone, UNCHANGED past
    PROVE  /\ listed' /\ past' \subseteq overtaken' /\ overtaken' \subseteq Resolvers
           /\ graph' \subseteq graph /\ Sealed => Sealed'
BY DEF Tombstone, SealInv, Sealed, ErasureTypeOK

\* A step of the queue and its sweeps that keeps the tables.
LEMMA TablesKept ==
    ASSUME SealInv, ErasureTypeOK', UNCHANGED <<graph, past>>,
           Tombstone \/ UNCHANGED <<listed, overtaken>>,
           \A q \in Erasures :
              queue'[q].status # "none" => queue'[q].at \notin {"off", "collected"},
           \A w \in Purgers : Busy(w)' => queue'[purger'[w].of].status # "none",
           \A w \in Purgers :
              purger'[w].at = "mark" /\ queue'[purger'[w].of].keys = "email" =>
                 purger[w].at = "mark" /\ queue[purger[w].of].keys = "email",
           \A q \in Erasures : Erased(q)' =>
              Erased(q) \/ \E w \in Purgers : /\ purger[w].at = "mark"
                                              /\ queue[purger[w].of].keys = "email"
    PROVE  SealInv'
<1>1. (listed' => past' \subseteq overtaken') /\ (Sealed => Sealed')
    BY Tombstoned DEF SealInv, Sealed
<1> QED BY <1>1 DEF SealInv

\* A step that leaves the queue and its sweeps alone.
LEMMA QueueKept ==
    ASSUME SealInv, ErasureTypeOK', UNCHANGED <<queue, purger, listed, overtaken>>,
           listed => past' \subseteq overtaken, Sealed => graph' \subseteq overtaken
    PROVE  SealInv'
<1>1. Sealed => Sealed'
    BY DEF Sealed
<1> QED BY <1>1 DEF SealInv, Busy, Erased

-----------------------------------------------------------------------------
(* The requests *)

\* A step that only rewrites the rest of one request, which no sweep has in hand
\* unless its status and keys stay as they are.
LEMMA RowRewritten ==
    ASSUME SealInv, NEW q \in Erasures, NEW rest \in Request,
           queue' = [queue EXCEPT ![q] = rest],
           UNCHANGED <<unsubscribed, graph, signals, purger, past>>,
           local' \in Keys, errors' \in 0..MaxErrors,
           Tombstone \/ UNCHANGED <<listed, overtaken>>,
           rest.status # "none" => rest.at \notin {"off", "collected"},
           \/ queue[q].status = "none" /\ rest.status # "done"
           \/ rest.status = queue[q].status /\ rest.keys = queue[q].keys
    PROVE  SealInv'
<1> ErasureTypeOK
    BY DEF SealInv
<1>1. queue \in [Erasures -> Request] /\ \A w \in Purgers : purger[w].of \in Erasures
    BY ErasureTyping DEF Pass
<1>2. queue'[q] = rest /\ \A p \in Erasures : p # q => queue'[p] = queue[p]
    BY <1>1
<1>3. queue' \in [Erasures -> Request]
    BY <1>1
<1>4. overtaken' \subseteq Resolvers /\ listed' \in BOOLEAN
    BY Tombstoned, ErasureTyping DEF Tombstone
<1>5. ErasureTypeOK'
    BY <1>3, <1>4, ErasureTyping DEF ErasureTypeOK, Request
<1>6. \A p \in Erasures : queue'[p].status # "none" => queue'[p].at \notin {"off", "collected"}
    BY <1>2 DEF SealInv
<1>7. CASE queue[q].status = "none" /\ rest.status # "done"
    <2>1. \A w \in Purgers : Busy(w) => purger[w].of # q
        BY <1>7 DEF SealInv
    <2>2. \A w \in Purgers : Busy(w) => queue'[purger[w].of] = queue[purger[w].of]
        BY <2>1, <1>1, <1>2
    <2>3. \A w \in Purgers : Busy(w)' <=> Busy(w)
        BY DEF Busy
    <2>4. \A w \in Purgers : Busy(w)' => queue'[purger'[w].of].status # "none"
        BY <2>2, <2>3 DEF SealInv
    <2>5. \A w \in Purgers :
             purger'[w].at = "mark" /\ queue'[purger'[w].of].keys = "email" =>
                purger[w].at = "mark" /\ queue[purger[w].of].keys = "email"
        BY <2>2 DEF Busy
    <2>6. \A p \in Erasures : Erased(p)' => Erased(p)
        BY <1>2, <1>7 DEF Erased
    <2> QED BY <1>5, <1>6, <2>4, <2>5, <2>6, TablesKept
<1>8. CASE rest.status = queue[q].status /\ rest.keys = queue[q].keys
    <2>1. \A p \in Erasures :
             queue'[p].status = queue[p].status /\ queue'[p].keys = queue[p].keys
        BY <1>2, <1>8
    <2>2. \A w \in Purgers : Busy(w)' => queue'[purger'[w].of].status # "none"
        BY <2>1, <1>1 DEF SealInv, Busy
    <2>3. \A w \in Purgers :
             purger'[w].at = "mark" /\ queue'[purger'[w].of].keys = "email" =>
                purger[w].at = "mark" /\ queue[purger[w].of].keys = "email"
        BY <2>1, <1>1
    <2>4. \A p \in Erasures : Erased(p)' => Erased(p)
        BY <2>1 DEF Erased
    <2> QED BY <1>5, <1>6, <2>2, <2>3, <2>4, TablesKept
<1> QED BY <1>7, <1>8

LEMMA RequestsPreserve ==
    ASSUME SealInv, NEW q \in Erasures,
           CollectKeys(q) \/ Enqueue(q) \/ EnqueueFails(q) \/ DeleteLocal(q)
    PROVE  SealInv'
<1> ErasureTypeOK
    BY DEF SealInv
<1>1. queue \in [Erasures -> Request] /\ queue[q] \in Request /\ local \in Keys
    BY ErasureTyping
<1>2. errors \in 0..MaxErrors /\ (Failing => errors' \in 0..MaxErrors)
    BY ErasureAssumption, ErasureTyping DEF Failing
<1>3. CASE CollectKeys(q)
    <2> DEFINE rest == [queue[q] EXCEPT !.at = "collected", !.keys = local]
    <2>1. queue' = [queue EXCEPT ![q] = rest]
        BY <1>1, <1>3 DEF CollectKeys
    <2>2. rest \in Request /\ rest.status = queue[q].status
        BY <1>1 DEF Request
    <2>3. queue[q].status = "none"
        BY <1>3 DEF CollectKeys, SealInv
    <2>4. /\ UNCHANGED <<unsubscribed, graph, signals, purger, past, listed, overtaken>>
          /\ local' \in Keys /\ errors' \in 0..MaxErrors
        BY <1>1, <1>2, <1>3 DEF CollectKeys, tableVars
    <2> HIDE DEF rest
    <2> QED BY <2>1, <2>2, <2>3, <2>4, RowRewritten
<1>4. CASE Enqueue(q)
    <2> DEFINE rest == [queue[q] EXCEPT !.at = "deleting", !.status = "pending"]
    <2>1. queue' = [queue EXCEPT ![q] = rest]
        BY <1>1, <1>4 DEF Enqueue
    <2>2. rest \in Request /\ rest.status = "pending" /\ rest.at = "deleting"
        BY <1>1 DEF Request
    <2>3. queue[q].status = "none"
        BY <1>4 DEF Enqueue, SealInv
    <2>4. UNCHANGED <<local, unsubscribed, graph, signals, purger, past>>
        BY <1>4 DEF Enqueue, tableVars
    <2>5. /\ Tombstone \/ UNCHANGED <<listed, overtaken>>
          /\ errors' \in 0..MaxErrors
        BY <1>2, <1>4 DEF Enqueue
    <2> HIDE DEF rest
    <2> QED BY <1>1, <2>1, <2>2, <2>3, <2>4, <2>5, RowRewritten
<1>5. CASE EnqueueFails(q)
    <2> DEFINE rest == [queue[q] EXCEPT !.at = "deleting"]
    <2>1. queue' = [queue EXCEPT ![q] = rest]
        BY <1>1, <1>5 DEF EnqueueFails
    <2>2. rest \in Request /\ rest.status = queue[q].status
        BY <1>1 DEF Request
    <2>3. queue[q].status = "none"
        BY <1>5 DEF EnqueueFails, SealInv
    <2>4. /\ UNCHANGED <<local, unsubscribed, graph, signals, purger, past, listed, overtaken>>
          /\ errors' \in 0..MaxErrors
        BY <1>2, <1>5 DEF EnqueueFails, tableVars
    <2> HIDE DEF rest
    <2> QED BY <1>1, <2>1, <2>2, <2>3, <2>4, RowRewritten
<1>6. CASE DeleteLocal(q)
    <2> DEFINE rest == [queue[q] EXCEPT !.at = "over"]
    <2>1. queue' = [queue EXCEPT ![q] = rest]
        BY <1>1, <1>6 DEF DeleteLocal
    <2>2. rest \in Request /\ rest.at = "over"
          /\ rest.status = queue[q].status /\ rest.keys = queue[q].keys
        BY <1>1 DEF Request
    <2>3. /\ UNCHANGED <<unsubscribed, graph, signals, purger, past, listed, overtaken>>
          /\ local' \in Keys /\ errors' \in 0..MaxErrors
        BY <1>2, <1>6 DEF DeleteLocal, tableVars, Keys
    <2> HIDE DEF rest
    <2> QED BY <2>1, <2>2, <2>3, RowRewritten
<1> QED BY <1>3, <1>4, <1>5, <1>6

-----------------------------------------------------------------------------
(* The sweeps *)

\* A step of the sweeps but the deletion.
LEMMA PassAdvances ==
    ASSUME SealInv, ErasureTypeOK', UNCHANGED <<graph, past, listed, overtaken>>,
           \A q \in Erasures :
              /\ queue'[q].at = queue[q].at /\ queue'[q].keys = queue[q].keys
              /\ queue'[q].status = "none" <=> queue[q].status = "none"
              /\ queue'[q].status = "done" =>
                    \/ queue[q].status = "done"
                    \/ \E w \in Purgers : purger[w].at = "mark" /\ purger[w].of = q,
           \A w \in Purgers :
              \/ purger'[w] = purger[w]
              \/ purger'[w].at \in {"off", "pick"}
              \/ /\ purger'[w].at \in {"claim", "work", "fail"}
                 /\ queue'[purger'[w].of].status # "none"
    PROVE  SealInv'
<1> ErasureTypeOK
    BY DEF SealInv
<1>1. \A w \in Purgers : purger[w].of \in Erasures
    BY ErasureTyping DEF Pass
<1>2. \A q \in Erasures : queue'[q].status # "none" => queue'[q].at \notin {"off", "collected"}
    BY DEF SealInv
<1>3. \A w \in Purgers : Busy(w)' => queue'[purger'[w].of].status # "none"
    BY <1>1 DEF SealInv, Busy
<1>4. \A w \in Purgers :
         purger'[w].at = "mark" /\ queue'[purger'[w].of].keys = "email" =>
            purger[w].at = "mark" /\ queue[purger[w].of].keys = "email"
    BY <1>1
<1>5. \A q \in Erasures : Erased(q)' =>
         Erased(q) \/ \E w \in Purgers : /\ purger[w].at = "mark"
                                         /\ queue[purger[w].of].keys = "email"
    BY DEF Erased
<1> QED BY <1>2, <1>3, <1>4, <1>5, TablesKept

LEMMA Gone ==
    ASSUME ErasureTypeOK, NEW w \in Purgers, NEW step \in {"off", "pick", "mark", "fail"},
           PurgerGoto(w, step)
    PROVE  /\ purger' \in [Purgers -> Pass]
           /\ purger'[w].at = step /\ purger'[w].of = purger[w].of
           /\ \A v \in Purgers \ {w} : purger'[v] = purger[v]
<1>1. purger \in [Purgers -> Pass] /\ purger[w] \in Pass
    BY ErasureTyping
<1>2. purger' = [purger EXCEPT ![w] = [purger[w] EXCEPT !.at = step]]
    BY <1>1 DEF PurgerGoto
<1>3. [purger[w] EXCEPT !.at = step] \in Pass
    BY <1>1 DEF Pass
<1>4. [purger[w] EXCEPT !.at = step].at = step /\ [purger[w] EXCEPT !.at = step].of = purger[w].of
    BY <1>1 DEF Pass
<1> QED BY <1>1, <1>2, <1>3, <1>4

\* A status written to the request in hand.
LEMMA Marked ==
    ASSUME ErasureTypeOK, NEW q \in Erasures, NEW status \in {"done", "failed", "pending"},
           queue' = [queue EXCEPT ![q].status = status]
    PROVE  /\ queue' \in [Erasures -> Request]
           /\ queue'[q].status = status
           /\ queue'[q].at = queue[q].at /\ queue'[q].keys = queue[q].keys
           /\ \A p \in Erasures \ {q} : queue'[p] = queue[p]
<1>1. queue \in [Erasures -> Request] /\ queue[q] \in Request
    BY ErasureTyping
<1>2. queue' = [queue EXCEPT ![q] = [queue[q] EXCEPT !.status = status]]
    BY <1>1
<1>3. [queue[q] EXCEPT !.status = status] \in Request
    BY <1>1 DEF Request
<1>4. /\ [queue[q] EXCEPT !.status = status].status = status
      /\ [queue[q] EXCEPT !.status = status].at = queue[q].at
      /\ [queue[q] EXCEPT !.status = status].keys = queue[q].keys
    BY <1>1 DEF Request
<1> QED BY <1>1, <1>2, <1>3, <1>4

LEMMA SweepsPreserve ==
    ASSUME SealInv, NEW w \in Purgers, PurgerStep(w)
    PROVE  SealInv'
<1> ErasureTypeOK
    BY DEF SealInv
<1>1. /\ queue \in [Erasures -> Request] /\ purger \in [Purgers -> Pass]
      /\ \A v \in Purgers : purger[v].of \in Erasures
    BY ErasureTyping DEF Pass
<1>2. errors \in 0..MaxErrors /\ (Failing => errors' \in 0..MaxErrors)
    BY ErasureAssumption, ErasureTyping DEF Failing
<1>3. CASE StartErasureSweep(w)
    <2>1. /\ PurgerGoto(w, "pick")
          /\ UNCHANGED <<local, listed, unsubscribed, graph, signals, past, overtaken, errors>>
        BY <1>3 DEF StartErasureSweep, tableVars
    <2>2. 0 \in 0..(StaleAfter + 1)
        BY ErasureAssumption
    <2>3. ASSUME NEW q \in Erasures
          PROVE  /\ queue'[q] \in Request
                 /\ queue'[q].at = queue[q].at /\ queue'[q].keys = queue[q].keys
                 /\ \/ queue'[q].status = queue[q].status
                    \/ queue'[q].status = "pending" /\ queue[q].status = "processing"
        <3>1. queue[q] \in Request
            BY <1>1
        <3>2. CASE queue[q].status = "processing" /\ queue[q].age > StaleAfter
            <4>1. queue'[q] = [queue[q] EXCEPT !.status = "pending", !.age = 0]
                BY <1>3, <3>2 DEF StartErasureSweep
            <4> QED BY <3>1, <3>2, <4>1, <2>2 DEF Request
        <3>3. CASE ~(queue[q].status = "processing" /\ queue[q].age > StaleAfter)
            <4>1. queue'[q] = queue[q]
                BY <1>3, <3>3 DEF StartErasureSweep
            <4> QED BY <3>1, <4>1
        <3> QED BY <3>2, <3>3
    <2>4. queue' \in [Erasures -> Request]
        <3>1. queue' = [q \in Erasures |-> queue'[q]]
            BY <1>3 DEF StartErasureSweep
        <3> QED BY <2>3, <3>1
    <2>5. ErasureTypeOK'
        BY <2>1, <2>4, Gone, ErasureTyping DEF ErasureTypeOK, Request, Pass
    <2> QED BY <2>1, <2>3, <2>5, Gone, PassAdvances
<1>4. CASE PickErasure(w)
    <2>1. UNCHANGED <<local, listed, unsubscribed, graph, signals, queue, past, overtaken, errors>>
        BY <1>4 DEF PickErasure, tableVars
    <2>2. CASE PurgerGoto(w, "off")
        <3>1. ErasureTypeOK'
            BY <2>1, <2>2, Gone, ErasureTyping DEF ErasureTypeOK, Request, Pass
        <3> QED BY <2>1, <2>2, <3>1, Gone, PassAdvances
    <2>3. CASE \E q \in Erasures : /\ queue[q].status = "pending"
                                   /\ purger' = [purger EXCEPT ![w] =
                                                    [@ EXCEPT !.at = "claim", !.of = q]]
        <3>1. PICK q \in Erasures : /\ queue[q].status = "pending"
                                    /\ purger' = [purger EXCEPT ![w] =
                                                     [@ EXCEPT !.at = "claim", !.of = q]]
            BY <2>3
        <3>2. /\ [purger[w] EXCEPT !.at = "claim", !.of = q] \in Pass
              /\ [purger[w] EXCEPT !.at = "claim", !.of = q].at = "claim"
              /\ [purger[w] EXCEPT !.at = "claim", !.of = q].of = q
            BY <1>1 DEF Pass
        <3>3. /\ purger' \in [Purgers -> Pass]
              /\ purger'[w].at = "claim" /\ purger'[w].of = q
              /\ \A v \in Purgers \ {w} : purger'[v] = purger[v]
            BY <1>1, <3>1, <3>2
        <3>4. ErasureTypeOK'
            BY <2>1, <3>3, ErasureTyping DEF ErasureTypeOK, Request, Pass
        <3> QED BY <2>1, <3>1, <3>3, <3>4, PassAdvances
    <2> QED BY <1>4, <2>2, <2>3 DEF PickErasure
<1>5. CASE ClaimErasure(w)
    <2> DEFINE q == purger[w].of
               rest == [queue[q] EXCEPT !.status = "processing", !.age = 0,
                                       !.attempts = queue[q].attempts + 1]
    <2>1. UNCHANGED <<local, listed, unsubscribed, graph, signals, past, overtaken, errors>>
        BY <1>5 DEF ClaimErasure, tableVars
    <2>2. CASE queue[q].status = "pending"
        <3>1. /\ queue' = [queue EXCEPT ![q] = rest]
              /\ purger' = [purger EXCEPT ![w] = [purger[w] EXCEPT
                                !.at = "work", !.attempts = queue[q].attempts + 1]]
            BY <1>1, <1>5, <2>2 DEF ClaimErasure
        <3>2. q \in Erasures /\ queue[q] \in Request /\ purger[w] \in Pass
            BY <1>1
        <3>3. 0 \in 0..(StaleAfter + 1) /\ queue[q].attempts + 1 \in Nat
            BY <3>2, ErasureAssumption DEF Request
        <3>4. /\ rest \in Request
              /\ rest.at = queue[q].at /\ rest.keys = queue[q].keys /\ rest.status = "processing"
            BY <3>2, <3>3 DEF Request
        <3>5. /\ [purger[w] EXCEPT !.at = "work", !.attempts = queue[q].attempts + 1] \in Pass
              /\ [purger[w] EXCEPT !.at = "work", !.attempts = queue[q].attempts + 1].at = "work"
              /\ [purger[w] EXCEPT !.at = "work", !.attempts = queue[q].attempts + 1].of = q
            BY <3>2, <3>3 DEF Pass
        <3>6. queue' \in [Erasures -> Request] /\ purger' \in [Purgers -> Pass]
            BY <1>1, <3>1, <3>4, <3>5
        <3>7. ErasureTypeOK'
            BY <2>1, <3>6, ErasureTyping DEF ErasureTypeOK, Request, Pass
        <3>8. /\ queue'[q] = rest /\ \A p \in Erasures \ {q} : queue'[p] = queue[p]
              /\ purger'[w].at = "work" /\ purger'[w].of = q
              /\ \A v \in Purgers \ {w} : purger'[v] = purger[v]
            BY <1>1, <3>1, <3>2, <3>5
        <3> HIDE DEF rest, q
        <3> QED BY <2>1, <2>2, <3>2, <3>4, <3>7, <3>8, PassAdvances
    <2>3. CASE queue[q].status # "pending"
        <3>1. PurgerGoto(w, "off") /\ UNCHANGED queue
            BY <1>5, <2>3 DEF ClaimErasure
        <3>2. ErasureTypeOK'
            BY <2>1, <3>1, Gone, ErasureTyping DEF ErasureTypeOK, Request, Pass
        <3> QED BY <2>1, <3>1, <3>2, Gone, PassAdvances
    <2> QED BY <2>2, <2>3
<1>6. CASE Purge(w)
    <2> DEFINE q == purger[w].of
    <2>1. /\ PurgerGoto(w, "mark")
          /\ purger[w].at = "work"
          /\ UNCHANGED <<local, unsubscribed, queue, past, errors>>
          /\ graph' = {} \/ graph' = graph
          /\ signals' \in BOOLEAN
        BY <1>6 DEF Purge
    <2>2. Tombstone \/ UNCHANGED <<listed, overtaken>>
        BY <1>6 DEF Purge
    <2>3. listed' \in BOOLEAN /\ overtaken' \subseteq Resolvers /\ graph' \subseteq Resolvers
        BY <2>1, <2>2, ErasureTyping DEF Tombstone
    <2>4. ErasureTypeOK'
        BY <2>1, <2>3, Gone, ErasureTyping DEF ErasureTypeOK, Request, Pass
    <2>5. (listed' => past' \subseteq overtaken') /\ (Sealed => Sealed')
        BY <2>1, <2>2 DEF Tombstone, Sealed, SealInv
    <2>6. queue[q].keys = "email" => Sealed'
        BY <1>6 DEF Purge, Tombstone, Sealed
    <2>7. \A v \in Purgers : Busy(v)' => Busy(v) /\ purger'[v].of = purger[v].of
        BY <2>1, Gone DEF Busy
    <2>8. \A v \in Purgers :
             purger'[v].at = "mark" /\ queue'[purger'[v].of].keys = "email" => Sealed'
        BY <2>1, <2>5, <2>6, Gone DEF SealInv
    <2>9. \A p \in Erasures : Erased(p)' => Sealed'
        BY <2>1, <2>5 DEF SealInv, Erased
    <2> QED BY <2>1, <2>4, <2>5, <2>7, <2>8, <2>9 DEF SealInv
<1>7. CASE MarkDone(w)
    <2>1. /\ PurgerGoto(w, "pick") /\ purger[w].at = "mark"
          /\ queue' = [queue EXCEPT ![purger[w].of].status = "done"]
          /\ UNCHANGED <<local, listed, unsubscribed, graph, signals, past, overtaken, errors>>
        BY <1>7 DEF MarkDone, tableVars
    <2>2. purger[w].of \in Erasures /\ queue[purger[w].of].status # "none"
        BY <1>1, <2>1 DEF SealInv, Busy
    <2>3. ErasureTypeOK'
        BY <2>1, <2>2, Gone, Marked, ErasureTyping DEF ErasureTypeOK, Request, Pass
    <2> QED BY <2>1, <2>2, <2>3, Gone, Marked, PassAdvances
<1>8. CASE ErasureError(w)
    <2>1. /\ PurgerGoto(w, "fail") /\ purger[w].at \in {"work", "mark"} /\ errors' \in 0..MaxErrors
          /\ UNCHANGED <<local, listed, unsubscribed, graph, signals, queue, past, overtaken>>
        BY <1>2, <1>8 DEF ErasureError, tableVars
    <2>2. queue[purger[w].of].status # "none"
        BY <2>1 DEF SealInv, Busy
    <2>3. ErasureTypeOK'
        BY <2>1, Gone, ErasureTyping DEF ErasureTypeOK, Request, Pass
    <2> QED BY <2>1, <2>2, <2>3, Gone, PassAdvances
<1>9. CASE MarkFailed(w)
    <2>1. /\ PurgerGoto(w, "pick") /\ purger[w].at = "fail" /\ errors' \in 0..MaxErrors
          /\ UNCHANGED <<local, listed, unsubscribed, graph, signals, past, overtaken>>
        BY <1>2, <1>9 DEF MarkFailed, tableVars
    <2>2. purger[w].of \in Erasures /\ queue[purger[w].of].status # "none"
        BY <1>1, <2>1 DEF SealInv, Busy
    <2>3. CASE UNCHANGED queue
        <3>1. ErasureTypeOK'
            BY <2>1, <2>3, Gone, ErasureTyping DEF ErasureTypeOK, Request, Pass
        <3> QED BY <2>1, <2>3, <3>1, Gone, PassAdvances
    <2>4. CASE \E status \in {"failed", "pending"} :
                  queue' = [queue EXCEPT ![purger[w].of].status = status]
        <3>1. PICK status \in {"failed", "pending"} :
                  queue' = [queue EXCEPT ![purger[w].of].status = status]
            BY <2>4
        <3>2. ErasureTypeOK'
            BY <2>1, <2>2, <3>1, Gone, Marked, ErasureTyping DEF ErasureTypeOK, Request, Pass
        <3> QED BY <2>1, <2>2, <3>1, <3>2, Gone, Marked, PassAdvances
    <2> QED BY <1>9, <2>3, <2>4 DEF MarkFailed
<1>10. CASE ErasureSweepDies(w)
    <2>1. /\ PurgerGoto(w, "off") /\ errors' \in 0..MaxErrors
          /\ UNCHANGED <<local, listed, unsubscribed, graph, signals, queue, past, overtaken>>
        BY <1>2, <1>10 DEF ErasureSweepDies, tableVars
    <2>2. ErasureTypeOK'
        BY <2>1, Gone, ErasureTyping DEF ErasureTypeOK, Request, Pass
    <2> QED BY <2>1, <2>2, Gone, PassAdvances
<1> QED BY <1>3, <1>4, <1>5, <1>6, <1>7, <1>8, <1>9, <1>10 DEF PurgerStep

LEMMA AgingPreserves ==
    ASSUME SealInv, AgeClaims
    PROVE  SealInv'
<1> ErasureTypeOK
    BY DEF SealInv
<1>1. queue \in [Erasures -> Request]
    BY ErasureTyping
<1>2. UNCHANGED <<local, listed, unsubscribed, graph, signals, purger, past, overtaken, errors>>
    BY DEF AgeClaims, tableVars
<1>3. ASSUME NEW q \in Erasures
      PROVE  /\ queue'[q] \in Request
             /\ queue'[q].at = queue[q].at /\ queue'[q].keys = queue[q].keys
             /\ queue'[q].status = queue[q].status
    <2>1. queue[q] \in Request
        BY <1>1
    <2>2. CASE queue[q].status = "processing" /\ queue[q].age <= StaleAfter
        <3>1. queue'[q] = [queue[q] EXCEPT !.age = queue[q].age + 1]
            BY <2>2 DEF AgeClaims
        <3>2. queue[q].age + 1 \in 0..(StaleAfter + 1)
            BY <2>1, <2>2, ErasureAssumption DEF Request
        <3> QED BY <2>1, <3>1, <3>2 DEF Request
    <2>3. CASE ~(queue[q].status = "processing" /\ queue[q].age <= StaleAfter)
        <3>1. queue'[q] = queue[q]
            BY <2>3 DEF AgeClaims
        <3> QED BY <2>1, <3>1
    <2> QED BY <2>2, <2>3
<1>4. queue' \in [Erasures -> Request]
    <2>1. queue' = [q \in Erasures |-> queue'[q]]
        BY DEF AgeClaims
    <2> QED BY <1>3, <2>1
<1>5. ErasureTypeOK'
    BY <1>2, <1>4, ErasureTyping DEF ErasureTypeOK, Request, Pass
<1> QED BY <1>2, <1>3, <1>5, PassAdvances

-----------------------------------------------------------------------------

LEMMA SealPreserved == SealInv /\ [ErasureNext]_erasureVars => SealInv'
<1> SUFFICES ASSUME SealInv, [ErasureNext]_erasureVars PROVE SealInv'
    OBVIOUS
<1> ErasureTypeOK
    BY DEF SealInv
<1>1. CASE UNCHANGED erasureVars
    BY <1>1 DEF erasureVars, SealInv, ErasureTypeOK, Sealed, Busy, Erased
<1>2. CASE Visit \/ Identify \/ OptOutOfMail \/ RecordSignal
    <2>1. UNCHANGED <<graph, queue, purger, past, listed, overtaken, errors>>
        BY <1>2 DEF Visit, Identify, OptOutOfMail, RecordSignal, tableVars
    <2>2. local' \in Keys /\ unsubscribed' \in BOOLEAN /\ signals' \in BOOLEAN
        BY <1>2 DEF Visit, Identify, OptOutOfMail, RecordSignal, tableVars, ErasureTypeOK, Keys
    <2>3. ErasureTypeOK'
        BY <2>1, <2>2 DEF ErasureTypeOK
    <2> QED BY <2>1, <2>3, QueueKept DEF SealInv, Sealed
<1>3. CASE AgeClaims
    BY <1>3, AgingPreserves
<1>4. CASE \E q \in Erasures : CollectKeys(q) \/ Enqueue(q) \/ EnqueueFails(q) \/ DeleteLocal(q)
    BY <1>4, RequestsPreserve
<1>5. CASE \E w \in Purgers : PurgerStep(w)
    BY <1>5, SweepsPreserve
<1>6. ASSUME NEW r \in Resolvers, CheckGraphWrite(r) \/ UpsertGraph(r) \/ DropWrite(r)
      PROVE  SealInv'
    <2>1. /\ UNCHANGED <<local, unsubscribed, signals, queue, purger, listed, overtaken, errors>>
          /\ past' \subseteq past \union {r} /\ graph' \subseteq graph \union {r}
          /\ past' \subseteq past \/ ~listed
          /\ graph' = graph \/ r \in past
        BY <1>6 DEF CheckGraphWrite, UpsertGraph, DropWrite, tableVars
    <2>2. ErasureTypeOK'
        BY <2>1 DEF ErasureTypeOK
    <2>3. (listed => past' \subseteq overtaken) /\ (Sealed => graph' \subseteq overtaken)
        BY <2>1 DEF SealInv, Sealed
    <2> QED BY <2>1, <2>2, <2>3, QueueKept
<1> QED BY <1>1, <1>2, <1>3, <1>4, <1>5, <1>6 DEF ErasureNext

\* An erasure that reads done stays done in the graph, but for resolvers that had
\* looked before the tombstone was there, for any number of requests, of
\* overlapping, failing and dying sweeps and of resolvers (graph_erasure.py).
THEOREM ErasedStayErased == ErasureSpec => []GraphStaysErased
<1>1. SealInv => GraphStaysErased
    BY DEF SealInv, Sealed, GraphStaysErased
<1> QED BY SealInitially, SealPreserved, <1>1, PTL DEF ErasureSpec

-----------------------------------------------------------------------------
(* Analysis: a task between the budget check and the increment has passed the  *)
(* check, so it counts against the budget before it has spent.                *)

\* Tasks between the budget check and the increment.
Spending == {t \in Runs : run[t].at = "spend"}

\* What was started was spent or lost to a Redis error, and what is about to be
\* started passed the check, all but its own unit of it while others were there.
BudgetKept ==
    /\ started <= spent + lapses
    /\ started + Cardinality(Spending) <= Budget + Cardinality(Runs) - 1 + lapses

AnalysisInv == AnalysisTypeOK /\ BudgetKept

\* A task that is not spending is not counted.
LEMMA SpendingCounted ==
    /\ IsFiniteSet(Spending) /\ Cardinality(Spending) \in Nat /\ Cardinality(Runs) \in Nat
    /\ \A t \in Runs : run[t].at # "spend" => Cardinality(Spending) + 1 <= Cardinality(Runs)
<1>1. Spending \subseteq Runs /\ IsFiniteSet(Runs)
    BY AnalysisAssumption DEF Spending
<1>2. IsFiniteSet(Spending) /\ Cardinality(Spending) \in Nat /\ Cardinality(Runs) \in Nat
    BY <1>1, PartCount
<1>3. ASSUME NEW t \in Runs, run[t].at # "spend"
      PROVE  Cardinality(Spending) + 1 <= Cardinality(Runs)
    <2>1. Spending \subseteq Runs \ {t}
        BY <1>3 DEF Spending
    <2> QED BY <2>1, <1>1, OneLessCount
<1> QED BY <1>2, <1>3

\* A day begins with nothing spent.
LEMMA AnalysisInitInv == AnalysisInit => AnalysisInv
<1> SUFFICES ASSUME AnalysisInit
             PROVE  AnalysisInv
    OBVIOUS
<1>1. SomeReplica \in Replicas
    BY AnalysisAssumption DEF SomeReplica
<1>2. AnalysisTypeOK
    BY <1>1, AnalysisAssumption DEF AnalysisInit, AnalysisTypeOK, Unanalysed, AnalysisRow, NoRun, NoPost, NoPut
<1>3. Spending = {}
    BY DEF AnalysisInit, Spending, NoRun
<1>4. Cardinality(Spending) = 0 /\ Cardinality(Runs) \in Nat
    BY <1>3, FS_EmptySet, FS_CardinalityType, AnalysisAssumption
<1>5. BudgetKept
    BY <1>4, AnalysisAssumption DEF AnalysisInit, BudgetKept
<1> QED BY <1>2, <1>5 DEF AnalysisInv

\* Every step keeps the types.
LEMMA AnalysisTypeStep == AnalysisTypeOK /\ [AnalysisNext]_analysisVars => AnalysisTypeOK'
<1> SUFFICES ASSUME AnalysisTypeOK, [AnalysisNext]_analysisVars
             PROVE  AnalysisTypeOK'
    OBVIOUS
<1>0. SomeReplica \in Replicas
    BY AnalysisAssumption DEF SomeReplica
<1> USE AnalysisAssumption DEF AnalysisTypeOK, AnalysisRow, RunGoto, PostGoto
<1>1. CASE AgeRow
    BY <1>1 DEF AgeRow
<1>2. ASSUME NEW r \in Replicas, RestartReplica(r)
      PROVE  AnalysisTypeOK'
    BY <1>0, <1>2 DEF RestartReplica, NoRun, NoPost
<1>3. ASSUME NEW p \in Posts, NEW r \in Replicas, LoadPost(p, r)
      PROVE  AnalysisTypeOK'
    BY <1>3 DEF LoadPost
<1>4. ASSUME NEW p \in Posts, CheckPost(p)
      PROVE  AnalysisTypeOK'
    <2>1. CASE Allowed /\ PostGoto(p, "commit")
        BY <1>4, <2>1 DEF CheckPost, Allowed
    <2>2. CASE post' = [post EXCEPT ![p] = NoPost] /\ UNCHANGED lapses
        BY <1>0, <1>4, <2>2 DEF CheckPost, NoPost
    <2> QED BY <1>4, <2>1, <2>2 DEF CheckPost
<1>5. ASSUME NEW p \in Posts, CommitPost(p)
      PROVE  AnalysisTypeOK'
    <2>1. row' \in AnalysisRow
        <3>1. PICK status \in {"none", "pending", "ready", "failed"} :
                 row' = [row EXCEPT !.status = status, !.ticks = 0]
            BY <1>5 DEF CommitPost
        <3>2. 0 \in 0..(Stale + 1)
            OBVIOUS
        <3> QED BY <3>1, <3>2
    <2>2. post' \in [Posts -> [at : {"off", "budget", "commit", "fire"}, home : Replicas,
                              sawPending : BOOLEAN]]
        BY <1>5 DEF CommitPost
    <2> QED BY <1>5, <2>1, <2>2 DEF CommitPost
<1>6. ASSUME NEW p \in Posts, NEW t \in Runs, FireRun(p, t)
      PROVE  AnalysisTypeOK'
    BY <1>0, <1>6 DEF FireRun, NoRun, NoPost
<1>7. ASSUME NEW t \in Runs, CheckRun(t)
      PROVE  AnalysisTypeOK'
    <2>1. CASE Allowed /\ run' = [run EXCEPT ![t] = [at |-> "spend", home |-> @.home, sawReady |-> row.status = "ready"]] /\ UNCHANGED row
        <3>1. run' \in [Runs -> [at : {"off", "new", "spend", "work", "failing", "done"},
                                home : Replicas, sawReady : BOOLEAN]]
            <4>1. PICK ready \in BOOLEAN : run' = [run EXCEPT ![t] = [at |-> "spend", home |-> @.home, sawReady |-> ready]]
                BY <2>1
            <4> QED BY <4>1
        <3>2. lapses' \in 0..MaxLapses
            BY <2>1 DEF Allowed
        <3> QED BY <1>7, <2>1, <3>1, <3>2 DEF CheckRun
    <2>2. CASE RunGoto(t, "done") /\ row' = [row EXCEPT !.status = "failed"] /\ UNCHANGED lapses
        BY <1>7, <2>2 DEF CheckRun
    <2> QED BY <1>7, <2>1, <2>2 DEF CheckRun
<1>8. ASSUME NEW t \in Runs, SpendRun(t)
      PROVE  AnalysisTypeOK'
    BY <1>8 DEF SpendRun
<1>9. ASSUME NEW t \in Runs, FinishRun(t)
      PROVE  AnalysisTypeOK'
    <2>1. row' \in AnalysisRow
        <3>1. CASE row' = [row EXCEPT !.candidate = TRUE,
                               !.status = IF run[t].sawReady THEN @ ELSE "ready"]
            BY <3>1
        <3> QED BY <1>9, <3>1 DEF FinishRun
    <2>2. run' \in [Runs -> [at : {"off", "new", "spend", "work", "failing", "done"},
                            home : Replicas, sawReady : BOOLEAN]]
        <3>1. PICK step \in {"done", "failing"} : run' = [run EXCEPT ![t].at = step]
            BY <1>9 DEF FinishRun
        <3> QED BY <3>1
    <2> QED BY <1>9, <2>1, <2>2 DEF FinishRun
<1>10. ASSUME NEW t \in Runs, RecordFailure(t)
      PROVE  AnalysisTypeOK'
    BY <1>10 DEF RecordFailure
<1>11. ASSUME NEW t \in Runs, CancelRun(t)
      PROVE  AnalysisTypeOK'
    BY <1>11 DEF CancelRun
<1>12. ASSUME NEW t \in Runs, RunDone(t)
      PROVE  AnalysisTypeOK'
    BY <1>0, <1>12 DEF RunDone, NoRun
<1>13. ASSUME NEW p \in Puts, LoadPut(p)
      PROVE  AnalysisTypeOK'
    BY <1>13 DEF LoadPut
<1>14. ASSUME NEW p \in Puts, DismissPut(p)
      PROVE  AnalysisTypeOK'
    <2>1. put[p].loaded \in AnalysisRow
        OBVIOUS
    <2>2. ClearedBy(put[p].loaded) \in AnalysisRow
        BY <2>1 DEF ClearedBy
    <2>3. row' \in AnalysisRow
        BY <1>14, <2>2 DEF DismissPut
    <2>4. NoPut \in [at : {"off", "loaded"}, loaded : AnalysisRow]
        BY DEF NoPut, Unanalysed
    <2>5. put' \in [Puts -> [at : {"off", "loaded"}, loaded : AnalysisRow]]
        BY <1>14, <2>4 DEF DismissPut
    <2> QED BY <1>14, <2>3, <2>5 DEF DismissPut
<1>15. ASSUME NEW p \in Puts, PromotePut(p)
      PROVE  AnalysisTypeOK'
    <2>1. put[p].loaded \in AnalysisRow
        OBVIOUS
    <2>2. ClearedBy(put[p].loaded) \in AnalysisRow
        BY <2>1 DEF ClearedBy
    <2>3. row' \in AnalysisRow
        BY <1>15, <2>2 DEF PromotePut
    <2>4. NoPut \in [at : {"off", "loaded"}, loaded : AnalysisRow]
        BY DEF NoPut, Unanalysed
    <2>5. put' \in [Puts -> [at : {"off", "loaded"}, loaded : AnalysisRow]]
        BY <1>15, <2>4 DEF PromotePut
    <2> QED BY <1>15, <2>3, <2>5 DEF PromotePut
<1>16. CASE UNCHANGED analysisVars
    BY <1>16 DEF analysisVars
<1> QED BY <1>1, <1>2, <1>3, <1>4, <1>5, <1>6, <1>7, <1>8, <1>9, <1>10, <1>11, <1>12, <1>13, <1>14,
           <1>15, <1>16 DEF AnalysisNext, RunStep

\* No step takes an analysis past the budget unaccounted for.
LEMMA BudgetStep == AnalysisInv /\ [AnalysisNext]_analysisVars => BudgetKept'
<1> SUFFICES ASSUME AnalysisInv, [AnalysisNext]_analysisVars
             PROVE  BudgetKept'
    OBVIOUS
<1>0. IsFiniteSet(Spending) /\ Cardinality(Spending) \in Nat /\ Cardinality(Runs) \in Nat
    BY AnalysisAssumption, SpendingCounted
<1>a. started \in Nat /\ spent \in Nat /\ lapses \in Nat /\ Budget \in Nat
    BY AnalysisAssumption DEF AnalysisInv, AnalysisTypeOK
<1>b. ASSUME Spending' \subseteq Spending, UNCHANGED <<spent, started>>, lapses' \in {lapses, lapses + 1}
      PROVE  BudgetKept'
    <2>1. Cardinality(Spending') \in Nat /\ Cardinality(Spending') <= Cardinality(Spending)
        BY <1>b, <1>0, PartCount
    <2>2. spent' = spent /\ started' = started /\ (lapses' = lapses \/ lapses' = lapses + 1)
        BY <1>b
    <2>3. started <= spent + lapses /\ started + Cardinality(Spending) <= Budget + Cardinality(Runs) - 1 + lapses
        BY DEF AnalysisInv, BudgetKept
    <2> HIDE DEF Spending
    <2> QED BY <2>1, <2>2, <2>3, <1>0, <1>a DEF BudgetKept
<1> USE DEF Spending
<1>1. CASE AgeRow
    BY <1>1, <1>b DEF AgeRow
<1>2. ASSUME NEW r \in Replicas, RestartReplica(r)
      PROVE  BudgetKept'
    BY <1>2, <1>b DEF RestartReplica, NoRun
<1>3. ASSUME NEW p \in Posts, NEW r \in Replicas, LoadPost(p, r)
      PROVE  BudgetKept'
    BY <1>3, <1>b DEF LoadPost
<1>4. ASSUME NEW p \in Posts, CheckPost(p)
      PROVE  BudgetKept'
    BY <1>4, <1>b DEF CheckPost, Allowed
<1>5. ASSUME NEW p \in Posts, CommitPost(p)
      PROVE  BudgetKept'
    BY <1>5, <1>b DEF CommitPost
<1>6. ASSUME NEW p \in Posts, NEW t \in Runs, FireRun(p, t)
      PROVE  BudgetKept'
    BY <1>6, <1>b DEF FireRun, NoRun, AnalysisInv, AnalysisTypeOK
<1>7. ASSUME NEW t \in Runs, CheckRun(t)
      PROVE  BudgetKept'
    <2>1. CASE Allowed /\ run' = [run EXCEPT ![t] = [at |-> "spend", home |-> @.home, sawReady |-> row.status = "ready"]]
        <3>1. Spending' = Spending \union {t}
            BY <2>1 DEF AnalysisInv, AnalysisTypeOK
        <3>2. Cardinality(Spending') \in Nat /\ Cardinality(Spending') <= Cardinality(Spending) + 1
            BY <3>1, <1>0, OneMoreCount
        <3>3. Cardinality(Spending) + 1 <= Cardinality(Runs)
            BY <1>7, <1>0, SpendingCounted DEF CheckRun
        <3>4. spent' = spent /\ started' = started
            BY <1>7 DEF CheckRun
        <3> HIDE DEF Spending
        <3>5. (spent < Budget /\ lapses' = lapses) \/ lapses' = lapses + 1
            BY <2>1 DEF Allowed
        <3> QED BY <3>2, <3>3, <3>4, <3>5, <1>0, <1>a DEF AnalysisInv, BudgetKept
    <2>2. CASE RunGoto(t, "done") /\ UNCHANGED lapses
        BY <1>7, <2>2, <1>b DEF CheckRun, RunGoto, AnalysisInv, AnalysisTypeOK
    <2> QED BY <1>7, <2>1, <2>2 DEF CheckRun
<1>8. ASSUME NEW t \in Runs, SpendRun(t)
      PROVE  BudgetKept'
    <2>1. Spending' = Spending \ {t} /\ t \in Spending
        BY <1>8 DEF SpendRun, RunGoto, AnalysisInv, AnalysisTypeOK
    <2>2. Cardinality(Spending') \in Nat /\ Cardinality(Spending') + 1 <= Cardinality(Spending)
        BY <2>1, <1>0, OneLessCount
    <2>3. /\ started' = started + 1
          /\ (spent' = spent + 1 /\ lapses' = lapses) \/ (spent' = spent /\ lapses' = lapses + 1)
        BY <1>8 DEF SpendRun
    <2> HIDE DEF Spending
    <2> QED BY <2>2, <2>3, <1>0, <1>a DEF AnalysisInv, BudgetKept
<1>9. ASSUME NEW t \in Runs, FinishRun(t) \/ RecordFailure(t) \/ CancelRun(t) \/ RunDone(t)
      PROVE  BudgetKept'
    BY <1>9, <1>b DEF FinishRun, RecordFailure, CancelRun, RunDone, RunGoto, NoRun, AnalysisInv, AnalysisTypeOK
<1>10. ASSUME NEW p \in Puts, LoadPut(p) \/ DismissPut(p) \/ PromotePut(p)
      PROVE  BudgetKept'
    BY <1>10, <1>b DEF LoadPut, DismissPut, PromotePut
<1>11. CASE UNCHANGED analysisVars
    BY <1>11, <1>b DEF analysisVars
<1> QED BY <1>1, <1>2, <1>3, <1>4, <1>5, <1>6, <1>7, <1>8, <1>9, <1>10, <1>11 DEF AnalysisNext, RunStep

\* The inductive invariant of the budget: a task past the check is counted although
\* it has not spent its unit yet (services/usage_limits.py).
THEOREM AnalysisInvariance == AnalysisSpec => []AnalysisInv
<1>1. AnalysisInv /\ [AnalysisNext]_analysisVars => AnalysisInv'
    BY AnalysisTypeStep, BudgetStep DEF AnalysisInv
<1> QED BY <1>1, AnalysisInitInv, PTL DEF AnalysisSpec

\* A day's analyses go past the budget by the tasks that overlapped and the Redis
\* errors, and no further, for any budget and any number of tasks and requests.
THEOREM BudgetHolds == AnalysisSpec => []RunsBudgeted
<1>1. AnalysisInv => RunsBudgeted
    <2> SUFFICES ASSUME AnalysisInv PROVE RunsBudgeted
        OBVIOUS
    <2>1. Cardinality(Spending) \in Nat /\ Cardinality(Runs) \in Nat
        BY AnalysisAssumption, SpendingCounted
    <2> QED BY <2>1, AnalysisAssumption DEF AnalysisInv, AnalysisTypeOK, BudgetKept, RunsBudgeted
<1> QED BY <1>1, AnalysisInvariance, PTL

-----------------------------------------------------------------------------
(* The composition *)

\* What is left out of a part's behaviour is left alone.
LEMMA SitesParts ==
    [Next]_sitesVars =>
       /\ [InactivityNext]_inactivityVars /\ [SiteNext]_siteVars
       /\ [AnalysisNext]_analysisVars /\ [ErasureNext]_erasureVars
    BY DEF Next, sitesVars

\* The parts stay well typed together, for any number of actors in each: TypeOK.
THEOREM AllSitesTyped == FairSpec => []TypeOK
<1> DEFINE Inv == InactivityInv /\ SiteTypeOK /\ AnalysisInv /\ SealInv
<1>1. Init => Inv
    BY InactivityInitInv, SitesInitTyped, AnalysisInitInv, SealInitially DEF Init
<1>2. Inv /\ [Next]_sitesVars => Inv'
    <2>1. AnalysisInv /\ [AnalysisNext]_analysisVars => AnalysisInv'
        BY AnalysisTypeStep, BudgetStep DEF AnalysisInv
    <2> QED BY <2>1, SitesParts, InactivityStepInv, SitesStayTyped, SealPreserved
<1>3. Inv => TypeOK
    BY DEF TypeOK, InactivityInv, AnalysisInv, SealInv
<1> HIDE DEF Inv
<1> QED BY <1>1, <1>2, <1>3, PTL DEF FairSpec
=============================================================================
