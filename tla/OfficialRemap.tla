---------------------------- MODULE OfficialRemap ----------------------------
(***************************************************************************)
(* A remap run moves what one licensee of a source lists in its register   *)
(* from the sites of the operator it had to the sites of the operator it   *)
(* gets (features/official/import/remap).  The module has the rows that    *)
(* the transaction reads and writes, the plan (plan.ts) and its            *)
(* application (apply.ts), and lets the run be attempted again, as it is   *)
(* when its worker dies before the first after-step.                       *)
(*                                                                         *)
(* Only rows of the source of the run are here: every query has the source *)
(* in its condition.  Antenna sectors of merged permits, the counters of   *)
(* the report and the brand of the licensee (LicenseeMapping) are left     *)
(* out.                                                                    *)
(***************************************************************************)
EXTENDS Integers, FiniteSets, FiniteSetsExt

CONSTANTS
    SiteIds,      \* ids of the sites that exist before the run, naturals
    PermitIds,    \* ids of the permits
    Datasets,
    Operators,
    Codes,        \* site codes of the register
    Values,       \* what makes two permits of a site equal (valuesKey)
    Licensee,     \* the licensee of the run
    Others,       \* other licensees of the source
    Null,         \* no site code, no licensee, no operator
    SiteChoices,  \* the rows a site may be before the run
    ListedBy,     \* who may list a permit, or Null
    Watched,      \* sets of sites that may be watched, listed and linked
    Mappings,     \* the operators that the licensees may have before the run
    Targets,      \* operators the run may map the licensee to, or Null
    MaxAttempts   \* bound: attempts of the run

SiteRow == [code : Codes \cup {Null}, ref : BOOLEAN, operator : Operators]

\* The ids are positive and there is a last one.
RemapAssumption == /\ SiteIds \subseteq Nat \ {0}
                   /\ \E last \in SiteIds : \A s \in SiteIds : s <= last
                   /\ Null \notin Codes \cup Others \cup Operators \cup {Licensee}
                   /\ Licensee \notin Others
                   /\ SiteChoices \subseteq SiteRow
                   /\ ListedBy \subseteq Others \cup {Licensee, Null}
                   /\ Targets \subseteq Operators \cup {Null}
                   /\ \A map \in Mappings : map \in [Others \cup {Licensee} -> Operators \cup {Null}] /\ map[Licensee] # Null

VARIABLES
    sites,      \* official.sites: id -> code, own reference, operator
    permits,    \* official.permits: id -> site and values
    listings,   \* official.permit_listings: permit, dataset, licensee
    follows,    \* watches and saved lists that name a site
    notices,    \* notifications about a site, read or unread
    links,      \* sites that are linked to a station
    operatorOf, \* official.licensees: the operator of each
    to,         \* remap_runs: the operator to map to
    attempt,    \* attempts that have applied the remap
    state,      \* "running" or "failed"
    changes,    \* the change set of the last attempt
    before      \* the rows before the first attempt

tables == <<sites, permits, listings, follows, notices, links, operatorOf>>
vars == <<tables, to, attempt, state, changes, before>>

\* The site that a split creates has an id of its own.
SplitId(s) == s + Max(SiteIds)

AllSites == SiteIds \cup {SplitId(s) : s \in SiteIds}

(***************************************************************************)
(* What the unique indexes and checks of the tables keep.                  *)
(***************************************************************************)
SiteHasName(t) == \A s \in DOMAIN t : t[s].code # Null \/ t[s].ref

OneSitePerCodeAndOperator(t) ==
    \A r, s \in DOMAIN t :
        r # s /\ ~t[r].ref /\ ~t[s].ref => <<t[r].code, t[r].operator>> # <<t[s].code, t[s].operator>>

OnePermitPerValues(t) == \A p, q \in DOMAIN t : p # q => t[p] # t[q]

OneListingPerDataset(t) ==
    \A l, k \in t : l.permit = k.permit /\ l.dataset = k.dataset => l = k

(***************************************************************************)
(* What the run reads.                                                     *)
(***************************************************************************)
PermitsOf(s) == {p \in DOMAIN permits : permits[p].site = s}
ListingsOf(p) == {l \in listings : l.permit = p}

\* readSitesListedUnder
ListedSites == {permits[l.permit].site : l \in {k \in listings : k.licensee = Licensee}}

\* readTargets: the site of the new operator with the code of a listed one
TargetsOf(s) ==
    {t \in DOMAIN sites : /\ sites[t].operator = to
                          /\ ~sites[t].ref
                          /\ sites[t].code # Null
                          /\ sites[t].code = sites[s].code}

(***************************************************************************)
(* The plan.  A permit moves if every listing of it names the licensee or  *)
(* an operator that is the new one; a listing without a licensee names the *)
(* operator of the site.                                                   *)
(***************************************************************************)
NamedOperator(l, s) == IF l.licensee = Null THEN sites[s].operator ELSE operatorOf[l.licensee]

FollowsTheLicensee(p, s) ==
    \A l \in ListingsOf(p) : l.licensee = Licensee \/ NamedOperator(l, s) = to

Moving(s) ==
    {p \in PermitsOf(s) : /\ \E l \in ListingsOf(p) : l.licensee = Licensee
                          /\ FollowsTheLicensee(p, s)}

EveryPermitMoves(s) == Moving(s) = PermitsOf(s)

\* The sites that lose a permit or change their operator.
Leaving == {s \in ListedSites : sites[s].operator # to /\ Moving(s) # {}}

\* A site that the register names by an id of its own is never split or merged.
HasOwnName(s) == sites[s].ref \/ sites[s].code = Null

Rekeyed == {s \in Leaving : EveryPermitMoves(s) /\ (HasOwnName(s) \/ TargetsOf(s) = {})}

Split == {s \in Leaving : ~HasOwnName(s) /\ ~EveryPermitMoves(s) /\ TargetsOf(s) = {}}

Joining == {s \in Leaving : ~HasOwnName(s) /\ TargetsOf(s) # {}}

TargetOf(s) == CHOOSE t \in TargetsOf(s) : TRUE

EqualPermits(p) ==
    {q \in PermitsOf(TargetOf(permits[p].site)) : permits[q].values = permits[p].values}

MovingOnto == UNION {Moving(s) : s \in Joining}
Merged == {p \in MovingOnto : EqualPermits(p) # {}}
MergedInto(p) == CHOOSE q \in EqualPermits(p) : TRUE
Emptied == {s \in Joining : EveryPermitMoves(s)}

\* Two sites of different operators would become one site.
Ambiguous ==
    \E r, s \in Leaving :
        r # s /\ ~HasOwnName(r) /\ ~HasOwnName(s) /\ sites[r].code = sites[s].code

(***************************************************************************)
(* The application of the plan to the rows.                                *)
(***************************************************************************)
\* rekeySites, createSplitSites and the deletion of the emptied sites
SitesAfter ==
    [s \in (DOMAIN sites \ Emptied) \cup {SplitId(r) : r \in Split} |->
        IF s \in DOMAIN sites
        THEN IF s \in Rekeyed THEN [sites[s] EXCEPT !.operator = to] ELSE sites[s]
        ELSE [sites[CHOOSE r \in Split : SplitId(r) = s] EXCEPT !.operator = to]]

\* movePermits and the deletion of the merged ones
NewSiteOf(p) ==
    LET s == permits[p].site
    IN  CASE p \in MovingOnto -> TargetOf(s)
          [] s \in Split /\ p \in Moving(s) -> SplitId(s)
          [] OTHER -> s

PermitsAfter ==
    [p \in DOMAIN permits \ Merged |-> [permits[p] EXCEPT !.site = NewSiteOf(p)]]

\* Mutant: the listings of a merged permit go with it.
ListingsAfterDropped == {l \in listings : l.permit \notin Merged}

\* mergePermits: the listings go to the equal permit, where their dataset does not list it
ListingsAfter ==
    {l \in listings : l.permit \notin Merged}
        \cup {[l EXCEPT !.permit = MergedInto(l.permit)] :
                l \in {k \in listings : /\ k.permit \in Merged
                                        /\ \A h \in ListingsOf(MergedInto(k.permit)) : h.dataset # k.dataset}}

\* Watches and lists of an emptied site name the site it was merged into.
Repointed == (follows \ Emptied) \cup {TargetOf(s) : s \in follows \cap Emptied}

\* A notification is repointed unless it is unread and the other site has an unread one.
NoticesAfter ==
    LET goes(n) == n.read \/ [site |-> TargetOf(n.site), read |-> FALSE] \notin notices
    IN  {n \in notices : n.site \notin Emptied}
            \cup {[n EXCEPT !.site = TargetOf(n.site)] :
                    n \in {m \in notices : m.site \in Emptied /\ goes(m)}}

\* A row of the change set, or a site whose time of change is set ("touched").
Change(kind, s) == [kind |-> kind, site |-> s]

Touched == Rekeyed \cup {TargetOf(s) : s \in Joining} \cup {s \in Split \cup Joining : ~EveryPermitMoves(s)}

MoveChanges ==
    {Change("site_remapped", s) : s \in Rekeyed}
        \cup {Change("site_remapped", TargetOf(s)) : s \in Joining}
        \cup UNION {{Change("site_added", SplitId(s)), Change("site_remapped", SplitId(s))} : s \in Split}
        \cup {Change("permit_moved_out", permits[p].site) : p \in MovingOnto \cup UNION {Moving(s) : s \in Split}}
        \cup {Change("permit_moved_in", NewSiteOf(p)) : p \in (MovingOnto \ Merged) \cup UNION {Moving(s) : s \in Split}}
        \cup {Change("station_unlinked", s) : s \in links \cap Emptied}
        \cup {Change("touched", s) : s \in Touched}

MoveToOperator ==
    /\ ~Ambiguous
    /\ sites' = SitesAfter
    /\ permits' = PermitsAfter
    /\ listings' = ListingsAfter
    /\ follows' = Repointed
    /\ notices' = NoticesAfter
    /\ links' = links \ Emptied
    /\ changes' = MoveChanges
    /\ UNCHANGED state

\* planRemap throws: the transaction is undone and the run fails.
FailAmbiguous ==
    /\ Ambiguous
    /\ state' = "failed"
    /\ changes' = {}
    /\ UNCHANGED tables

Unlisted == {l \in listings : l.licensee = Licensee}

\* planUnlisting and unlist: the licensee loses its operator, and nothing moves.
Unlist ==
    /\ listings' = listings \ Unlisted
    /\ changes' = {Change("permit_unlisted", permits[l.permit].site) : l \in Unlisted}
                    \cup {Change("touched", permits[l.permit].site) :
                            l \in {k \in Unlisted : ListingsOf(k.permit) \subseteq Unlisted}}
    /\ UNCHANGED <<sites, permits, follows, notices, links, state>>

-----------------------------------------------------------------------------
\* remapLicensee; the operator of the licensee is the one it leaves or the one it takes.
Attempt ==
    /\ state = "running"
    /\ attempt < MaxAttempts
    /\ attempt' = attempt + 1
    /\ \/ to = Null /\ Unlist /\ operatorOf' = [operatorOf EXCEPT ![Licensee] = Null]
       \/ to # Null /\ MoveToOperator /\ operatorOf' = [operatorOf EXCEPT ![Licensee] = to]
       \/ to # Null /\ FailAmbiguous
    /\ UNCHANGED <<to, before>>

Done ==
    /\ state = "failed" \/ attempt = MaxAttempts
    /\ UNCHANGED vars

Next == Attempt \/ Done

\* Any rows that the constraints of the tables allow.
SitesBefore ==
    /\ sites \in UNION {[ids -> SiteChoices] : ids \in (SUBSET SiteIds) \ {{}}}
    /\ SiteHasName(sites) /\ OneSitePerCodeAndOperator(sites)

PermitsBefore ==
    /\ permits \in [PermitIds -> [site : DOMAIN sites, values : Values]]
    /\ OnePermitPerValues(permits)

ListingsBefore ==
    \E by \in [PermitIds \X Datasets -> ListedBy \cup {"unlisted"}] :
        listings = {[permit |-> x[1], dataset |-> x[2], licensee |-> by[x]] :
                        x \in {y \in DOMAIN by : by[y] # "unlisted"}}

FollowedBefore ==
    \E w \in Watched :
        /\ follows = w \cap DOMAIN sites
        /\ links = w \cap DOMAIN sites
        /\ notices = {[site |-> s, read |-> s \notin w] : s \in DOMAIN sites}

Init ==
    /\ SitesBefore
    /\ PermitsBefore
    /\ ListingsBefore
    /\ FollowedBefore
    /\ operatorOf \in Mappings
    /\ to \in Targets \ {operatorOf[Licensee]}
    /\ attempt = 0
    /\ state = "running"
    /\ changes = {}
    /\ before = [sites |-> sites, permits |-> permits, listings |-> listings, follows |-> follows]

Spec == Init /\ [][Next]_vars

-----------------------------------------------------------------------------
(***************************************************************************)
(* What is to hold.                                                        *)
(***************************************************************************)
\* Rows refer to rows that exist, and no unique index is violated by an attempt (the indexes of
\* official.sites, official.permits and official.permit_listings).
RowsFitTogether ==
    /\ DOMAIN sites \subseteq AllSites /\ \A s \in DOMAIN sites : sites[s] \in SiteRow
    /\ SiteHasName(sites) /\ OneSitePerCodeAndOperator(sites)
    /\ \A p \in DOMAIN permits : permits[p].site \in DOMAIN sites
    /\ OnePermitPerValues(permits)
    /\ \A l \in listings : l.permit \in DOMAIN permits
    /\ OneListingPerDataset(listings)
    /\ follows \cup links \cup {n.site : n \in notices} \subseteq DOMAIN sites

\* What the rows before the run say of a permit: who lists it decides where it belongs.
BelongsToNew(p) ==
    LET s == before.permits[p].site
        of == {l \in before.listings : l.permit = p}
        named(l) == IF l.licensee = Null THEN before.sites[s].operator ELSE operatorOf[l.licensee]
    IN  /\ \E l \in of : l.licensee = Licensee
        /\ \A l \in of : named(l) = to

\* A site with a name of its own goes as a whole or not at all.
GoesAlong(p) ==
    LET s == before.permits[p].site
    IN  before.sites[s].ref =>
            \A q \in PermitIds : before.permits[q].site = s => BelongsToNew(q)

Keeps(p, s) == permits[p] = [site |-> s, values |-> before.permits[p].values]

\* The site of a permit now: its own, or the one of the equal permit it was merged with.
NowOn(p, s) ==
    \E q \in DOMAIN permits :
        /\ permits[q] = [site |-> s, values |-> before.permits[p].values]
        /\ q = p \/ p \notin DOMAIN permits

\* After the remap a permit is on a site of the new operator, with the code it had, exactly if all that
\* list it go to this operator; every other permit is where it was (planRemap against what it is for).
PermitsFollowTheLicensee ==
    attempt > 0 /\ state = "running" /\ to # Null =>
        \A p \in PermitIds :
            LET old == before.permits[p].site
            IN  IF before.sites[old].operator # to /\ BelongsToNew(p) /\ GoesAlong(p)
                THEN \E s \in DOMAIN sites :
                        /\ NowOn(p, s)
                        /\ sites[s].operator = to /\ sites[s].code = before.sites[old].code
                ELSE /\ p \in DOMAIN permits /\ Keeps(p, old)
                     /\ sites[old] = before.sites[old]

\* No dataset that listed a permit stops listing it, or the permit it was merged with; only a licensee
\* that loses its operator loses its own listings, and no other (mergePermits, removeListings).
NoListingLost ==
    attempt > 0 =>
        \A l \in before.listings :
            IF to = Null
            THEN l \in listings <=> l.licensee # Licensee
            ELSE \E k \in listings :
                    /\ k.dataset = l.dataset
                    /\ permits[k.permit].values = before.permits[l.permit].values
                    /\ sites[permits[k.permit].site].code = before.sites[before.permits[l.permit].site].code
                    /\ k.permit = l.permit \/ l.permit \notin DOMAIN permits

\* A site that had permits is not left behind without any, and who watched it or has it in a list finds
\* the site its permits went to (unlinkEmptiedSites, repointEmptiedSites).
NoGhostSites ==
    attempt > 0 =>
        \A s \in DOMAIN before.sites :
            LET had == {p \in PermitIds : before.permits[p].site = s}
            IN  had # {} =>
                    /\ s \in DOMAIN sites => PermitsOf(s) # {}
                    /\ s \in before.follows =>
                        \E t \in follows \cap DOMAIN sites : t = s \/ \A p \in had : NowOn(p, t)

\* A later attempt finds the remap applied and writes nothing again.
AppliedOnce ==
    [][attempt > 0 => UNCHANGED tables /\ changes' = {}]_<<tables, attempt, state>>
=============================================================================
