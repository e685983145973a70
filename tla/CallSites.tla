----------------------------- MODULE CallSites -----------------------------
(***************************************************************************)
(* internal/callsite/callsite.go: the process-wide cache from a return     *)
(* address to its call site.  Lookups do not lock: the table is a sync.Map, *)
(* the number of retained sites an atomic counter that is raised before    *)
(* the site is stored and lowered again if it is not.                      *)
(***************************************************************************)
EXTENDS Integers, FiniteSets

CONSTANTS Lookers,     \* goroutines that log with the caller recorded
          PCs,         \* return addresses; 0 is "no frame"
          Unplaced,    \* those the runtime cannot place
          MaxSites,    \* maxSites
          MaxLookups   \* bound: calls of Lookup

ASSUME CallSitesAssumption == MaxSites \in Nat /\ MaxLookups \in Nat /\ 0 \notin PCs

VARIABLES sites,     \* the retained sites, by return address
          retained,
          rendered,  \* per site: who rendered its member first
          look,      \* per goroutine: where it is, its address, its site, the member it got
          lookups

siteVars == <<sites, retained, rendered, look, lookups>>

Unknown == [pc |-> 0, no |-> 0]   \* the zero Site
NoMember == "nil"

SitesInit ==
    /\ sites = <<>> /\ retained = 0 /\ rendered = <<>>
    /\ look = [t \in Lookers |-> [at |-> "idle", pc |-> 0, site |-> Unknown, kept |-> FALSE,
                                  member |-> NoMember]]
    /\ lookups = 0

Sees(t, at, site) == look' = [look EXCEPT ![t].at = at, ![t].site = site]

\* Lookup: no address, a retained one, or one to resolve.
LookupPC(t) ==
    /\ look[t].at = "idle" /\ lookups < MaxLookups
    /\ lookups' = lookups + 1
    /\ \E pc \in PCs \union {0} :
          look' = [look EXCEPT ![t] =
             IF pc = 0 THEN [at |-> "found", pc |-> pc, site |-> Unknown, kept |-> FALSE, member |-> NoMember]
             ELSE IF pc \in DOMAIN sites
             THEN [at |-> "found", pc |-> pc, site |-> sites[pc], kept |-> TRUE, member |-> NoMember]
             \* the site it allocates is told apart by the number of the call
             ELSE [at |-> "count", pc |-> pc, kept |-> FALSE, member |-> NoMember,
                   site |-> IF pc \in Unplaced THEN Unknown ELSE [pc |-> pc, no |-> lookups']]]
    /\ UNCHANGED <<sites, retained, rendered>>

\* resolve: the counter is raised ...
CountSite(t) ==
    /\ look[t].at = "count"
    /\ retained' = retained + 1
    /\ Sees(t, IF retained' > MaxSites THEN "refused" ELSE "store", look[t].site)
    /\ UNCHANGED <<sites, rendered, lookups>>

\* ... and lowered if there are too many: the site is used but not retained.
RefuseSite(t) ==
    /\ look[t].at = "refused"
    /\ retained' = retained - 1
    /\ Sees(t, "found", look[t].site)
    /\ UNCHANGED <<sites, rendered, lookups>>

\* LoadOrStore: the site of whoever was first is everybody's.
StoreSite(t) ==
    /\ look[t].at = "store"
    /\ IF look[t].pc \in DOMAIN sites
       THEN Sees(t, "lost", sites[look[t].pc]) /\ UNCHANGED sites
       ELSE /\ sites' = [pc \in DOMAIN sites \union {look[t].pc} |->
                           IF pc = look[t].pc THEN look[t].site ELSE sites[pc]]
            /\ look' = [look EXCEPT ![t].at = "found", ![t].kept = TRUE]
    /\ UNCHANGED <<retained, rendered, lookups>>

\* Mutant: the one that lost does not give its place back.
UndoNothing(t) ==
    /\ look[t].at = "lost"
    /\ look' = [look EXCEPT ![t].at = "found", ![t].kept = TRUE]
    /\ UNCHANGED <<sites, retained, rendered, lookups>>

UndoCount(t) ==
    /\ look[t].at = "lost"
    /\ retained' = retained - 1
    /\ look' = [look EXCEPT ![t].at = "found", ![t].kept = TRUE]
    /\ UNCHANGED <<sites, rendered, lookups>>

\* Member: nothing for the zero Site, the rendering if there is one, else its own.
MemberLoad(t) ==
    LET s == look[t].site
    IN  /\ look[t].at = "found"
        /\ look' = [look EXCEPT ![t].at = IF s = Unknown \/ s \in DOMAIN rendered THEN "idle" ELSE "render",
                                ![t].member = IF s \in DOMAIN rendered THEN rendered[s] ELSE NoMember]
        /\ UNCHANGED <<sites, retained, rendered, lookups>>

\* The compare-and-swap of an unset member, and the load after it.
MemberPublish(t) ==
    LET s == look[t].site
        all == IF s \in DOMAIN rendered THEN rendered
               ELSE [x \in DOMAIN rendered \union {s} |-> IF x = s THEN t ELSE rendered[x]]
    IN  /\ look[t].at = "render"
        /\ rendered' = all
        /\ look' = [look EXCEPT ![t].at = "idle", ![t].member = all[s]]
        /\ UNCHANGED <<sites, retained, lookups>>

SitesNext ==
    \E t \in Lookers :
       \/ LookupPC(t) \/ CountSite(t) \/ RefuseSite(t) \/ StoreSite(t) \/ UndoCount(t)
       \/ MemberLoad(t) \/ MemberPublish(t)

-----------------------------------------------------------------------------
\* However lookups of the same or of different addresses overlap, the counter is
\* the number of retained sites and of the places raised and not yet used or given
\* back; at most MaxSites are retained; every lookup of a retained address that was
\* not refused has the one retained site, of that address, and every use of a
\* site's member the one that was published first (callsite.go Lookup, resolve,
\* Member).
SitesShared ==
    LET raised == {t \in Lookers : look[t].at \in {"refused", "store", "lost"}}
    IN  /\ retained = Cardinality(DOMAIN sites) + Cardinality(raised)
        /\ Cardinality(DOMAIN sites) <= MaxSites
        /\ \A t \in Lookers :
              /\ look[t].kept => look[t].pc \in DOMAIN sites /\ look[t].site = sites[look[t].pc]
              /\ look[t].site # Unknown => look[t].site.pc = look[t].pc
              /\ look[t].member # NoMember => look[t].member = rendered[look[t].site]
=============================================================================
