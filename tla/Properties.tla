----------------------------- MODULE Properties -----------------------------
(***************************************************************************)
(* The Search Console properties of one Google account and one website:    *)
(* what discovery (api/hub/services/discovery.py, client.py) keeps of      *)
(* them, how they are matched with the website (matching.py), and when one *)
(* that is linked (routes/properties.py) proves ownership (the view and    *)
(* app.property_covers_url of 0010_ownership.sql).  A host is the sequence *)
(* of its labels from the right: a parent domain is a prefix of it.        *)
(***************************************************************************)
EXTENDS Integers, SequencesExt

CONSTANTS
    Sites,              \* properties: [domain : BOOLEAN, secure : BOOLEAN, host, root : BOOLEAN]
    CanonicalHost, CanonicalSecure,     \* of websites.canonical_url: an origin, https or http
    Permissions,        \* the levels Google gives, an unknown one among them
    OwnerLevels,        \* those that may prove ownership
    MaxShifts, MaxDiscoveries   \* changes at Google and discoveries there are (bounds)

Www == "www"
NoLevel == "unknown"    \* permissionLevel is missing: null in the row
NoSite == [domain |-> FALSE, secure |-> FALSE, host |-> << >>, root |-> FALSE]
NoList == [s \in {} |-> NoLevel]

ASSUME PropertiesAssumption ==
    /\ OwnerLevels \subseteq Permissions /\ NoLevel \in Permissions \ OwnerLevels
    /\ NoSite \notin Sites /\ {MaxShifts, MaxDiscoveries} \subseteq Nat
    /\ CanonicalHost \in Seq(STRING) /\ \A s \in Sites : s.host \in Seq(STRING)

VARIABLES
    levels,         \* at Google: the account's permission for each property it lists
    shifts, discoveries,
    discovering, listing,   \* a discovery is under way, and what Google listed for it
    rows,           \* connection_properties: permission_level
    connected,      \* connections.revoked_at is null
    linked,         \* the property of the active link
    ownership,      \* websites.ownership_property_id
    flagged         \* history: properties that were shown as proving ownership

propertiesVars == <<levels, shifts, discoveries, discovering, listing, rows,
                    connected, linked, ownership, flagged>>

-----------------------------------------------------------------------------
(* Matching.                                                                *)

Bare(host) == IF host # <<>> /\ Last(host) = Www THEN Front(host) ELSE host

\* websites.domain is the canonical host without www.
Domain == Bare(CanonicalHost)

Under(host, domain) == IsStrictPrefix(domain, host)

\* MatchQuality: none, a related host, this host, every host of the domain.
Quality(site) ==
    IF site.domain
    THEN IF Domain = site.host \/ Under(Domain, site.host) THEN 3 ELSE 0
    ELSE IF Bare(site.host) = Domain THEN 2
    ELSE IF Under(site.host, Domain) THEN 1 ELSE 0

ProvesOwnership(site, level) == Quality(site) >= 2 /\ level \in OwnerLevels

\* What the wizard shows as proving it, of the rows there are.
Shown(kept) == {s \in DOMAIN kept : ProvesOwnership(s, kept[s])}

\* A domain property of the www host: its hosts are compared with a domain without www.
OfTheWwwHost(site) == site.domain /\ site.host # Bare(site.host)

-----------------------------------------------------------------------------
(* Coverage, in SQL.                                                        *)

Covers(site) ==
    IF site.domain THEN CanonicalHost = site.host \/ Under(CanonicalHost, site.host)
    ELSE site.secure = CanonicalSecure /\ site.host = CanonicalHost /\ site.root

\* MUTANT: a permission that is not known is not found insufficient.
Sufficient_Unknown(site, level) == level \in OwnerLevels \cup {NoLevel} /\ Covers(site)

Sufficient(site, level) == level \in OwnerLevels /\ Covers(site)

-----------------------------------------------------------------------------
PropertiesInit ==
    /\ levels \in [Sites -> Permissions]
    /\ shifts = 0 /\ discoveries = 0
    /\ discovering = FALSE /\ listing = NoList
    /\ rows = NoList /\ connected = FALSE
    /\ linked = NoSite /\ ownership = NoSite /\ flagged = {}

\* Somebody is given a permission at Google, or loses one, or the property.
Shift(site) ==
    /\ shifts < MaxShifts /\ shifts' = shifts + 1
    /\ \/ \E level \in Permissions :
              levels' = [s \in DOMAIN levels \cup {site} |-> IF s = site THEN level ELSE levels[s]]
       \/ levels' = [s \in DOMAIN levels \ {site} |-> levels[s]]
    /\ levels' # levels
    /\ UNCHANGED <<discoveries, discovering, listing, rows, connected, linked, ownership, flagged>>

\* The callback of a consent.
ListSites ==
    /\ ~ discovering /\ discoveries < MaxDiscoveries
    /\ discoveries' = discoveries + 1
    /\ discovering' = TRUE /\ listing' = levels
    /\ UNCHANGED <<levels, shifts, rows, connected, linked, ownership, flagged>>

\* One transaction with the connection's row: properties are added and renewed, never
\* removed.  What the wizard is then shown carries the flag.
KeepSites ==
    /\ discovering
    /\ rows' = [s \in DOMAIN rows \cup DOMAIN listing |->
                    IF s \in DOMAIN listing THEN listing[s] ELSE rows[s]]
    /\ connected' = TRUE
    /\ flagged' = flagged \cup Shown(rows')
    /\ discovering' = FALSE /\ listing' = NoList
    /\ UNCHANGED <<levels, shifts, discoveries, linked, ownership>>

\* An error of either service's list fails the callback: nothing of it is kept.
ListFails ==
    /\ discovering
    /\ discovering' = FALSE /\ listing' = NoList
    /\ UNCHANGED <<levels, shifts, discoveries, rows, connected, linked, ownership, flagged>>

\* The grant is revoked; its properties and the link stay.
Disconnect ==
    /\ connected /\ connected' = FALSE
    /\ UNCHANGED <<levels, shifts, discoveries, discovering, listing, rows, linked, ownership, flagged>>

\* _connect takes any property there is a row for, of a revoked grant too; the old link
\* is unlinked, and an ownership that was recorded is never withdrawn.
Connect(site) ==
    /\ site \in DOMAIN rows
    /\ linked' = site
    /\ ownership' = IF Sufficient(site, rows[site]) THEN site ELSE ownership
    /\ UNCHANGED <<levels, shifts, discoveries, discovering, listing, rows, connected, flagged>>

PropertiesNext ==
    \/ \E s \in Sites : Shift(s) \/ Connect(s)
    \/ ListSites \/ KeepSites \/ ListFails \/ Disconnect

PropertiesSpec == PropertiesInit /\ [][PropertiesNext]_propertiesVars

-----------------------------------------------------------------------------
PropertiesTypeOK ==
    /\ DOMAIN levels \subseteq Sites /\ DOMAIN listing \subseteq Sites /\ DOMAIN rows \subseteq Sites
    /\ \A s \in DOMAIN rows : rows[s] \in Permissions
    /\ shifts \in 0..MaxShifts /\ discoveries \in 0..MaxDiscoveries
    /\ discovering \in BOOLEAN /\ connected \in BOOLEAN
    /\ linked \in Sites \cup {NoSite} /\ ownership \in Sites \cup {NoSite}
    /\ flagged \subseteq Sites

\* What counts as proof is decided twice, by matching.py for what the wizard shows and by
\* the view of migration 0010 for what is recorded.  The second never goes beyond the
\* first: ownership is only ever recorded on a property that was shown as proving it,
\* whatever permissions came and went at Google meanwhile, but for a domain property of
\* the www host, which the matcher does not know.
EvidenceIsMatched == ownership # NoSite => ownership \in flagged \/ OfTheWwwHost(ownership)
=============================================================================
