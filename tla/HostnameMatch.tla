--------------------------- MODULE HostnameMatch ---------------------------
(***************************************************************************)
(* The listener/route hostname matcher of internal/routebinding           *)
(* (HostnamesIntersect, hostnameMatches, matchesWildcard).                 *)
(*                                                                         *)
(* A hostname is modelled by its sequence of dot-separated labels: the    *)
(* code's string tests HasPrefix(h, "*.") and HasSuffix(h, "." \o X) only *)
(* ever cut a DNS name at a dot, so on label sequences they are "the first *)
(* label is *" and "X is a strict label suffix".  An absent or empty      *)
(* listener hostname is the model value NoHostname.                        *)
(***************************************************************************)
EXTENDS Naturals, Sequences, SequencesExt

CONSTANTS
    Labels,       \* labels a hostname is built from, "*" among them
    CaseFold,     \* strings.ToLower on one label, a function on Labels
    MaxLabels,    \* longest hostname considered
    MaxRouteHosts,\* longest route hostname list considered
    NoHostname    \* listener.Hostname == nil or ""

ASSUME "*" \in Labels /\ DOMAIN CaseFold = Labels /\ CaseFold["*"] = "*"

Hostnames == {h \in BoundedSeq(Labels, MaxLabels) : h # <<>>}

\* strings.ToLower applied to a whole hostname.
ToLower(h) == [i \in DOMAIN h |-> CaseFold[h[i]]]

\* strings.HasPrefix(h, "*."): a wildcard only in the leftmost label.
IsWildcard(h) == Len(h) >= 2 /\ h[1] = "*"

\* Mutant of matchesWildcard: HasSuffix without the leading dot, so the
\* apex itself is accepted.
matchesWildcardNoDot(wildcardHost, specificHost) ==
    IsSuffix(Tail(wildcardHost), specificHost)

\* matchesWildcard: specificHost ends with "." \o suffix and is not the apex.
matchesWildcard(wildcardHost, specificHost) ==
    LET suffix == Tail(wildcardHost) IN
    /\ IsStrictSuffix(suffix, specificHost)
    /\ specificHost # suffix

\* Mutant of hostnameMatches: a wildcard route hostname is never tried
\* against an exact listener hostname.
hostnameMatchesListenerOnly(listenerHost, routeHost) ==
    LET l == ToLower(listenerHost)
        r == ToLower(routeHost)
    IN \/ l = r
       \/ IsWildcard(l) /\ IsWildcard(r) /\ Tail(l) = Tail(r)
       \/ IsWildcard(l) /\ ~IsWildcard(r) /\ matchesWildcard(l, r)

\* hostnameMatches: case-folded equality, else the wildcard rules.
hostnameMatches(listenerHost, routeHost) ==
    LET l == ToLower(listenerHost)
        r == ToLower(routeHost)
    IN \/ l = r
       \/ IsWildcard(l) /\ IsWildcard(r) /\ Tail(l) = Tail(r)
       \/ IsWildcard(l) /\ ~IsWildcard(r) /\ matchesWildcard(l, r)
       \/ ~IsWildcard(l) /\ IsWildcard(r) /\ matchesWildcard(r, l)

\* HostnamesIntersect: no listener hostname or no route hostnames match
\* everything; otherwise some route hostname must match.
HostnamesIntersect(listenerHostname, routeHostnames) ==
    \/ listenerHostname = NoHostname
    \/ routeHostnames = <<>>
    \/ \E i \in 1..Len(routeHostnames) :
          hostnameMatches(listenerHostname, routeHostnames[i])

-----------------------------------------------------------------------------
(***************************************************************************)
(* Reference semantics: the set of concrete DNS names a pattern stands    *)
(* for, over names one label longer than any input so that every wildcard *)
(* has a witness.  "*" not in the leftmost position is a literal label.   *)
(***************************************************************************)
Concrete == {h \in BoundedSeq({CaseFold[l] : l \in Labels}, MaxLabels + 1) :
                h # <<>>}

Denote(h) ==
    LET lh == ToLower(h) IN
    IF IsWildcard(lh)
    THEN {c \in Concrete : IsStrictSuffix(Tail(lh), c)}
    ELSE {lh}

Overlap(a, b) == Denote(a) \cap Denote(b) # {}

-----------------------------------------------------------------------------
(* Every listener hostname / route hostname list pair is one state.       *)
VARIABLES listener, routeHosts

vars == <<listener, routeHosts>>

Init ==
    /\ listener \in Hostnames \cup {NoHostname}
    /\ routeHosts \in BoundedSeq(Hostnames, MaxRouteHosts)

Next == UNCHANGED vars

Spec == Init /\ [][Next]_vars

RouteHostSet == {routeHosts[i] : i \in 1..Len(routeHosts)}

\* P1 of the spec: hostnameMatches gives the same answer when the listener
\* and route hostnames swap sides (the wildcard branch of either side).
MatchSymmetric ==
    listener # NoHostname =>
        \A h \in RouteHostSet :
            hostnameMatches(listener, h) = hostnameMatches(h, listener)

\* Whenever at least one side is an exact name, hostnameMatches says yes
\* exactly when the two name sets overlap: case folding, multi-level
\* subdomains, the excluded apex and non-leftmost "*" all agree.
ExactMatchIsOverlap ==
    listener # NoHostname =>
        \A h \in RouteHostSet :
            ~(IsWildcard(listener) /\ IsWildcard(h)) =>
                (hostnameMatches(listener, h) <=> Overlap(listener, h))

=============================================================================
