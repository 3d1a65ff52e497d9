---------------------------- MODULE MCProjection ----------------------------
(***************************************************************************)
(* Histories of five commits: r is the first, h the newest.  In Lines, a   *)
(* and b branch off from r, m follows b, and h merges them; in Cross m     *)
(* merges a and b.  Each commit does one thing of its menu.                *)
(***************************************************************************)
EXTENDS Projection, TLC

CONSTANTS r, a, b, m, h, x, y

Lines == (r :> {}) @@ (a :> {r}) @@ (b :> {r}) @@ (m :> {b}) @@ (h :> {a, m})
Cross == (r :> {}) @@ (a :> {r}) @@ (b :> {r}) @@ (m :> {a, b}) @@ (h :> {m})

Meta(from, to, key, operator, value) ==
    [do |-> "meta", from |-> from, to |-> to,
     key |-> key, operator |-> operator, value |-> value]
Set(value) == Meta({r}, {r}, "tags", "set", value)
Entry(d)   == [do |-> "entry", decision |-> d]
Effect(do, of) == [do |-> do, of |-> of]

First  == {<<Entry(TRUE)>>}
MenuA  == {<<>>, <<Set(x)>>, <<Entry(TRUE)>>, <<Meta({r}, {r}, "tags", "add", y)>>,
           <<Effect("cancel", {r})>>}
MenuB  == {<<>>, <<Set(x)>>, <<Set(x), Set(y)>>, <<Effect("decay", {r}), Effect("decay", {r, a})>>}
MenuC  == {<<>>, <<Set(x)>>, <<Set(y)>>, <<Meta({r, h}, {b}, "affected_areas", "null", Null)>>,
           <<Effect("cancel", {a, m})>>}
MenuH  == {<<>>, <<Set(x), Set(y)>>, <<Meta({b}, {m}, "owner", "set", x)>>,
           <<Meta({b}, {m}, "affected_areas", "set", x), Meta({r}, {a}, "affected_areas", "add", y)>>,
           <<Meta({a}, {h}, "tags", "set", y)>>}
Areas == (r :> {y}) @@ (a :> Null) @@ (b :> {x}) @@ (m :> Null) @@ (h :> {})

MCHistories ==
    {[parents |-> p, journal |-> j, areas |-> Areas, head |-> h] :
        p \in {Lines, Cross}, j \in {(r :> f[1]) @@ (a :> f[2]) @@ (b :> f[3]) @@ (m :> f[4]) @@ (h :> f[5]) :
                                     f \in First \X MenuA \X MenuB \X MenuC \X MenuH}}
MCPolicies ==
    {[commits |-> Unlimited, nodes |-> Unlimited], [commits |-> 4, nodes |-> Unlimited],
     [commits |-> 5, nodes |-> 4]}
=============================================================================
