---------------------------- MODULE HttpLocations ----------------------------
(****************************************************************************)
(* How a server's locations become what a request is searched in            *)
(* (http/ngx_http.c: ngx_http_add_location ... ngx_http_create_locations_tree)*)
(* and how the search goes (http/ngx_http_core_module.c:                     *)
(* ngx_http_core_find_location).  The locations of a block are sorted,       *)
(* regular expressions, named and nameless ones are split off, the rest are  *)
(* joined by name, nested by prefix and made a balanced tree of the letters  *)
(* that a name adds to the prefix before it.                                 *)
(*                                                                           *)
(* A name is a sequence of letters, which are numbers.  A regular expression *)
(* is the end of the names that it matches; that its compilation or its      *)
(* execution fails is left out.                                              *)
(****************************************************************************)
EXTENDS Integers, Sequences, FiniteSets, SequencesExt

CONSTANTS Forms,      \* the directives: [mod, name, pass], the modifier, the name and
                      \* whether a proxy_pass or the like is inside
          Uris,       \* what is asked for
          Slash, At,  \* the letters that matter
          Lower(_),   \* a letter without its case
          MaxLocations

VARIABLES locs,       \* the locations of the server, in the order of the file
          refused,    \* why the configuration was refused, or ""
          srv         \* what the requests are searched in, or Unset

vars == <<locs, refused, srv>>

Unset == << >>

\* ngx_http_core_location: the flags of the modifiers; auto_redirect is of the handler inside.
Location(form, line) ==
    [name |-> form.name, line |-> line, exact_match |-> form.mod = "=", noregex |-> form.mod = "^~",
     regex |-> form.mod \in {"~", "~*"}, caseless |-> form.mod = "~*",
     named |-> form.mod = "" /\ form.name[1] = At, noname |-> FALSE,
     auto_redirect |-> form.pass /\ Last(form.name) = Slash, sub |-> << >>]

\* ngx_http_rewrite_if and limit_except: a location of no name of its own.
Nameless(name, line) ==
    [name |-> name, line |-> line, exact_match |-> FALSE, noregex |-> FALSE, regex |-> FALSE,
     caseless |-> FALSE, named |-> FALSE, noname |-> TRUE, auto_redirect |-> FALSE, sub |-> << >>]

Nil == [nil |-> TRUE]

-----------------------------------------------------------------------------
\* Byte order; a prefix is before what it begins.
Before(a, b) ==
    LET differ == {i \in 1 .. Len(a) : i > Len(b) \/ (i <= Len(b) /\ a[i] # b[i])}
        i == CHOOSE j \in differ : \A k \in differ : j <= k
    IN  IF differ = {} THEN Len(a) < Len(b)
        ELSE i <= Len(b) /\ a[i] < b[i]

Class(l) == CASE l.noname -> 4 [] l.named -> 3 [] l.regex -> 2 [] OTHER -> 1

\* ngx_http_cmp_locations: regular expressions and nameless ones stay in the order of the file.
CmpLocations(a, b) ==
    IF Class(a) # Class(b) THEN Class(a) - Class(b)
    ELSE IF Class(a) \in {2, 4} THEN 0
    ELSE IF Before(a.name, b.name) THEN -1
    ELSE IF Before(b.name, a.name) THEN 1
    ELSE IF Class(a) = 1 /\ ~a.exact_match /\ b.exact_match THEN 1 ELSE 0

\* ngx_queue_sort: each element goes behind the last one that is not above it.
QueueSort(s) ==
    FoldLeft(LAMBDA done, x :
                LET low == {i \in DOMAIN done : CmpLocations(done[i], x) <= 0}
                    k == IF low = {} THEN 0 ELSE CHOOSE i \in low : \A j \in low : j <= i
                IN  SubSeq(done, 1, k) \o <<x>> \o SubSeq(done, k + 1, Len(done)),
             << >>, s)

\* A mistaken form: the first of two.
QueueMiddleLow(n) == (n + 1) \div 2

\* ngx_queue_middle: the second of two, the second of three.
QueueMiddle(n) == n \div 2 + 1

\* ngx_http_init_locations: what a block is searched in, the trees still to be made.
RECURSIVE InitLocations(_)
InitLocations(s) ==
    LET sorted == QueueSort([i \in DOMAIN s |-> [s[i] EXCEPT !.sub = InitLocations(@)]])
        Of(c) == SelectSeq(sorted, LAMBDA l : Class(l) = c)
    IN  [static |-> Of(1), regex |-> Of(2), named |-> Of(3), tree |-> Nil, duplicate |-> FALSE]

\* ngx_http_add_location: the location as exact or as inclusive.
Entry(l) ==
    LET exact == l.exact_match \/ l.regex \/ l.named \/ l.noname
    IN  [name |-> l.name, exact |-> IF exact THEN <<l>> ELSE << >>,
         inclusive |-> IF exact THEN << >> ELSE <<l>>, list |-> << >>]

\* ngx_http_join_exact_locations: the entries, and whether it met a name twice and gave up.
JoinExactLocations(s) ==
    FoldLeft(LAMBDA a, e :
                LET q == Last(a.list)
                IN  IF a.duplicate THEN a
                    ELSE IF a.list = << >> \/ q.name # e.name THEN [a EXCEPT !.list = Append(@, e)]
                    ELSE IF (q.exact # << >> /\ e.exact # << >>) \/ (q.inclusive # << >> /\ e.inclusive # << >>)
                    THEN [a EXCEPT !.duplicate = TRUE]
                    ELSE [a EXCEPT !.list[Len(a.list)].inclusive = e.inclusive],
             [list |-> << >>, duplicate |-> FALSE], s)

\* ngx_http_create_locations_list: what begins with an inclusive name goes into that name's list.
RECURSIVE CreateLocationsList(_)
CreateLocationsList(s) ==
    IF Len(s) <= 1 THEN s
    ELSE LET q == Head(s)
             others == {i \in 2 .. Len(s) : ~IsPrefix(q.name, s[i].name)}
             x == IF others = {} THEN Len(s) + 1 ELSE CHOOSE i \in others : \A j \in others : i <= j
         IN  IF q.inclusive = << >> THEN <<q>> \o CreateLocationsList(Tail(s))
             ELSE <<[q EXCEPT !.list = CreateLocationsList(SubSeq(s, 2, x - 1))]>>
                  \o CreateLocationsList(SubSeq(s, x, Len(s)))

\* A node's length is a byte.
NodeLen(len) == len % 256

\* ngx_http_create_locations_tree.
RECURSIVE CreateLocationsTree(_, _)
CreateLocationsTree(s, prefix) ==
    LET m == QueueMiddle(Len(s))
        lq == s[m]
        left == SubSeq(s, 1, m - 1)
        right == SubSeq(s, m + 1, Len(s))
        Redirects(l) == l # << >> /\ l[1].auto_redirect
    IN  [nil |-> FALSE, exact |-> lq.exact, inclusive |-> lq.inclusive,
         auto_redirect |-> Redirects(lq.exact) \/ Redirects(lq.inclusive),
         len |-> NodeLen(Len(lq.name) - prefix),
         name |-> SubSeq(lq.name, prefix + 1, Len(lq.name)),
         left |-> IF left = << >> THEN Nil ELSE CreateLocationsTree(left, prefix),
         right |-> IF left = << >> \/ right = << >> THEN Nil ELSE CreateLocationsTree(right, prefix),
         tree |-> IF lq.list = << >> THEN Nil ELSE CreateLocationsTree(lq.list, Len(lq.name))]

\* ngx_http_init_static_location_trees.  The regular expressions have been split off: what is
\* inside them gets no tree.
RECURSIVE InitStaticTrees(_)
InitStaticTrees(conf) ==
    LET static == [i \in DOMAIN conf.static |-> [conf.static[i] EXCEPT !.sub = InitStaticTrees(@)]]
        joined == JoinExactLocations([i \in DOMAIN static |-> Entry(static[i])])
    IN  IF static = << >> THEN conf
        ELSE IF joined.duplicate \/ \E i \in DOMAIN static : static[i].sub.duplicate
        THEN [conf EXCEPT !.duplicate = TRUE]
        ELSE [conf EXCEPT !.tree = CreateLocationsTree(CreateLocationsList(joined.list), 0)]

-----------------------------------------------------------------------------
\* ngx_http_core_find_static_location: rv and the location so far.
RECURSIVE FindStatic(_, _, _)
FindStatic(node, uri, res) ==
    IF node.nil THEN res
    ELSE LET n == IF Len(uri) <= node.len THEN Len(uri) ELSE node.len
             u == SubSeq(uri, 1, n)
             v == SubSeq(node.name, 1, n)
         IN  IF u # v THEN FindStatic(IF Before(u, v) THEN node.left ELSE node.right, uri, res)
             ELSE IF Len(uri) > node.len
             THEN IF node.inclusive # << >>
                  THEN FindStatic(node.tree, SubSeq(uri, n + 1, Len(uri)),
                                  [rc |-> "again", loc |-> node.inclusive])
                  ELSE FindStatic(node.right, uri, res)
             ELSE IF Len(uri) = node.len
             THEN IF node.exact # << >> THEN [rc |-> "ok", loc |-> node.exact]
                  ELSE [rc |-> "again", loc |-> node.inclusive]
             ELSE FindStatic(node.left, uri,
                             IF Len(uri) + 1 = node.len /\ node.auto_redirect
                             THEN [rc |-> "done", loc |-> IF node.exact # << >> THEN node.exact ELSE node.inclusive]
                             ELSE res)

Matches(l, uri) ==
    LET Fold(name) == [i \in DOMAIN name |-> Lower(name[i])]
    IN  IF l.caseless THEN IsSuffix(Fold(l.name), Fold(uri)) ELSE IsSuffix(l.name, uri)

\* ngx_http_core_find_location in the locations of a block; loc is << >> when the block's own
\* configuration stays.
RECURSIVE FindLocation(_, _)
FindLocation(pclcf, uri) ==
    LET static == FindStatic(pclcf.tree, uri, [rc |-> "declined", loc |-> << >>])
        Inside(l) == LET res == FindLocation(l.sub, uri)
                     IN  [rc |-> res.rc, loc |-> IF res.loc = << >> THEN <<l>> ELSE res.loc]
        found == IF static.rc = "again" THEN Inside(static.loc[1]) ELSE static
        noregex == static.rc = "again" /\ static.loc[1].noregex
        hits == SelectSeq(pclcf.regex, LAMBDA l : Matches(l, uri))
    IN  IF found.rc \in {"ok", "done"} \/ noregex \/ hits = << >> THEN found
        ELSE [rc |-> "ok", loc |-> Inside(hits[1]).loc]

\* ngx_http_named_location: the first of the server's named locations that has the name.
FindNamed(name) == SelectSeq(srv.named, LAMBDA l : l.name = name)

-----------------------------------------------------------------------------
\* ngx_http_core_location: whether the location may not be inside the location at.
Outside(clcf, at) ==
    \/ at.exact_match
    \/ at.named
    \/ clcf.named
    \/ ~clcf.regex /\ ~IsPrefix(at.name, clcf.name)

Lines == FoldLeft(LAMBDA n, l : n + 1 + Len(l.sub), 0, locs)

Parsing == refused = "" /\ srv = Unset /\ Lines < MaxLocations

\* A location in the server's block.
ServerLocation(form) ==
    /\ Parsing
    /\ locs' = Append(locs, Location(form, Lines))
    /\ UNCHANGED <<refused, srv>>

\* A location inside the one that the file has reached, one level deep.
NestedLocation(form) ==
    /\ Parsing /\ locs # << >> /\ ~Last(locs).noname
    /\ LET clcf == Location(form, Lines)
       IN  IF Outside(clcf, Last(locs))
           THEN refused' = "outside" /\ UNCHANGED locs
           ELSE locs' = [locs EXCEPT ![Len(locs)].sub = Append(@, clcf)] /\ UNCHANGED refused
    /\ UNCHANGED srv

\* An if block of the server, or one of a location.
ServerIf ==
    /\ Parsing
    /\ locs' = Append(locs, Nameless(<< >>, Lines))
    /\ UNCHANGED <<refused, srv>>

LocationIf ==
    /\ Parsing /\ locs # << >> /\ ~Last(locs).noname
    /\ locs' = [locs EXCEPT ![Len(locs)].sub = Append(@, Nameless(Last(locs).name, Lines))]
    /\ UNCHANGED <<refused, srv>>

\* ngx_http_block: the locations of the server are made what requests are searched in.
InitServer ==
    /\ refused = "" /\ srv = Unset
    /\ LET conf == InitStaticTrees(InitLocations(locs))
       IN  IF conf.duplicate THEN refused' = "duplicate" /\ UNCHANGED srv
           ELSE srv' = conf /\ UNCHANGED refused
    /\ UNCHANGED locs

Init == locs = << >> /\ refused = "" /\ srv = Unset

Next ==
    \/ \E form \in Forms : ServerLocation(form) \/ NestedLocation(form)
    \/ ServerIf
    \/ LocationIf
    \/ InitServer

Spec == Init /\ [][Next]_vars

(****************************************************************************)
(* The search finds the location that the rules of the directive say,        *)
(* whatever the order of the file: the name itself, exact first; else the     *)
(* name that lacks only the slash, where that redirects; else the longest     *)
(* prefix; inside that location its own; and unless one was hit exactly or    *)
(* ^~ forbids it the first regular expression of the file that matches, and   *)
(* what is inside that of regular expressions.  A named location is the first *)
(* of its name.  And a name that is twice in a block is always noticed.       *)
(****************************************************************************)
Static(s) == {s[i] : i \in {j \in DOMAIN s : Class(s[j]) = 1}}

Longest(S) == CHOOSE l \in S : \A m \in S : Len(m.name) <= Len(l.name)

MeantStatic(s, uri) ==
    LET same == {l \in Static(s) : l.name = uri}
        slash == {l \in Static(s) : Len(l.name) = Len(uri) + 1 /\ IsPrefix(uri, l.name)}
        exact == {l \in same : l.exact_match}
        prefix == {l \in Static(s) : ~l.exact_match /\ IsPrefix(l.name, uri)}
        One(S) == CHOOSE l \in S : TRUE
    IN  IF exact # {} THEN <<"ok", One(exact)>>
        ELSE IF same # {} THEN <<"again", One(same)>>
        ELSE IF \E l \in slash : l.auto_redirect THEN <<"done", One({l \in slash : l.auto_redirect})>>
        ELSE IF prefix # {} THEN <<"again", Longest(prefix)>>
        ELSE <<"declined">>

RECURSIVE Meant(_, _), MeantRegex(_, _, _)
MeantRegex(st, regex, uri) ==
    LET sub == IF st[1] = "again" THEN Meant(st[2].sub, uri) ELSE st
        own == IF sub[1] \in {"ok", "done"} THEN sub
               ELSE IF st[1] = "again" THEN <<"again", IF Len(sub) = 2 THEN sub[2] ELSE st[2]>> ELSE <<"declined">>
        deep == Meant(SelectSeq(regex[1].sub, LAMBDA l : l.regex), uri)
    IN  IF own[1] \in {"ok", "done"} \/ (st[1] = "again" /\ st[2].noregex) \/ regex = << >> THEN own
        ELSE <<"ok", IF Len(deep) = 2 THEN deep[2] ELSE regex[1]>>

Meant(s, uri) ==
    MeantRegex(MeantStatic(s, uri), SelectSeq(s, LAMBDA l : l.regex /\ Matches(l, uri)), uri)

TwiceIn(s) == \E i, j \in DOMAIN s : /\ i < j /\ Class(s[i]) = 1 /\ Class(s[j]) = 1 /\ s[i].name = s[j].name
                                     /\ s[i].exact_match = s[j].exact_match

Twice == TwiceIn(locs) \/ \E l \in Static(locs) : TwiceIn(l.sub)

LocationsFound ==
    /\ refused = "duplicate" => Twice
    /\ srv # Unset =>
          /\ ~Twice
          /\ \A uri \in Uris :
                \A got \in {FindLocation(srv, uri)}, meant \in {Meant(locs, uri)} :
                    IF Len(meant) = 1 THEN got.loc = << >>
                    ELSE /\ got.loc # << >>
                         /\ meant[1] = "done" <=> got.rc = "done"
                         /\ IF meant[1] = "done" THEN got.loc[1].name = meant[2].name
                            ELSE got.loc[1].line = meant[2].line
          /\ \A i \in DOMAIN locs : locs[i].named =>
                LET meant == SelectSeq(locs, LAMBDA l : l.named /\ l.name = locs[i].name)
                IN  FindNamed(locs[i].name)[1].line = meant[1].line
==============================================================================
