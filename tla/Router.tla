------------------------------- MODULE Router -------------------------------
(***************************************************************************)
(* HttpRouter (src/src/httprouter.cc): the tree of path levels that          *)
(* add_route builds, the search of dispatch_route, and get_param.            *)
(*                                                                         *)
(* A pattern and a path are sequences of levels, "/" is the empty one; a     *)
(* single "/" at the end is no level, in the code as here.  A node is named  *)
(* by the levels that lead to it.  route_index and, of a node made on the    *)
(* way to another, methods are not initialised: the first is Unset, the      *)
(* second any set of methods.                                                *)
(*                                                                         *)
(* match calls itself.  Here each of its calls and returns is a step of the  *)
(* search, whose innermost call is the one of the node cur.at, its callers   *)
(* those of the nodes above; nothing else happens on the thread meanwhile.   *)
(***************************************************************************)
EXTENDS Integers, Sequences, FiniteSets, SequencesExt

CONSTANTS
  Methods,      \* the methods a route can be registered for
  Texts,        \* what a request's :method can say
  Patterns,     \* the patterns that may be registered
  Paths,        \* the paths that may be requested
  IntTexts, FloatTexts,     \* levels of digits, and with at most one dot
  Names, Begins,            \* names asked for; <<label, name>>: name begins label
  MaxRoutes     \* bound: routes registered

Levels == [kind : {"const", "int", "float", "string"}, label : STRING]

ASSUME RouterAssumption ==
  /\ "GET" \in Methods /\ Methods \subseteq Texts
  /\ IntTexts \subseteq FloatTexts /\ MaxRoutes \in Nat
  /\ Patterns \subseteq Seq(Levels) /\ Paths \subseteq Seq(STRING)
  /\ \A name \in Names : <<name, name>> \in Begins

VARIABLES
  tree,         \* nodes: terminal, methods, index, kids
  routes,       \* route_paths_ with the method: the routes in order
  vars_,        \* the thread's vector of parameters
  cur,          \* the request dispatched last: method, path, at, index, answer
  kid           \* the child the innermost call of match turns to next

vars == <<tree, routes, vars_, cur, kid>>

Unset == 0      \* handlers count from 1 here
Root == <<>>
NewNode == [terminal |-> FALSE, methods |-> {}, index |-> [m \in Methods |-> Unset],
            kids |-> <<>>]
Idle == [method |-> "GET", path |-> <<>>, at |-> Root, index |-> Unset, answer |-> "none"]

Init ==
  /\ \E garbage \in SUBSET Methods : tree = [n \in {Root} |-> [NewNode EXCEPT !.methods = garbage]]
  /\ routes = <<>> /\ vars_ = <<>> /\ cur = Idle /\ kid = 1

-----------------------------------------------------------------------------
(* Registration *)

Prefix(p, k) == SubSeq(p, 1, k)
PrefixesOf(p) == {Prefix(p, k) : k \in 0 .. Len(p)}

\* A node that exists keeps what it has; a node made for the pattern itself starts
\* with the one method, a node made on the way with what its memory holds.
Was(n, pattern, garbage) ==
  IF n \in DOMAIN tree THEN tree[n]
  ELSE IF n = pattern THEN NewNode
  ELSE [NewNode EXCEPT !.methods = garbage[n]]

\* Mutant: the methods of the nodes on the way are not widened.
ThroughKeepsMethods(n, m, pattern, h, garbage) ==
  LET was == Was(n, pattern, garbage)
      next == Prefix(pattern, Len(n) + 1)
  IN [terminal |-> was.terminal \/ n = pattern,
      methods |-> IF n = pattern THEN was.methods \cup {m} ELSE was.methods,
      index |-> IF n = pattern THEN [was.index EXCEPT ![m] = h] ELSE was.index,
      kids |-> IF n = pattern \/ next \in DOMAIN tree THEN was.kids
               ELSE Append(was.kids, Last(next))]

\* The node after insert_path has gone through it.
Through(n, m, pattern, h, garbage) ==
  LET was == Was(n, pattern, garbage)
      next == Prefix(pattern, Len(n) + 1)
  IN [terminal |-> was.terminal \/ n = pattern,
      methods |-> was.methods \cup {m},
      index |-> IF n = pattern THEN [was.index EXCEPT ![m] = h] ELSE was.index,
      kids |-> IF n = pattern \/ next \in DOMAIN tree THEN was.kids
               ELSE Append(was.kids, Last(next))]

insert_path(m, pattern, h) ==
  \E garbage \in [PrefixesOf(pattern) \ (DOMAIN tree \cup {pattern}) -> SUBSET Methods] :
    tree' = [n \in DOMAIN tree \cup PrefixesOf(pattern) |->
               IF n \in PrefixesOf(pattern) THEN Through(n, m, pattern, h, garbage)
               ELSE tree[n]]

\* Routes are added before the server listens.
add_route(m, pattern) ==
  /\ cur = Idle /\ Len(routes) < MaxRoutes
  /\ routes' = Append(routes, [method |-> m, pattern |-> pattern])
  /\ insert_path(m, pattern, Len(routes) + 1)
  /\ UNCHANGED <<vars_, cur, kid>>

-----------------------------------------------------------------------------
(* Search *)

IsParam(l) == l.kind \in {"int", "float", "string"}

\* The switch of match: does a node's level accept the level of a path?
Accepts(l, text) ==
  CASE l.kind = "const" -> l.label = "*" \/ l.label = text
    [] l.kind = "int" -> text \in IntTexts
    [] l.kind = "float" -> text \in FloatTexts
    [] l.kind = "string" -> TRUE

method_from_string(text) == IF text \in Methods THEN text ELSE "GET"

\* What prepare_response does with a request no route takes.
Unrouted(m) == IF m = "GET" THEN "file" ELSE "bad_request"

Searching == cur.answer = "searching"

\* dispatch_route clears the vector and calls match of the root, which returns at once
\* if nothing is registered for the method.
dispatch_route(text, path) ==
  LET m == method_from_string(text)
  IN /\ ~Searching
     /\ vars_' = <<>> /\ kid' = 1
     /\ cur' = [method |-> m, path |-> path, at |-> Root, index |-> Unset,
                answer |-> IF m \in tree[Root].methods THEN "searching" ELSE Unrouted(m)]
     /\ UNCHANGED <<tree, routes>>

\* The call goes on with its children while the path does and there are any left.
Depth == Len(cur.at)
Kids == tree[cur.at].kids
KidLeft == Depth < Len(cur.path) /\ kid <= Len(Kids)
Child == Append(cur.at, Kids[kid])
KidMatches == cur.method \in tree[Child].methods /\ Accepts(Kids[kid], cur.path[Depth + 1])

\* match of the next child takes its level and goes on with its own children.
Descend ==
  /\ Searching /\ KidLeft /\ KidMatches
  /\ cur' = [cur EXCEPT !.at = Child] /\ kid' = 1
  /\ vars_' = IF IsParam(Kids[kid]) THEN Append(vars_, cur.path[Depth + 1]) ELSE vars_
  /\ UNCHANGED <<tree, routes>>

\* match of the next child returns npos before it has taken anything.
PassBy ==
  /\ Searching /\ KidLeft /\ ~KidMatches
  /\ kid' = kid + 1
  /\ UNCHANGED <<tree, routes, vars_, cur>>

\* A node that has no child for the rest answers itself if it is terminal, with whatever
\* index it holds for the method; its callers return the same.
Answer ==
  /\ Searching /\ ~KidLeft /\ tree[cur.at].terminal
  /\ cur' = [cur EXCEPT !.index = tree[cur.at].index[cur.method], !.answer = "handler"]
  /\ kid' = 1
  /\ UNCHANGED <<tree, routes, vars_>>

\* Mutant: the parameter of a branch that is left stays in the vector.
NothingTakenBack(n) == vars_
\* The vector without the parameter of a node.
TakenBack(n) == IF IsParam(Last(n)) THEN Front(vars_) ELSE vars_

\* The child after a node in the loop of its caller.
NextKid(n) == 1 + CHOOSE i \in DOMAIN tree[Front(n)].kids : tree[Front(n)].kids[i] = Last(n)

\* Else it takes its parameter back and returns npos: its caller goes on with the child
\* after it.
Leave ==
  /\ Searching /\ ~KidLeft /\ ~tree[cur.at].terminal /\ cur.at # Root
  /\ cur' = [cur EXCEPT !.at = Front(@)] /\ kid' = NextKid(cur.at)
  /\ vars_' = TakenBack(cur.at)
  /\ UNCHANGED <<tree, routes>>

\* The call of the root returns npos.
Miss ==
  /\ Searching /\ ~KidLeft /\ ~tree[cur.at].terminal /\ cur.at = Root
  /\ cur' = [cur EXCEPT !.answer = Unrouted(cur.method)] /\ kid' = 1
  /\ UNCHANGED <<tree, routes, vars_>>

\* Where a parameter of a pattern is in the vector.
Rank(pattern, k) == Cardinality({j \in 1 .. k : IsParam(pattern[j])})

\* get_param of the request dispatched last: the pattern of its handler is searched
\* for a parameter whose label begins with the name.
get_param(name) ==
  LET pattern == routes[cur.index].pattern
      named == {k \in DOMAIN pattern : IsParam(pattern[k]) /\ <<pattern[k].label, name>> \in Begins}
  IN IF named = {} THEN <<>> ELSE <<vars_[Rank(pattern, Min(named))]>>

Search == Descend \/ PassBy \/ Answer \/ Leave \/ Miss
Next ==
  \/ \E m \in Methods, p \in Patterns : add_route(m, p)
  \/ \E t \in Texts, p \in Paths : dispatch_route(t, p)
  \/ Search

Spec == Init /\ [][Next]_vars

-----------------------------------------------------------------------------
(* What the router should do, said of the list of routes and not of the tree *)

Covers(pattern, path) ==
  /\ Len(pattern) <= Len(path)
  /\ \A k \in DOMAIN pattern : Accepts(pattern[k], path[k])

\* The first route that brought a node into the tree.
Birth(n) == Min({i \in DOMAIN routes : IsPrefix(n, routes[i].pattern)})

\* Of two patterns that cover a path, the deeper one is found first if it extends the
\* other, else the one whose branch is older where the two part.
Precedes(p, q) ==
  \/ IsStrictPrefix(q, p)
  \/ \E k \in 1 .. Len(p) :
       /\ k <= Len(q) /\ Prefix(p, k - 1) = Prefix(q, k - 1) /\ p[k] # q[k]
       /\ Birth(Prefix(p, k)) < Birth(Prefix(q, k))

RoutesFor(m, pattern) == {i \in DOMAIN routes : routes[i] = [method |-> m, pattern |-> pattern]}
Candidates(m, path) == {routes[i].pattern : i \in {j \in DOMAIN routes :
                          routes[j].method = m /\ Covers(routes[j].pattern, path)}}

Routed == cur.answer = "handler"

\* Patterns that cover the path and end routes of other methods only.
Rivals(m, path) ==
  {routes[i].pattern : i \in {j \in DOMAIN routes :
     Covers(routes[j].pattern, path) /\ RoutesFor(m, routes[j].pattern) = {}}}

\* The defect: match stops at a terminal node though nothing was registered there for its
\* method, and returns route_index[m] as the handler index (httprouter.cc:235), which
\* nobody has set; dispatch_route indexes handlers_ with it (httprouter.cc:259).
Misled ==
  /\ Routed /\ cur.at \in Rivals(cur.method, cur.path)
  /\ \A p \in Candidates(cur.method, cur.path) : ~Precedes(p, cur.at)

\* The search with its backtracking finds what the routes say: a request that no route of
\* its method covers gets no handler; every other one gets the handler registered last for
\* its method and for the pattern that precedes all those of its method that cover the
\* path.  Where it is not so the search was misled, by a pattern of other methods.
MatchIsRight ==
  (cur # Idle /\ ~Searching /\ ~Misled) =>
    LET wanted == Candidates(cur.method, cur.path)
    IN IF wanted = {} THEN ~Routed
       ELSE /\ Routed /\ cur.at \in wanted
            /\ \A p \in wanted : ~Precedes(p, cur.at)
            /\ cur.index = Max(RoutesFor(cur.method, cur.at))

\* Until the thread dispatches another request, the handler that asks for a parameter by
\* its label gets the level of its own path, whatever branches the search tried and left
\* before; and nothing for a name that is no label.  Excepted are names with which the label
\* of an earlier parameter begins: get_param takes that one.
ParamsAreOwn ==
  (Routed /\ cur.index # Unset) =>
    \A name \in Names :
      LET named == {k \in DOMAIN cur.at : IsParam(cur.at[k]) /\ cur.at[k].label = name}
          begun == {k \in DOMAIN cur.at : IsParam(cur.at[k]) /\ <<cur.at[k].label, name>> \in Begins}
      IN (\A j \in begun : \E k \in named : k <= j)
           => get_param(name) = IF named = {} THEN <<>> ELSE <<cur.path[Min(named)]>>
=============================================================================
