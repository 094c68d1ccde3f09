----------------------------- MODULE TopicTree -----------------------------
(***************************************************************************)
(* The tree of topics (topicTree.cc) and the broker's calls on it: the     *)
(* walk of getTopicNode with its wildcards, for a SUBSCRIBE and a PUBLISH  *)
(* with nodes created on the way, for an UNSUBSCRIBE without.              *)
(*                                                                         *)
(* A node is its path from the root, a sequence of names; the tree is the  *)
(* set of its nodes.  Names are numbers in the order of std::map, which    *)
(* the walk iterates.  A topic or filter is the sequence of its parts, as  *)
(* split yields them.  One subscriber is modelled: what the tree keeps for *)
(* a client depends on that client's requests and on the nodes only.       *)
(* QoS, messages and full paths are left out.                              *)
(***************************************************************************)
EXTENDS Integers, SequencesExt

CONSTANTS
    MaxName,  \* bound on the number of names
    Dollar,   \* the names that start with '$'
    Filters,  \* topics and filters that requests carry
    Wills     \* the topics of wills with the retain bit

Names == 1 .. MaxName
Plus == 0       \* the part "+"
Hash == -1      \* the part "#"
Adjacent == -2  \* a part with a wildcard next to other characters
Parts == Names \cup {Plus, Hash, Adjacent}

ASSUME TopicTreeAssumption ==
    /\ MaxName \in Nat
    /\ Dollar \subseteq Names
    /\ \A f \in Filters : f \in Seq(Parts) /\ f # <<>>
    /\ Wills \subseteq Filters

VARIABLES
    status,      \* "up", or "crashed"
    nodes,       \* the tree
    subscribed,  \* the nodes whose subscribers have an entry of the client
    retained,    \* the nodes with a retained message
    watched,     \* history: a filter, and the nodes that Subscribe(watched) has
    granted      \* found since Unsubscribe(watched) was last handled

history == <<watched, granted>>
vars == <<status, nodes, subscribed, retained, history>>

Root == <<>>

-----------------------------------------------------------------------------
(***************************************************************************)
(* The walk.  A state w of it has the tree, the node it is at, the nodes   *)
(* found so far (resp) and the error it ended with.  The calls that nest   *)
(* in it are functions of how deep they may.                               *)
(***************************************************************************)
Nodes == Seq(Names)
Trees == {tree \in SUBSET Nodes :
            IsFiniteSet(tree) /\ Root \in tree /\ \A p \in tree \ {Root} : Front(p) \in tree}
Requests == [tree : Trees, topic : Seq(Parts)]

HasChild(tree, p, n) == Append(p, n) \in tree
Visited(tree, p, n) == HasChild(tree, p, n) /\ n \notin Dollar

\* getNodesByNumberSign of node p: p and what is found below its children, but
\* for '$' names.
Below(tree, p, called) ==
    LET found[n \in 0 .. MaxName] ==
            IF n = 0 THEN <<p>>
            ELSE IF Visited(tree, p, n) THEN found[n - 1] \o called[Append(p, n)]
            ELSE found[n - 1]
    IN  found[MaxName]

\* No path is as long as the tree has nodes.
NodesByNumberSign(tree, p) ==
    LET nested[k \in 0 .. Cardinality(tree)] ==
            [q \in tree |-> IF k = 0 THEN <<>> ELSE Below(tree, q, nested[k - 1])]
    IN  nested[Cardinality(tree)][p]

Failed(w, err) == [w EXCEPT !.err = err]

\* MUTANT of WalkName: only a node that is created is found.
WalkName_OnlyNew(w, topic, i, add) ==
    LET next == Append(w.at, topic[i])
    IN IF next \notin w.tree /\ ~add THEN w
       ELSE [w EXCEPT !.tree = @ \cup {next}, !.at = next,
                      !.found = IF i = Len(topic) /\ next \notin w.tree
                                THEN Append(@, next) ELSE @]

\* A name: its node is created, or, if nothing may be added, passed over, so
\* that the next part is looked up in the same node.
WalkName(w, topic, i, add) ==
    LET next == Append(w.at, topic[i])
    IN IF next \notin w.tree /\ ~add THEN w
       ELSE [w EXCEPT !.tree = @ \cup {next}, !.at = next,
                      !.found = IF i = Len(topic) THEN Append(@, next) ELSE @]

FirstPlus(topic) == CHOOSE i \in DOMAIN topic :
    topic[i] = Plus /\ \A j \in 1 .. i - 1 : topic[j] # Plus
Filled(topic, n) == [topic EXCEPT ![FirstPlus(topic)] = n]

\* "+": the whole topic is walked again from the root for every child, with
\* the child's name for the topic's first "+".  The walk itself stays where it
\* is and goes on with the parts that follow.
WalkPlus(w, topic, again) ==
    LET visit[n \in 0 .. MaxName] ==
            IF n = 0 THEN w
            ELSE LET v == visit[n - 1]
                     r == again[[tree |-> v.tree, topic |-> Filled(topic, n)]]
                 IN  IF v.err # "NO_ERROR" \/ ~Visited(v.tree, v.at, n) THEN v
                     ELSE [v EXCEPT !.tree = r.tree, !.err = r.err, !.found = @ \o r.found]
    IN  visit[MaxName]

\* MUTANT of WalkNumberSign: only the node itself.
WalkNumberSign_Shallow(w, topic, i) ==
    IF i # Len(topic) THEN Failed(w, "MULTI_LEVEL_WILDCARD_MUST_BE_ON_TAIL")
    ELSE [w EXCEPT !.found = Append(@, w.at)]

\* "#", which getTopicNode resolves from the root, whatever precedes it.
WalkNumberSign(w, topic, i) ==
    IF i # Len(topic) THEN Failed(w, "MULTI_LEVEL_WILDCARD_MUST_BE_ON_TAIL")
    ELSE [w EXCEPT !.found = @ \o NodesByNumberSign(w.tree, Root)]

\* MUTANT of WalkPart: a "#" before the last part is taken for a name.
WalkPart_HashInside(w, topic, i, add, again) ==
    IF w.err # "NO_ERROR" THEN w ELSE
    CASE topic[i] = Plus -> WalkPlus(w, topic, again)
      [] topic[i] = Hash /\ i = Len(topic) -> WalkNumberSign(w, topic, i)
      [] OTHER -> WalkName(w, topic, i, add)

\* MUTANT of WalkPart: the walk goes on below the last child of a "+".
WalkPart_Descends(w, topic, i, add, again) ==
    IF w.err # "NO_ERROR" THEN w ELSE
    CASE topic[i] = Plus ->
            LET v == WalkPlus(w, topic, again)
            IN IF \E n \in Names : Visited(v.tree, v.at, n)
               THEN LET n == CHOOSE n \in Names : Visited(v.tree, v.at, n)
                    IN WalkName([v EXCEPT !.err = "NO_ERROR"], [topic EXCEPT ![i] = n], i, add)
               ELSE v
      [] topic[i] = Hash -> WalkNumberSign(w, topic, i)
      [] OTHER -> WalkName(w, topic, i, add)

WalkPart(w, topic, i, add, again) ==
    IF w.err # "NO_ERROR" THEN w ELSE
    CASE topic[i] = Plus -> WalkPlus(w, topic, again)
      [] topic[i] = Hash -> WalkNumberSign(w, topic, i)
      [] topic[i] = Adjacent ->
            Failed(w, "WILDCARD_MUST_NOT_BE_ADJACENT_TO_NAME")
      [] OTHER -> WalkName(w, topic, i, add)

Start(tree) == [tree |-> tree, at |-> Root, found |-> <<>>, err |-> "NO_ERROR"]
Walk(tree, topic, add, again) ==
    LET after[i \in 0 .. Len(topic)] ==
            IF i = 0 THEN Start(tree) ELSE WalkPart(after[i - 1], topic, i, add, again)
    IN  after[Len(topic)]

\* Each call that nests has a "+" less, so that no walk nests deeper than the
\* topic has parts.
GetTopicNode(tree, topic, add) ==
    LET nested[k \in 0 .. Len(topic) + 1] ==
            [q \in Requests |-> IF k = 0 THEN Start(q.tree)
                                ELSE Walk(q.tree, q.topic, add, nested[k - 1])]
    IN  nested[Len(topic) + 1][[tree |-> tree, topic |-> topic]]

-----------------------------------------------------------------------------
(***************************************************************************)
(* The broker's requests.                                                  *)
(***************************************************************************)
Init ==
    /\ status = "up"
    /\ nodes = {Root}
    /\ subscribed = {} /\ retained = {}
    /\ watched \in Filters /\ granted = {}

\* The nodes are subscribed in the order found; sending a node's retained
\* message may fail, which ends the handler.  0: the answer is FAILURE.
Subscribes(r) ==
    IF r.err # "NO_ERROR" THEN {0}
    ELSE {Len(r.found)} \cup {i \in DOMAIN r.found : r.found[i] \in retained}

\* recvSubscribeMessage, for one of its filters.
Subscribe(f) ==
    LET r == GetTopicNode(nodes, f, TRUE)
    IN /\ status = "up"
       /\ nodes' = r.tree
       /\ \E n \in Subscribes(r) :
            LET new == {r.found[i] : i \in 1 .. n}
            IN /\ subscribed' = subscribed \cup new
               /\ granted' = IF f = watched THEN granted \cup new ELSE granted
       /\ UNCHANGED <<status, retained, watched>>

\* MUTANT of Unsubscribe: only the first node found loses its subscriber.
Unsubscribe_First(f) ==
    LET r == GetTopicNode(nodes, f, FALSE)
    IN /\ status = "up"
       /\ subscribed' = IF r.err = "NO_ERROR" /\ r.found # <<>>
                        THEN subscribed \ {r.found[1]} ELSE subscribed
       /\ granted' = IF f = watched THEN {} ELSE granted
       /\ UNCHANGED <<status, nodes, retained, watched>>

\* recvUnsubscribeMessage and deleteSubscriber, for one of the filters.
Unsubscribe(f) ==
    LET r == GetTopicNode(nodes, f, FALSE)
    IN /\ status = "up"
       /\ subscribed' = IF r.err = "NO_ERROR" THEN subscribed \ Range(r.found) ELSE subscribed
       /\ granted' = IF f = watched THEN {} ELSE granted
       /\ UNCHANGED <<status, nodes, retained, watched>>

\* The message goes to the subscribers of nodes[0], which must be there.
Route(tree, t) ==
    LET r == GetTopicNode(tree, t, TRUE)
    IN /\ nodes' = r.tree
       /\ status' = IF r.err = "NO_ERROR" /\ r.found = <<>> THEN "crashed" ELSE "up"

\* recvPublishMessage, or a will, without the retain bit.
Publish(t) ==
    /\ status = "up"
    /\ Route(nodes, t)
    /\ UNCHANGED <<subscribed, retained, history>>

\* applyRetain, which walks the tree before the message is routed; an empty
\* message is none.
ApplyRetain(t, empty) ==
    LET r == GetTopicNode(nodes, t, TRUE)
    IN /\ status = "up"
       /\ IF r.err = "NO_ERROR"
          THEN /\ retained' = IF empty THEN retained \ Range(r.found)
                              ELSE retained \cup Range(r.found)
               /\ Route(r.tree, t)
          ELSE nodes' = r.tree /\ UNCHANGED <<status, retained>>
       /\ UNCHANGED <<subscribed, history>>

\* A PUBLISH with the retain bit.  parse stops before the payload, so that it is
\* empty and clears the node's, unless the topic has both wildcards.
PublishRetained(t) ==
    \E empty \in BOOLEAN :
        (empty \/ {Plus, Hash} \subseteq Range(t)) /\ ApplyRetain(t, empty)

\* The will of a session that ends, with the retain bit.
PublishWill(t) == ApplyRetain(t, FALSE)

Next == \E f \in Filters :
    \/ Subscribe(f) \/ Unsubscribe(f)
    \/ Publish(f) \/ PublishRetained(f)
    \/ f \in Wills /\ PublishWill(f)

Spec == Init /\ [][Next]_vars

-----------------------------------------------------------------------------
(***************************************************************************)
(* Properties.                                                             *)
(***************************************************************************)
\* The tree is a tree of names, without a node for a wildcard, and what it
\* keeps is kept at its nodes.
TypeOK ==
    /\ status \in {"up", "crashed"}
    /\ nodes \in Trees
    /\ subscribed \subseteq nodes
    /\ retained \subseteq nodes
    /\ watched \in Filters
    /\ granted \subseteq nodes

\* Nothing is left behind: after Unsubscribe(f) the client is a subscriber of
\* none of the nodes that Subscribe(f) gave it (f is watched), also when the
\* tree has grown in between and when it was subscribed in several trees,
\* although one walk adds nodes and the other passes over those it does not find
\* (getTopicNode with and without addNewNode).
NothingLeft ==
    [][Unsubscribe(watched) => granted \cap subscribed' = {}]_vars

\* The nodes a filter is meant to match; a wildcard matches no '$' name.
Matches(f, p) ==
    /\ IF Last(f) = Hash
       THEN Len(p) >= Len(f) - 1 /\ \A i \in Len(f) .. Len(p) : p[i] \notin Dollar
       ELSE Len(p) = Len(f)
    /\ \A i \in DOMAIN f \ {j \in DOMAIN f : f[j] = Hash} :
          IF f[i] = Plus THEN p[i] \notin Dollar ELSE p[i] = f[i]

\* Nobody is forgotten: in every tree, a filter without an error finds every
\* node it is meant to match, wherever its wildcards are and in whatever order
\* the nodes came to be.  The exception is "#" below a '$' name, as in "$SYS/#":
\* as "#" is resolved from the root, where it passes over such names, the
\* filter finds none of them.
BelowDollar(f) == Last(f) = Hash /\ Range(f) \cap Dollar # {}

FindsEveryMatch ==
    \A f \in Filters :
        LET r == GetTopicNode(nodes, f, TRUE)
            meant == {p \in nodes : Matches(f, p)}
        IN r.err = "NO_ERROR" =>
             IF BelowDollar(f) THEN meant \cap Range(r.found) = {}
             ELSE meant \subseteq Range(r.found)

\* A filter whose only wildcard, if any, is a "+" at its end finds nothing
\* else, nothing twice, and a topic without wildcards its own node, at which a
\* PUBLISH is delivered.
FindsNothingElse ==
    \A f \in Filters : (\A i \in DOMAIN f : f[i] \in Names \/ (f[i] = Plus /\ i = Len(f))) =>
        LET r == GetTopicNode(nodes, f, TRUE)
        IN /\ r.err = "NO_ERROR"
           /\ IsInjective(r.found)
           /\ Range(r.found) = {p \in r.tree : Matches(f, p)}

\* The broker outlives a PUBLISH unless its topic ends in "+": nodes[0] exists,
\* also after applyRetain, and although topics with wildcards are not refused.
OutlivesPublish ==
    [][\A t \in Filters : Publish(t) /\ Last(t) # Plus => status' = "up"]_vars

=============================================================================
