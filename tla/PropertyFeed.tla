---------------------------- MODULE PropertyFeed ----------------------------
(***************************************************************************)
(* What a simulated service promises the clients linked to it, without     *)
(* locks, listeners or threads: a property is written, the change is       *)
(* published to every client before that property is written again, a      *)
(* client that joins is given a letter into which each property has been   *)
(* copied as it was at some moment since the last time it was given one.   *)
(* SimService implements it as long as one thread changes the service.     *)
(***************************************************************************)
CONSTANTS
  Clients,  \* whoever may link to the service
  Props,    \* its properties
  Values,   \* and the values these take
  Unknown   \* what a client holds of a service it is not linked to

VARIABLES
  current,    \* [Props -> Values]: the properties of the service
  published,  \* [Props -> Values]: the last value published of each
  members,    \* the clients that have joined
  letters,    \* [Clients -> [Props -> Values \cup {Unknown}]]: what they will be given
  views       \* [Clients -> [Props -> Values \cup {Unknown}]]: what they were sent

feedVars == <<current, published, members, letters, views>>

NoView == [p \in Props |-> Unknown]

Init == /\ current \in [Props -> Values]
        /\ published = current
        /\ members = {}
        /\ letters = [c \in Clients |-> NoView]
        /\ views = [c \in Clients |-> NoView]

Write(p, v) == /\ current[p] = published[p]
               /\ v # current[p]
               /\ current' = [current EXCEPT ![p] = v]
               /\ UNCHANGED <<published, members, letters, views>>

Publish(p) == /\ current[p] # published[p]
              /\ published' = [published EXCEPT ![p] = current[p]]
              /\ views' = [c \in Clients |->
                             IF c \in members
                               THEN [views[c] EXCEPT ![p] = current[p]]
                               ELSE views[c]]
              /\ UNCHANGED <<current, members, letters>>

Copy(c, p) == /\ c \notin members
              /\ letters[c][p] = Unknown
              /\ letters' = [letters EXCEPT ![c][p] = current[p]]
              /\ UNCHANGED <<current, published, members, views>>

Join(c) == /\ c \notin members
           /\ \A p \in Props : letters[c][p] # Unknown
           /\ members' = members \cup {c}
           /\ views' = [views EXCEPT ![c] = letters[c]]
           /\ letters' = [letters EXCEPT ![c] = NoView]
           /\ UNCHANGED <<current, published>>

Leave(c) == /\ c \in members
            /\ members' = members \ {c}
            /\ views' = [views EXCEPT ![c] = NoView]
            /\ UNCHANGED <<current, published, letters>>

Next == \/ \E p \in Props, v \in Values : Write(p, v)
        \/ \E p \in Props : Publish(p)
        \/ \E c \in Clients : (\E p \in Props : Copy(c, p)) \/ Join(c) \/ Leave(c)

Spec == Init /\ [][Next]_feedVars
=============================================================================
