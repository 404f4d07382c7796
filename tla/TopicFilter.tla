----------------------------- MODULE TopicFilter -----------------------------
(***************************************************************************)
(* Topic filters in the MQTT library (AWS/mqtt/aws_mqtt_lib.c): which       *)
(* filters are valid, and the loop that matches a received topic against a  *)
(* filter with wild cards, one iteration per step.  Strings are sequences   *)
(* of characters; indexes count from 1, so that index i of the code is      *)
(* i + 1 here.                                                              *)
(***************************************************************************)
EXTENDS Integers, Sequences, SequencesExt

CONSTANTS Letters,   \* characters that are neither a separator nor a wild card
          MaxTopic,  \* bound on the length of a topic
          MaxFilter  \* bound on the length of a filter

ASSUME FilterAssumption ==
    /\ Letters \cap {"/", "+", "#"} = {}
    /\ MaxTopic \in Nat /\ MaxFilter \in Nat

Strings(chars, n) == UNION {[1 .. k -> chars] : k \in 1 .. n}
Topics  == Strings(Letters \cup {"/"}, MaxTopic)
Filters == Strings(Letters \cup {"/", "+", "#"}, MaxFilter)

-----------------------------------------------------------------------------
(* prvGetTopicFilterType.  A valid '#' is the last character, so the scan   *)
(* reaches every misplaced wild card or stops at an earlier one.            *)

IsFirstOfLevel(f, x) == x = 1 \/ f[x - 1] = "/"
IsLastOfLevel(f, x)  == x = Len(f) \/ f[x + 1] = "/"

(* Mutant: what follows '+' is not looked at. *)
MisplacedIgnoresNext(f, x) ==
    \/ f[x] = "+" /\ ~ IsFirstOfLevel(f, x)
    \/ f[x] = "#" /\ ~ (IsFirstOfLevel(f, x) /\ x = Len(f))

Misplaced(f, x) ==
    \/ f[x] = "+" /\ ~ (IsFirstOfLevel(f, x) /\ IsLastOfLevel(f, x))
    \/ f[x] = "#" /\ ~ (IsFirstOfLevel(f, x) /\ x = Len(f))

prvGetTopicFilterType(f) ==
    IF \E x \in DOMAIN f : Misplaced(f, x) THEN "Invalid"
    ELSE IF \E x \in DOMAIN f : f[x] \in {"+", "#"} THEN "WildCard"
    ELSE "Simple"

-----------------------------------------------------------------------------
(* prvDoesTopicMatchTopicFilter, called for filters with wild cards only. *)

VARIABLES topic, filter,      \* the arguments
          usTopicIndex, usTopicFilterIndex,
          result              \* "none" until the function returns

matchVars == <<topic, filter, usTopicIndex, usTopicFilterIndex, result>>

MatchInit ==
    /\ topic \in Topics
    /\ filter \in {f \in Filters : prvGetTopicFilterType(f) = "WildCard"}
    /\ usTopicIndex = 1
    /\ usTopicFilterIndex = 1
    /\ result = "none"

(* A call that has returned. *)
MatchReturned ==
    /\ topic = <<"/">>
    /\ filter = <<"#">>
    /\ usTopicIndex = 1
    /\ usTopicFilterIndex = 1
    /\ result = "match"

Looping ==
    /\ result = "none"
    /\ usTopicIndex <= Len(topic)
    /\ usTopicFilterIndex <= Len(filter)

CharsEqual == topic[usTopicIndex] = filter[usTopicFilterIndex]

(* "sport/#" also matches "sport". *)
ParentLevel ==
    /\ usTopicIndex = Len(topic)
    /\ usTopicFilterIndex = Len(filter) - 2
    /\ filter[usTopicFilterIndex + 1] = "/"
    /\ filter[usTopicFilterIndex + 2] = "#"

(* "sport/+" also matches "sport/". *)
EmptyLevel ==
    /\ usTopicIndex = Len(topic)
    /\ usTopicFilterIndex = Len(filter) - 1
    /\ filter[usTopicFilterIndex + 1] = "+"

CornerCase ==
    /\ Looping
    /\ CharsEqual
    /\ ParentLevel \/ EmptyLevel
    /\ result' = "match"
    /\ UNCHANGED <<topic, filter, usTopicIndex, usTopicFilterIndex>>

Advance ==
    /\ Looping
    /\ CharsEqual
    /\ ~ (ParentLevel \/ EmptyLevel)
    /\ usTopicIndex' = usTopicIndex + 1
    /\ usTopicFilterIndex' = usTopicFilterIndex + 1
    /\ UNCHANGED <<topic, filter, result>>

(* The first separator from x on, or the end of the topic. *)
EndOfLevel(x) ==
    CHOOSE e \in x .. Len(topic) + 1 :
        /\ e <= Len(topic) => topic[e] = "/"
        /\ \A y \in x .. e - 1 : topic[y] # "/"

(* Mutant: the filter index does not move on. *)
SingleLevelStays ==
    /\ Looping
    /\ ~ CharsEqual
    /\ filter[usTopicFilterIndex] = "+"
    /\ usTopicIndex' = EndOfLevel(usTopicIndex)
    /\ UNCHANGED <<topic, filter, result, usTopicFilterIndex>>

(* '+' consumes the topic up to the next separator or its end. *)
SingleLevel ==
    /\ Looping
    /\ ~ CharsEqual
    /\ filter[usTopicFilterIndex] = "+"
    /\ usTopicIndex' = EndOfLevel(usTopicIndex)
    /\ usTopicFilterIndex' = usTopicFilterIndex + 1
    /\ UNCHANGED <<topic, filter, result>>

(* '#' matches the rest of the topic. *)
MultiLevel ==
    /\ Looping
    /\ ~ CharsEqual
    /\ filter[usTopicFilterIndex] = "#"
    /\ result' = "match"
    /\ UNCHANGED <<topic, filter, usTopicIndex, usTopicFilterIndex>>

Mismatch ==
    /\ Looping
    /\ ~ CharsEqual
    /\ filter[usTopicFilterIndex] \notin {"+", "#"}
    /\ result' = "no match"
    /\ UNCHANGED <<topic, filter, usTopicIndex, usTopicFilterIndex>>

(* Mutant: the rest of the filter is not looked at. *)
ConsumedTopicOnly ==
    /\ result = "none"
    /\ ~ Looping
    /\ result' = IF usTopicIndex > Len(topic) THEN "match" ELSE "no match"
    /\ UNCHANGED <<topic, filter, usTopicIndex, usTopicFilterIndex>>

(* One of the strings is consumed: a match if both are. *)
Consumed ==
    /\ result = "none"
    /\ ~ Looping
    /\ result' = IF usTopicIndex > Len(topic) /\ usTopicFilterIndex > Len(filter)
                 THEN "match" ELSE "no match"
    /\ UNCHANGED <<topic, filter, usTopicIndex, usTopicFilterIndex>>

MatchNext ==
    \/ CornerCase
    \/ Advance
    \/ SingleLevel
    \/ MultiLevel
    \/ Mismatch
    \/ Consumed

-----------------------------------------------------------------------------
(* The reference: topics and filters as sequences of levels, as in section  *)
(* 4.7 of the MQTT 3.1.1 standard.                                          *)

Cuts(s)     == SetToSortSeq({x \in DOMAIN s : s[x] = "/"} \cup {0, Len(s) + 1}, <)
Levels(s)   == LET cuts == Cuts(s) IN
               [i \in 1 .. Len(cuts) - 1 |-> SubSeq(s, cuts[i] + 1, cuts[i + 1] - 1)]

ValidLevels(f) ==
    \A i \in DOMAIN f :
        \/ f[i] = <<"#">> /\ i = Len(f)
        \/ f[i] = <<"+">>
        \/ \A x \in DOMAIN f[i] : f[i][x] \notin {"+", "#"}

(* '#' stands for any number of levels, none included. *)
MatchLevels(f, t) ==
    LET multi == f[Len(f)] = <<"#">>
        fixed == IF multi THEN Len(f) - 1 ELSE Len(f)
    IN  /\ IF multi THEN Len(t) >= fixed ELSE Len(t) = fixed
        /\ \A i \in 1 .. fixed : f[i] = <<"+">> \/ f[i] = t[i]

-----------------------------------------------------------------------------

TypeOK ==
    /\ topic \in Seq(Letters \cup {"/"})
    /\ filter \in Seq(Letters \cup {"/", "+", "#"})
    /\ usTopicIndex \in 1 .. Len(topic) + 1
    /\ usTopicFilterIndex \in 1 .. Len(filter) + 1
    /\ result \in {"none", "match", "no match"}

(* The filters prvGetTopicFilterType accepts are the valid ones; a misplaced *)
(* wild card would make the matching loop read past the end of the filter.   *)
AcceptedIsValid == ValidLevels(Levels(filter))

(* The loop has no case for a final '#' that stands for the parent level of  *)
(* a '+', as in "+/#" and "a", or for one empty level, as in "a/#" and "a/". *)
UnhandledHash(f, t) ==
    /\ f[Len(f)] = <<"#">>
    /\ \/ Len(t) = Len(f) - 1 /\ f[Len(t)] = <<"+">>
       \/ Len(t) = Len(f) /\ t[Len(t)] = << >>

(* A message is never delivered to a subscription whose filter does not      *)
(* match its topic, and every subscription whose filter matches gets it,     *)
(* except in these two cases.  The loop of prvDoesTopicMatchTopicFilter      *)
(* stays inside both strings.                                                *)
MatchIsExact ==
    /\ TypeOK
    /\ result = "match" => MatchLevels(Levels(filter), Levels(topic))
    /\ result = "no match" /\ MatchLevels(Levels(filter), Levels(topic))
           => UnhandledHash(Levels(filter), Levels(topic))

(* The loop ends: no input keeps the MQTT task in it. *)
Terminates == result = "none" ~> result # "none"
==============================================================================
