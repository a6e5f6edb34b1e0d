--------------------------- MODULE RoutingProofs ---------------------------
(***************************************************************************)
(* Which channel a destination goes through, for any number of channels,   *)
(* names, hosts and rules and for addresses of any width: the order of the *)
(* lines, what the entries send, what a new rule takes and what a backup   *)
(* brings back.                                                            *)
(***************************************************************************)
EXTENDS Routing, FiniteSetTheorems, SequenceTheorems, TLAPS

-----------------------------------------------------------------------------
(* Orders.                                                                  *)

(* A set of numbers that is not empty has a least member.                   *)
LEMMA LeastNumber ==
    ASSUME NEW T \in SUBSET Nat, T # {}
    PROVE  \E m \in T : \A k \in T : m <= k
<1>1. IsWellFoundedOn(OpToRel(<, Nat), Nat) BY NatLessThanWellFounded
<1>2. PICK m \in T : \A k \in T : <<k, m>> \notin OpToRel(<, Nat)
    BY <1>1, WFMin
<1>3. \A k \in T : ~ k < m BY <1>2 DEF OpToRel
<1> QED BY <1>3

Linear(S, before) ==
    /\ \A x \in S : <<x, x>> \notin before
    /\ \A x, y, z \in S :
         <<x, y>> \in before /\ <<y, z>> \in before => <<x, z>> \in before
    /\ \A x, y \in S : x # y => <<x, y>> \in before \/ <<y, x>> \in before

(* o lists the members of S, each once, as before has them.                 *)
Lists(o, S, before) ==
    /\ o \in [1..Cardinality(S) -> S]
    /\ \A x \in S : \E k \in 1..Cardinality(S) : o[k] = x
    /\ \A i, j \in 1..Cardinality(S) : i < j <=> <<o[i], o[j]>> \in before

(* InOrder lists what is ordered linearly.                                  *)
LEMMA InOrderLists ==
    ASSUME NEW S, IsFiniteSet(S), NEW before, Linear(S, before)
    PROVE  /\ Cardinality(S) \in Nat
           /\ Lists(InOrder(S, before), S, before)
<1> DEFINE n == Cardinality(S)
           Below(x) == {y \in S : <<y, x>> \in before}
           rank == [x \in S |-> Cardinality(Below(x))]
           place(k) == CHOOSE x \in S : Cardinality(Below(x)) = k - 1
           o == [k \in 1..n |-> place(k)]
<1>1. n \in Nat BY FS_CardinalityType
<1>2. \A x \in S : IsFiniteSet(Below(x)) /\ rank[x] \in 0..(n - 1)
    <2> TAKE x \in S
    <2>1. Below(x) \in SUBSET S /\ x \notin Below(x) BY DEF Linear
    <2>2. IsFiniteSet(Below(x)) /\ Cardinality(Below(x)) <= n
          /\ Cardinality(Below(x)) # n
        BY <2>1, FS_Subset
    <2>3. Cardinality(Below(x)) \in Nat BY <2>2, FS_CardinalityType
    <2> QED BY <2>2, <2>3, <1>1
<1>3. \A x, y \in S : <<x, y>> \in before => rank[x] < rank[y]
    <2> SUFFICES ASSUME NEW x \in S, NEW y \in S, <<x, y>> \in before
                 PROVE  rank[x] < rank[y]
        OBVIOUS
    <2>1. Below(x) \in SUBSET Below(y) /\ x \in Below(y) /\ x \notin Below(x)
        BY DEF Linear
    <2>2. IsFiniteSet(Below(y)) BY <1>2
    <2> HIDE DEF Below
    <2>3. Cardinality(Below(x)) <= Cardinality(Below(y))
          /\ Cardinality(Below(x)) # Cardinality(Below(y))
        BY <2>1, <2>2, FS_Subset
    <2> QED BY <2>3, <1>2
<1>4. \A x, y \in S : rank[x] = rank[y] => x = y
    <2> SUFFICES ASSUME NEW x \in S, NEW y \in S, rank[x] = rank[y], x # y
                 PROVE  FALSE
        OBVIOUS
    <2>1. rank[x] < rank[y] \/ rank[y] < rank[x] BY <1>3 DEF Linear
    <2> QED BY <2>1, <1>2, <1>1
<1>5. \A k \in 1..n : \E x \in S : rank[x] = k - 1
    <2>1. IsFiniteSet(0..(n - 1)) /\ Cardinality(0..(n - 1)) = n
        <3>1. 0 \in Int /\ n - 1 \in Int /\ (IF 0 > n - 1 THEN 0 ELSE (n - 1) - 0 + 1) = n
            BY <1>1
        <3> HIDE DEF n
        <3> QED BY <3>1, FS_Interval
    <2>2. rank \in [S -> 0..(n - 1)] BY <1>2
    <2> HIDE DEF rank
    <2>3. rank \in Injection(S, 0..(n - 1))
        BY <1>4, <2>2 DEF Injection, IsInjective
    <2>4. rank \in Surjection(S, 0..(n - 1)) BY <2>1, <2>3, FS_Injection
    <2>5. \A k \in 1..n : k - 1 \in 0..(n - 1) BY <1>1
    <2> QED BY <2>4, <2>5 DEF Surjection
<1>6. \A k \in 1..n : o[k] \in S /\ rank[o[k]] = k - 1
    <2> TAKE k \in 1..n
    <2>1. \E x \in S : Cardinality(Below(x)) = k - 1 BY <1>5
    <2>2. place(k) \in S /\ Cardinality(Below(place(k))) = k - 1 BY <2>1
    <2> QED BY <2>2
<1>7. o \in [1..n -> S] BY <1>6
<1>8. \A x \in S : \E k \in 1..n : o[k] = x
    <2> TAKE x \in S
    <2>1. rank[x] \in 0..(n - 1) BY <1>2
    <2> HIDE DEF rank, o
    <2>2. rank[x] + 1 \in 1..n /\ (rank[x] + 1) - 1 = rank[x] BY <1>1, <2>1
    <2>3. rank[o[rank[x] + 1]] = rank[x] /\ o[rank[x] + 1] \in S BY <1>6, <2>2
    <2> QED BY <1>4, <2>2, <2>3
<1>9. \A i, j \in 1..n : i < j <=> <<o[i], o[j]>> \in before
    <2> SUFFICES ASSUME NEW i \in 1..n, NEW j \in 1..n
                 PROVE  i < j <=> <<o[i], o[j]>> \in before
        OBVIOUS
    <2>1. rank[o[i]] = i - 1 /\ rank[o[j]] = j - 1 /\ o[i] \in S /\ o[j] \in S
        BY <1>6
    <2> HIDE DEF rank, o
    <2>2. <<o[i], o[j]>> \in before => i < j BY <2>1, <1>3, <1>1
    <2>3. <<o[j], o[i]>> \in before => j < i BY <2>1, <1>3, <1>1
    <2>4. o[i] = o[j] \/ <<o[i], o[j]>> \in before \/ <<o[j], o[i]>> \in before
        BY <2>1 DEF Linear
    <2> QED BY <2>1, <2>2, <2>3, <2>4, <1>1
<1>10. InOrder(S, before) = o BY DEF InOrder
<1> HIDE DEF o
<1> QED BY <1>1, <1>7, <1>8, <1>9, <1>10 DEF Lists

Younger(S) == {p \in S \X S : p[1] < p[2]}

LEMMA ByAgeLists ==
    ASSUME NEW S \in SUBSET Nat, IsFiniteSet(S)
    PROVE  /\ Cardinality(S) \in Nat
           /\ ByAge(S) \in [1..Cardinality(S) -> S]
           /\ \A x \in S : \E k \in 1..Cardinality(S) : ByAge(S)[k] = x
           /\ \A i, j \in 1..Cardinality(S) :
                 i < j <=> ByAge(S)[i] < ByAge(S)[j]
<1>1. \A x, y \in S : <<x, y>> \in Younger(S) <=> x < y BY DEF Younger
<1>2. Linear(S, Younger(S)) BY <1>1 DEF Linear
<1>3. Cardinality(S) \in Nat /\ Lists(ByAge(S), S, Younger(S))
    BY <1>2, InOrderLists DEF ByAge, Younger
<1> QED BY <1>1, <1>3 DEF Lists

(* What is chosen from a sequence is a sequence of its elements.            *)
LEMMA ChosenElements ==
    ASSUME NEW T, NEW s, NEW S \in SUBSET Nat, IsFiniteSet(S),
           \A i \in S : s[i] \in T
    PROVE  /\ Chosen(s, S) \in Seq(T)
           /\ Len(Chosen(s, S)) = Cardinality(S)
           /\ DOMAIN Chosen(s, S) = 1..Cardinality(S)
           /\ \A k \in 1..Cardinality(S) : \E i \in S : Chosen(s, S)[k] = s[i]
           /\ \A i \in S : \E k \in 1..Cardinality(S) : Chosen(s, S)[k] = s[i]
<1>1. /\ Cardinality(S) \in Nat
      /\ ByAge(S) \in [1..Cardinality(S) -> S]
      /\ \A x \in S : \E k \in 1..Cardinality(S) : ByAge(S)[k] = x
    BY ByAgeLists
<1>2. \A k \in 1..Cardinality(S) : Chosen(s, S)[k] = s[ByAge(S)[k]] BY DEF Chosen
<1>3. Chosen(s, S) \in [1..Cardinality(S) -> T] BY <1>1 DEF Chosen
<1>4. Chosen(s, S) \in Seq(T) BY <1>1, <1>3, SeqDef
<1>5. Len(Chosen(s, S)) = Cardinality(S) BY <1>1, <1>3, <1>4, LenProperties
<1>6. DOMAIN Chosen(s, S) = 1..Cardinality(S) BY DEF Chosen
<1>7. \A k \in 1..Cardinality(S) : \E i \in S : Chosen(s, S)[k] = s[i]
    BY <1>1, <1>2
<1>8. \A i \in S : \E k \in 1..Cardinality(S) : Chosen(s, S)[k] = s[i]
    BY <1>1, <1>2
<1> QED BY <1>4, <1>5, <1>6, <1>7, <1>8

LEMMA Positions ==
    ASSUME NEW T, NEW s \in Seq(T)
    PROVE  /\ Len(s) \in Nat
           /\ DOMAIN s = 1..Len(s)
           /\ DOMAIN s \in SUBSET Nat
           /\ IsFiniteSet(DOMAIN s)
           /\ Cardinality(DOMAIN s) = Len(s)
           /\ \A i \in DOMAIN s : s[i] \in T
<1>1. Len(s) \in Nat /\ DOMAIN s = 1..Len(s) /\ s \in [1..Len(s) -> T]
    BY LenProperties
<1>2. IsFiniteSet(1..Len(s)) /\ Cardinality(1..Len(s)) = Len(s)
    BY <1>1, FS_Interval
<1> QED BY <1>1, <1>2

(* A selection is no longer than the sequence.                              *)
LEMMA ChosenIsShorter ==
    ASSUME NEW T, NEW s \in Seq(T), NEW S \in SUBSET DOMAIN s
    PROVE  /\ Chosen(s, S) \in Seq(T)
           /\ Len(Chosen(s, S)) <= Len(s)
           /\ DOMAIN Chosen(s, S) = 1..Cardinality(S)
           /\ \A k \in 1..Cardinality(S) : \E i \in S : Chosen(s, S)[k] = s[i]
           /\ \A i \in S : \E k \in 1..Cardinality(S) : Chosen(s, S)[k] = s[i]
<1>1. /\ DOMAIN s \in SUBSET Nat /\ IsFiniteSet(DOMAIN s)
      /\ Cardinality(DOMAIN s) = Len(s) /\ \A i \in DOMAIN s : s[i] \in T
    BY Positions
<1>2. IsFiniteSet(S) /\ Cardinality(S) <= Len(s) BY <1>1, FS_Subset
<1>3. S \in SUBSET Nat /\ \A i \in S : s[i] \in T BY <1>1
<1>4. Len(Chosen(s, S)) = Cardinality(S) BY <1>2, <1>3, ChosenElements
<1> QED BY <1>2, <1>3, <1>4, ChosenElements

-----------------------------------------------------------------------------
(* Types.                                                                   *)

(* What an entered text becomes is nothing or a pattern.                    *)
LEMMA PlannedIsPattern ==
    ASSUME NEW t \in AddrText \cup HostText \cup JunkText,
           NEW k \in {"any", "ip", "domain"}
    PROVE  Planned(t, k) = Nothing \/ Planned(t, k) \in Patterns
<1> USE BoundsAssumption
<1>1. CASE t \in AddrText
    <2>1. t.form = "addr" /\ t.fam \in {4, 6} /\ t.bits \in Bits /\ t.mask \in Masks
        BY <1>1 DEF AddrText
    <2>2. NormIp(t) = Nothing \/ NormIp(t) \in Patterns
        <3>1. CASE NormIp(t) = Nothing BY <3>1
        <3>2. CASE NormIp(t) # Nothing
            <4>1. NormIp(t) = Ip(t.fam, t.bits, IF t.mask = NoMask THEN Width ELSE t.mask)
                  /\ ~(t.mask > Width)
                BY <3>2 DEF NormIp
            <4>2. (IF t.mask = NoMask THEN Width ELSE t.mask) \in 0..Width
                BY <2>1, <4>1 DEF NoMask, Masks
            <4> QED BY <2>1, <4>1, <4>2 DEF Ip, Patterns, Networks
        <3> QED BY <3>1, <3>2
    <2>3. NormDomain(t) = Nothing \/ NormDomain(t) \in Patterns
        <3>1. AddrAsHost(t) = <<>> \/ AddrAsHost(t) \in RuleHosts
            BY <2>1 DEF AddrAsHost, RuleHosts
        <3> QED BY <2>1, <3>1 DEF NormDomain, Domain, Patterns, Domains
    <2> QED BY <2>1, <2>2, <2>3 DEF Planned, Classify
<1>2. CASE t \in HostText
    <2>1. t.form = "host" /\ t.host \in RuleHosts /\ t.wild \in 0..3
        BY <1>2, HostsAssumption DEF HostText, RuleHosts
    <2>2. NormDomain(t) \in Patterns
        BY <2>1 DEF NormDomain, Domain, Patterns, Domains
    <2> QED BY <2>1, <2>2 DEF Planned, Classify
<1>3. CASE t \in JunkText
    <2>1. t.form = "junk" BY <1>3 DEF JunkText
    <2> QED BY <2>1 DEF Planned, Classify, NormDomain
<1> QED BY <1>1, <1>2, <1>3

(* What a stored pattern is put out as, by its kind.                        *)
LEMMA NormalForms ==
    ASSUME NEW pat \in Patterns
    PROVE  \/ /\ pat.kind = "ip" /\ pat.fam \in {4, 6} /\ pat.bits \in Bits
              /\ Prefix(pat) \in 0..Width /\ Prefix(pat) \in Nat
              /\ NormalizeStored(pat) \in Networks
              /\ NormalizeStored(pat) # Nothing
              /\ NormalizeStored(pat).kind = "ip"
              /\ NormalizeStored(pat).fam = pat.fam
              /\ NormalizeStored(pat).len = Prefix(pat)
              /\ NormalizeStored(pat) = [pat EXCEPT !.len = Prefix(pat)]
              /\ pat.len # NoMask => NormalizeStored(pat) = pat
              /\ Prefix(NormalizeStored(pat)) = Prefix(pat)
              /\ [NormalizeStored(pat) EXCEPT !.len = Prefix(pat)] = NormalizeStored(pat)
           \/ /\ pat.kind = "domain" /\ pat.wild \in 0..3 /\ pat.host \in RuleHosts
              /\ NormalizeStored(pat) \in Domains
              /\ NormalizeStored(pat) # Nothing
              /\ NormalizeStored(pat).kind = "domain"
              /\ NormalizeStored(pat).host = pat.host
              /\ NormalizeStored(pat).wild = IF pat.wild > 0 THEN pat.wild - 1 ELSE 0
           \/ pat.kind = "malformed" /\ NormalizeStored(pat) = Nothing
<1> USE BoundsAssumption
<1>1. CASE pat \in Networks
    <2>1. /\ pat.kind = "ip" /\ pat.fam \in {4, 6} /\ pat.bits \in Bits
          /\ pat.len \in (0..Width) \cup {NoMask}
          /\ pat = [kind |-> "ip", fam |-> pat.fam, bits |-> pat.bits, len |-> pat.len]
        BY <1>1 DEF Networks
    <2>2. /\ Prefix(pat) \in 0..Width /\ Prefix(pat) # NoMask
          /\ pat.len # NoMask => Prefix(pat) = pat.len
        BY <2>1 DEF Prefix, NoMask
    <2> DEFINE net == Ip(pat.fam, pat.bits, Prefix(pat))
    <2>3. NormalizeStored(pat) = net BY <2>1 DEF NormalizeStored
    <2>4. /\ net \in Networks /\ net.kind = "ip" /\ net.fam = pat.fam
          /\ net.len = Prefix(pat)
          /\ [net EXCEPT !.len = Prefix(pat)] = net
        BY <2>1, <2>2 DEF Ip, Networks
    <2>5. net # Nothing BY <2>4 DEF Nothing
    <2>6. net = [pat EXCEPT !.len = Prefix(pat)] BY <2>1 DEF Ip
    <2>7. pat.len # NoMask => net = pat BY <2>1, <2>2 DEF Ip
    <2>8. Prefix(net) = Prefix(pat) BY <2>2, <2>4 DEF Prefix
    <2> HIDE DEF net
    <2> QED BY <2>1, <2>2, <2>3, <2>4, <2>5, <2>6, <2>7, <2>8
<1>2. CASE pat \in Domains
    <2>1. pat.kind = "domain" /\ pat.host \in RuleHosts /\ pat.wild \in 0..3
        BY <1>2 DEF Domains
    <2> DEFINE name0 == Domain(pat.host, IF pat.wild > 0 THEN pat.wild - 1 ELSE 0)
    <2>2. NormalizeStored(pat) = name0 BY <2>1 DEF NormalizeStored
    <2>3. /\ name0 \in Domains /\ name0.kind = "domain" /\ name0.host = pat.host
          /\ name0.wild = IF pat.wild > 0 THEN pat.wild - 1 ELSE 0
        BY <2>1 DEF Domain, Domains
    <2>4. name0 # Nothing BY <2>3 DEF Nothing
    <2> HIDE DEF name0
    <2> QED BY <2>1, <2>2, <2>3, <2>4
<1>3. CASE pat = Malformed
    <2>1. pat.kind = "malformed" BY <1>3 DEF Malformed
    <2> QED BY <2>1 DEF NormalizeStored
<1> QED BY <1>1, <1>2, <1>3 DEF Patterns

LEMMA NormalizedIsPattern ==
    ASSUME NEW pat \in Patterns, NormalizeStored(pat) # Nothing
    PROVE  NormalizeStored(pat) \in Patterns
BY NormalForms DEF Patterns

(* plan_rules gives rules of the channel.                                   *)
LEMMA PlanIsRules ==
    ASSUME NEW c \in Channels, NEW t \in Entries, NEW k \in {"any", "ip", "domain"}
    PROVE  /\ PlanRules(c, t, k) \in Seq(Rule)
           /\ \A r \in ToSet(PlanRules(c, t, k)) : r.ch = c
<1> DEFINE known == {r.pat : r \in {x \in ToSet(rows) : x.ch = c}}
           pat == [i \in DOMAIN t |-> Planned(t[i], k)]
           new == {i \in DOMAIN t : /\ pat[i] # Nothing /\ pat[i] \notin known
                                    /\ \A j \in 1..(i - 1) : pat[j] # pat[i]}
           all == [i \in DOMAIN t |-> Row(c, pat[i], TRUE)]
           Own == {r \in Rule : r.ch = c}
<1>1. /\ DOMAIN t \in SUBSET Nat /\ IsFiniteSet(DOMAIN t)
      /\ \A i \in DOMAIN t : t[i] \in AddrText \cup HostText \cup JunkText
    BY EntriesAssumption, Positions
<1>2. \A i \in new : pat[i] \in Patterns BY <1>1, PlannedIsPattern
<1>3. new \in SUBSET Nat /\ IsFiniteSet(new) BY <1>1, FS_Subset
<1>4. \A i \in new : all[i] \in Own BY <1>2 DEF Row, Rule
<1>5. PlanRules(c, t, k) = Chosen(all, new) BY DEF PlanRules
<1> HIDE DEF all, new, Own
<1>6. Chosen(all, new) \in Seq(Own) BY <1>3, <1>4, ChosenElements
<1>7. \A r \in ToSet(Chosen(all, new)) : r \in Own BY <1>6, Positions DEF ToSet
<1>8. Chosen(all, new) \in Seq(Rule) BY <1>6, SeqMonotonic DEF Own
<1> QED BY <1>5, <1>7, <1>8 DEF Own

LEMMA ChosenRules ==
    ASSUME NEW rs \in Seq(Rule), NEW S \in SUBSET DOMAIN rs, NEW N,
           \A i \in S : rs[i].ch \in N
    PROVE  /\ Chosen(rs, S) \in Seq(Rule)
           /\ \A r \in ToSet(Chosen(rs, S)) : r.ch \in N
<1> DEFINE Own == {r \in Rule : r.ch \in N}
<1>1. DOMAIN rs \in SUBSET Nat /\ IsFiniteSet(DOMAIN rs)
      /\ \A i \in DOMAIN rs : rs[i] \in Rule
    BY Positions
<1>2. S \in SUBSET Nat /\ IsFiniteSet(S) /\ \A i \in S : rs[i] \in Own
    BY <1>1, FS_Subset
<1> HIDE DEF Own
<1>3. Chosen(rs, S) \in Seq(Own) BY <1>2, ChosenElements
<1>4. \A r \in ToSet(Chosen(rs, S)) : r \in Own BY <1>3, Positions DEF ToSet
<1>5. Chosen(rs, S) \in Seq(Rule) BY <1>3, SeqMonotonic DEF Own
<1> QED BY <1>4, <1>5 DEF Own

(* The rules of a channel.                                                  *)
LEMMA RulesOfRules ==
    ASSUME NEW rs \in Seq(Rule), NEW c
    PROVE  RulesOf(rs, c) \in Seq(Rule)
BY ChosenRules DEF RulesOf

(* The image of a finite set is finite.                                     *)
LEMMA FiniteImage ==
    ASSUME NEW f, NEW S \in SUBSET DOMAIN f, IsFiniteSet(S)
    PROVE  IsFiniteSet({f[i] : i \in S})
<1> DEFINE T == {f[i] : i \in S}
           g == [i \in S |-> f[i]]
<1>1. g \in Surjection(S, T) BY DEF Surjection
<1> HIDE DEF g, T
<1>2. IsFiniteSet(T) BY <1>1, FS_Surjection
<1> QED BY <1>2 DEF T

(* config_import: the entries that enter, and where their rules come from.  *)
Entering == {i \in DOMAIN file : \A j \in 1..(i - 1) : file[j].name # file[i].name}
Incoming == UNION {{i} \X Sound(file[i].rules) : i \in Entering}
Earlier  == {p \in Incoming \X Incoming :
               \/ p[1][1] < p[2][1]
               \/ p[1][1] = p[2][1] /\ p[1][2] < p[2][2]}

LEMMA IncomingIsFinite ==
    ASSUME file \in Seq([name : Names, rules : Seq(Rule)])
    PROVE  /\ IsFiniteSet(Entering) /\ Entering \subseteq DOMAIN file
           /\ IsFiniteSet(Incoming)
           /\ \A at \in Incoming :
                /\ at = <<at[1], at[2]>> /\ at[1] \in Entering
                /\ at[2] \in Sound(file[at[1]].rules)
                /\ at[2] \in DOMAIN file[at[1]].rules
                /\ at[1] \in Nat /\ at[2] \in Nat
                /\ file[at[1]].rules[at[2]] \in Rule
<1>1. /\ DOMAIN file \in SUBSET Nat /\ IsFiniteSet(DOMAIN file)
      /\ \A i \in DOMAIN file : file[i] \in [name : Names, rules : Seq(Rule)]
    BY Positions
<1>2. IsFiniteSet(Entering) /\ Entering \subseteq DOMAIN file
    <2>1. Entering \in SUBSET DOMAIN file BY DEF Entering
    <2> QED BY <1>1, <2>1, FS_Subset
<1>3. \A i \in Entering : /\ IsFiniteSet(DOMAIN file[i].rules)
                          /\ DOMAIN file[i].rules \in SUBSET Nat
                          /\ \A j \in DOMAIN file[i].rules : file[i].rules[j] \in Rule
                          /\ IsFiniteSet(Sound(file[i].rules))
                          /\ Sound(file[i].rules) \subseteq DOMAIN file[i].rules
    <2> TAKE i \in Entering
    <2>1. file[i].rules \in Seq(Rule) BY <1>1, <1>2
    <2>2. Sound(file[i].rules) \in SUBSET DOMAIN file[i].rules BY DEF Sound
    <2>3. IsFiniteSet(DOMAIN file[i].rules) BY <2>1, Positions
    <2> QED BY <2>1, <2>2, <2>3, Positions, FS_Subset
<1>4. IsFiniteSet(Incoming)
    <2> DEFINE slots == [i \in Entering |-> {i} \X Sound(file[i].rules)]
               T == {slots[i] : i \in Entering}
    <2>1. \A i \in Entering : IsFiniteSet(slots[i])
        <3> TAKE i \in Entering
        <3>1. IsFiniteSet({i}) BY FS_Singleton
        <3>2. IsFiniteSet({i} \X Sound(file[i].rules)) BY <1>3, <3>1, FS_Product
        <3> QED BY <3>2
    <2>2. DOMAIN slots = Entering OBVIOUS
    <2>3. Incoming = UNION T BY DEF Incoming
    <2> HIDE DEF slots
    <2>4. IsFiniteSet(T) BY <1>2, <2>2, FiniteImage
    <2>5. IsFiniteSet(UNION T) BY <2>1, <2>4, FS_UNION
    <2> QED BY <2>3, <2>5
<1>5. \A at \in Incoming : /\ at = <<at[1], at[2]>> /\ at[1] \in Entering
                           /\ at[2] \in Sound(file[at[1]].rules)
    BY DEF Incoming
<1>6. \A i \in Entering : i \in Nat BY <1>1, <1>2
<1> QED BY <1>2, <1>3, <1>4, <1>5, <1>6

LEMMA IncomingOrder ==
    ASSUME file \in Seq([name : Names, rules : Seq(Rule)])
    PROVE  /\ Cardinality(Incoming) \in Nat
           /\ Lists(InOrder(Incoming, Earlier), Incoming, Earlier)
<1>1. IsFiniteSet(Incoming) BY IncomingIsFinite
<1>2. \A at \in Incoming : at = <<at[1], at[2]>> /\ at[1] \in Nat /\ at[2] \in Nat
    BY IncomingIsFinite
<1>3. \A x, y \in Incoming : <<x, y>> \in Earlier <=>
          (x[1] < y[1] \/ (x[1] = y[1] /\ x[2] < y[2]))
    BY DEF Earlier
<1>4. \A x \in Incoming : <<x, x>> \notin Earlier BY <1>2, <1>3
<1>5. \A x, y, z \in Incoming :
          <<x, y>> \in Earlier /\ <<y, z>> \in Earlier => <<x, z>> \in Earlier
    <2> SUFFICES ASSUME NEW x \in Incoming, NEW y \in Incoming, NEW z \in Incoming,
                        <<x, y>> \in Earlier, <<y, z>> \in Earlier
                 PROVE  <<x, z>> \in Earlier
        OBVIOUS
    <2>1. /\ x[1] \in Nat /\ x[2] \in Nat /\ y[1] \in Nat /\ y[2] \in Nat
          /\ z[1] \in Nat /\ z[2] \in Nat
        BY <1>2
    <2>2. x[1] < y[1] \/ (x[1] = y[1] /\ x[2] < y[2]) BY <1>3
    <2>3. y[1] < z[1] \/ (y[1] = z[1] /\ y[2] < z[2]) BY <1>3
    <2>4. x[1] < z[1] \/ (x[1] = z[1] /\ x[2] < z[2]) BY <2>1, <2>2, <2>3
    <2> QED BY <1>3, <2>4
<1>6. \A x, y \in Incoming : x # y => <<x, y>> \in Earlier \/ <<y, x>> \in Earlier
    <2> SUFFICES ASSUME NEW x \in Incoming, NEW y \in Incoming, x # y
                 PROVE  <<x, y>> \in Earlier \/ <<y, x>> \in Earlier
        OBVIOUS
    <2>1. x[1] \in Nat /\ x[2] \in Nat /\ y[1] \in Nat /\ y[2] \in Nat
        BY <1>2
    <2>2. x = <<x[1], x[2]>> /\ y = <<y[1], y[2]>> BY <1>2
    <2>3. x[1] # y[1] \/ x[2] # y[2] BY <2>2
    <2>4. \/ x[1] < y[1] \/ y[1] < x[1]
          \/ (x[1] = y[1] /\ (x[2] < y[2] \/ y[2] < x[2]))
        BY <2>1, <2>3
    <2> QED BY <1>3, <2>4
<1>7. Linear(Incoming, Earlier) BY <1>4, <1>5, <1>6 DEF Linear
<1> QED BY <1>1, <1>7, InOrderLists

(* What an import leaves: rules and entries of the document go together.    *)
LEMMA ImportEffect ==
    ASSUME TypeOK, NEW id \in [DOMAIN file -> Channels], Import(id)
    PROVE  /\ name' = [c \in DOMAIN name' |-> name'[c]]
           /\ DOMAIN name' = {id[i] : i \in Entering}
           /\ \A i \in Entering : name'[id[i]] = file[i].name
           /\ rows' \in Seq(Rule)
           /\ \A k \in DOMAIN rows' : \E a \in Entering :
                \E b \in Sound(file[a].rules) :
                    rows'[k] = ImportRule(id[a], file[a].rules[b])
           /\ \A a \in Entering : \A b \in Sound(file[a].rules) :
                \E k \in DOMAIN rows' :
                    rows'[k] = ImportRule(id[a], file[a].rules[b])
<1> DEFINE order == InOrder(Incoming, Earlier)
           rule(at) == ImportRule(id[at[1]], file[at[1]].rules[at[2]])
           n == Cardinality(Incoming)
<1>1. file \in Seq([name : Names, rules : Seq(Rule)]) BY DEF TypeOK
<1>2. n \in Nat /\ order \in [1..n -> Incoming]
      /\ \A at \in Incoming : \E k \in 1..n : order[k] = at
    BY <1>1, IncomingOrder DEF Lists
<1>3. /\ \A i, j \in DOMAIN file : id[i] = id[j] => i = j
      /\ name' = [c \in {id[i] : i \in Entering} |->
                    file[CHOOSE i \in Entering : id[i] = c].name]
      /\ rows' = [k \in 1..n |-> rule(order[k])]
    BY DEF Import, Entering, Incoming, Earlier
<1>4. Entering \subseteq DOMAIN file BY <1>1, IncomingIsFinite
<1>5. \A i \in Entering : name'[id[i]] = file[i].name
    <2> TAKE i \in Entering
    <2>1. (CHOOSE j \in Entering : id[j] = id[i]) = i BY <1>3, <1>4
    <2> QED BY <1>3, <2>1
<1>6. \A at \in Incoming : at[1] \in Entering /\ at[2] \in Sound(file[at[1]].rules)
                           /\ rule(at) \in Rule
    <2> TAKE at \in Incoming
    <2>1. at[1] \in Entering /\ at[2] \in Sound(file[at[1]].rules)
          /\ file[at[1]].rules[at[2]] \in Rule
        BY <1>1, IncomingIsFinite
    <2>2. id[at[1]] \in Channels BY <1>4, <2>1
    <2>3. \A r \in Rule : NormalizeStored(r.pat) # Nothing =>
                ImportRule(id[at[1]], r) \in Rule
        BY <2>2, NormalizedIsPattern DEF ImportRule, Row, Rule
    <2>4. NormalizeStored(file[at[1]].rules[at[2]].pat) # Nothing
        BY <2>1 DEF Sound
    <2> QED BY <2>1, <2>3, <2>4
<1> HIDE DEF order, n
<1>7. rows' \in [1..n -> Rule] BY <1>2, <1>3, <1>6
<1>8. rows' \in Seq(Rule) BY <1>2, <1>7, SeqDef
<1>9. \A k \in DOMAIN rows' : \E a \in Entering : \E b \in Sound(file[a].rules) :
          rows'[k] = ImportRule(id[a], file[a].rules[b])
    <2> TAKE k \in DOMAIN rows'
    <2>1. k \in 1..n /\ order[k] \in Incoming BY <1>2, <1>7
    <2> QED BY <1>3, <1>6, <2>1
<1>10. \A a \in Entering : \A b \in Sound(file[a].rules) : \E k \in DOMAIN rows' :
          rows'[k] = ImportRule(id[a], file[a].rules[b])
    <2> TAKE a \in Entering
    <2> TAKE b \in Sound(file[a].rules)
    <2>1. <<a, b>> \in Incoming BY DEF Incoming
    <2>2. PICK k \in 1..n : order[k] = <<a, b>> BY <1>2, <2>1
    <2>3. rows'[k] = ImportRule(id[a], file[a].rules[b]) BY <1>3, <2>2
    <2> QED BY <1>7, <2>3
<1>11. DOMAIN name' = {id[i] : i \in Entering}
       /\ name' = [c \in DOMAIN name' |-> name'[c]]
    <2> DEFINE T == {id[i] : i \in Entering}
               entry(c) == file[CHOOSE i \in Entering : id[i] = c].name
    <2>1. name' = [c \in T |-> entry(c)] BY <1>3
    <2> HIDE DEF T, entry
    <2>2. DOMAIN name' = T /\ name' = [c \in DOMAIN name' |-> name'[c]] BY <2>1
    <2> QED BY <2>2 DEF T
<1> QED BY <1>5, <1>8, <1>9, <1>10, <1>11

THEOREM TypeCorrect == Spec => []TypeOK
<1>1. Init => TypeOK
    <2> SUFFICES ASSUME Init PROVE TypeOK OBVIOUS
    <2>1. /\ file = <<>> /\ moved = FALSE
          /\ origin = [name |-> <<>>, rows |-> <<>>] /\ lossy = FALSE
        BY DEF Init
    <2>2. PICK db \in Legacy : /\ name = db.name /\ domains = db.domains
                              /\ rows = Migrated(db.rows, db.domains)
        BY DEF Init
    <2>3. Tables(db.name, db.rows) /\ OwnRules(db.name, db.domains)
        BY LegacyAssumption
    <2>4. Tables(name, rows) /\ OwnRules(name, domains)
        BY <2>2, <2>3 DEF Tables, Migrated
    <2>5. DOMAIN <<>> = {} /\ IsFiniteSet({}) BY FS_EmptySet
    <2>6. <<>> \in Seq(Rule) /\ <<>> \in Seq([name : Names, rules : Seq(Rule)])
        BY EmptySeq
    <2>7. Tables(<<>>, <<>>) BY <2>5, <2>6 DEF Tables, OwnRules, ToSet
    <2> QED BY <2>1, <2>4, <2>6, <2>7 DEF TypeOK
<1>2. TypeOK /\ [Next]_vars => TypeOK'
    <2> SUFFICES ASSUME TypeOK, [Next]_vars PROVE TypeOK' OBVIOUS
    <2>0. /\ DOMAIN name \subseteq Channels /\ IsFiniteSet(DOMAIN name)
          /\ name \in [DOMAIN name -> Names] /\ rows \in Seq(Rule)
          /\ \A i \in DOMAIN rows : rows[i] \in Rule /\ rows[i].ch \in DOMAIN name
          /\ file \in Seq([name : Names, rules : Seq(Rule)])
          /\ domains \in Seq(Rule)
          /\ \A i \in DOMAIN domains : domains[i].ch \in DOMAIN name
        BY Positions DEF TypeOK, Tables, OwnRules, ToSet
    <2>1. ASSUME NEW c \in Channels, NEW n \in Names, CreateChannel(c, n)
          PROVE  TypeOK'
        <3>1. /\ name' = [x \in DOMAIN name \cup {c} |-> IF x = c THEN n ELSE name[x]]
              /\ UNCHANGED <<rows, domains, file, moved, origin, lossy>>
            BY <2>1 DEF CreateChannel, InDb
        <3>2. IsFiniteSet(DOMAIN name \cup {c}) BY <2>0, FS_AddElement
        <3>3. DOMAIN name' = DOMAIN name \cup {c} /\ name' \in [DOMAIN name' -> Names]
            BY <2>0, <3>1
        <3>4. Tables(name', rows') /\ OwnRules(name', domains')
            BY <2>0, <3>1, <3>2, <3>3 DEF Tables, OwnRules, ToSet
        <3> QED BY <3>1, <3>4 DEF TypeOK
    <2>2. ASSUME NEW c \in Channels, NEW t \in Entries,
                 NEW k \in {"any", "ip", "domain"}, AddRules(c, t, k)
          PROVE  TypeOK'
        <3>1. /\ rows' = rows \o PlanRules(c, t, k) /\ c \in DOMAIN name
              /\ UNCHANGED <<name, domains, file, moved, origin, lossy>>
            BY <2>2 DEF AddRules, InDb
        <3> DEFINE plan == PlanRules(c, t, k)
        <3>2. plan \in Seq(Rule) /\ \A r \in ToSet(plan) : r.ch = c BY PlanIsRules
        <3> HIDE DEF plan
        <3>3. plan \in Seq(Rule) /\ \A i \in 1..Len(plan) : plan[i].ch = c
            BY <3>2, Positions DEF ToSet
        <3>4. /\ rows' \in Seq(Rule) /\ Len(rows') = Len(rows) + Len(plan)
              /\ \A i \in 1..Len(rows') : rows'[i] =
                     IF i <= Len(rows) THEN rows[i] ELSE plan[i - Len(rows)]
            BY <2>0, <3>1, <3>3, ConcatProperties DEF plan
        <3>5. \A i \in 1..Len(rows') : rows'[i].ch \in DOMAIN name
            <4> TAKE i \in 1..Len(rows')
            <4>1. /\ Len(rows) \in Nat /\ Len(plan) \in Nat
                  /\ DOMAIN rows = 1..Len(rows)
                BY <2>0, <3>3, Positions
            <4>2. CASE i <= Len(rows) BY <2>0, <3>4, <4>1, <4>2
            <4>3. CASE ~ (i <= Len(rows))
                <5>1. i - Len(rows) \in 1..Len(plan) BY <3>4, <4>1, <4>3
                <5> QED BY <3>1, <3>3, <3>4, <4>3, <5>1
            <4> QED BY <4>2, <4>3
        <3>6. \A r \in ToSet(rows') : r.ch \in DOMAIN name
            BY <3>4, <3>5, Positions DEF ToSet
        <3>7. Tables(name', rows') BY <2>0, <3>1, <3>4, <3>6 DEF Tables, OwnRules
        <3> QED BY <3>1, <3>7 DEF TypeOK
    <2>3. ASSUME NEW i \in DOMAIN rows, DelRule(i) PROVE TypeOK'
        <3>1. /\ rows' = Chosen(rows, DOMAIN rows \ {i})
              /\ UNCHANGED <<name, domains, file, moved, origin, lossy>>
            BY <2>3 DEF DelRule
        <3>2. DOMAIN rows \ {i} \in SUBSET DOMAIN rows OBVIOUS
        <3>3. rows' \in Seq(Rule) /\ \A r \in ToSet(rows') : r.ch \in DOMAIN name
            BY <2>0, <3>1, <3>2, ChosenRules
        <3>4. Tables(name', rows') BY <2>0, <3>1, <3>3 DEF Tables, OwnRules
        <3> QED BY <3>1, <3>4 DEF TypeOK
    <2>4. ASSUME NEW ids \in SUBSET DOMAIN rows, NEW on \in BOOLEAN,
                 SetRulesEnabled(ids, on)
          PROVE  TypeOK'
        <3>1. /\ rows' = [i \in DOMAIN rows |->
                            IF i \in ids THEN [rows[i] EXCEPT !.on = on] ELSE rows[i]]
              /\ UNCHANGED <<name, domains, file, moved, origin, lossy>>
            BY <2>4 DEF SetRulesEnabled
        <3>2. \A i \in DOMAIN rows : rows'[i] \in Rule /\ rows'[i].ch = rows[i].ch
            BY <2>0, <3>1 DEF Rule
        <3>3. Len(rows) \in Nat /\ DOMAIN rows = 1..Len(rows) BY <2>0, Positions
        <3>4. rows' \in [1..Len(rows) -> Rule] BY <3>1, <3>2, <3>3
        <3>5. rows' \in Seq(Rule) BY <3>3, <3>4, SeqDef
        <3>6. \A r \in ToSet(rows') : r.ch \in DOMAIN name
            BY <2>0, <3>1, <3>2 DEF ToSet
        <3>7. Tables(name', rows') BY <2>0, <3>1, <3>5, <3>6 DEF Tables, OwnRules
        <3> QED BY <3>1, <3>7 DEF TypeOK
    <2>5. ASSUME NEW c \in Channels, DeleteChannel(c) PROVE TypeOK'
        <3> DEFINE kept == {i \in DOMAIN rows : rows[i].ch # c}
                   old  == {i \in DOMAIN domains : domains[i].ch # c}
        <3>1. /\ name' = [x \in DOMAIN name \ {c} |-> name[x]]
              /\ rows' = Chosen(rows, kept) /\ domains' = Chosen(domains, old)
              /\ UNCHANGED <<file, moved, origin, lossy>>
            BY <2>5 DEF DeleteChannel, InDb
        <3>2. /\ kept \in SUBSET DOMAIN rows
              /\ \A i \in kept : rows[i].ch \in DOMAIN name \ {c}
              /\ old \in SUBSET DOMAIN domains
              /\ \A i \in old : domains[i].ch \in DOMAIN name \ {c}
            BY <2>0
        <3> HIDE DEF kept, old
        <3>3. rows' \in Seq(Rule) /\ \A r \in ToSet(rows') : r.ch \in DOMAIN name \ {c}
            BY <2>0, <3>1, <3>2, ChosenRules
        <3>7. domains' \in Seq(Rule)
              /\ \A r \in ToSet(domains') : r.ch \in DOMAIN name \ {c}
            BY <2>0, <3>1, <3>2, ChosenRules
        <3>4. IsFiniteSet(DOMAIN name \ {c}) BY <2>0, FS_RemoveElement
        <3>5. DOMAIN name' = DOMAIN name \ {c} /\ name' \in [DOMAIN name' -> Names]
            BY <2>0, <3>1
        <3>6. Tables(name', rows') /\ OwnRules(name', domains')
            BY <2>0, <3>3, <3>4, <3>5, <3>7 DEF Tables, OwnRules
        <3> QED BY <3>1, <3>6 DEF TypeOK
    <2>6. ASSUME NEW unread \in SUBSET InDb, Export(unread) PROVE TypeOK'
        <3> DEFINE ids == ByAge(DOMAIN name)
                   n == Cardinality(DOMAIN name)
                   entry(i) == [name |-> name[ids[i]],
                                rules |-> IF ids[i] \in unread THEN <<>>
                                          ELSE RulesOf(rows, ids[i])]
        <3>1. /\ file' = [i \in DOMAIN ids |-> entry(i)]
              /\ origin' = [name |-> name, rows |-> rows]
              /\ lossy' = (\E r \in ToSet(rows) : r.ch \in unread)
              /\ UNCHANGED <<name, rows, domains, moved>>
            BY <2>6 DEF Export, InDb
        <3>2. n \in Nat /\ ids \in [1..n -> DOMAIN name]
            BY <2>0, ChannelsAssumption, ByAgeLists
        <3> HIDE DEF ids, n
        <3>3. \A i \in 1..n : entry(i) \in [name : Names, rules : Seq(Rule)]
            BY <2>0, <3>2, RulesOfRules, EmptySeq
        <3> DEFINE T == [name : Names, rules : Seq(Rule)]
        <3> HIDE DEF entry, T
        <3>4. file' \in [1..n -> T] BY <3>1, <3>2, <3>3 DEF T
        <3>5. file' \in Seq(T) BY <3>2, <3>4, SeqDef
        <3>6. /\ Tables(origin'.name, origin'.rows) /\ Tables(name', rows')
              /\ OwnRules(name', domains')
            BY <3>1 DEF TypeOK
        <3> QED BY <3>1, <3>5, <3>6 DEF TypeOK, T
    <2>7. ASSUME NEW id \in [DOMAIN file -> Channels], Import(id) PROVE TypeOK'
        <3>1. /\ DOMAIN name' = {id[i] : i \in Entering}
              /\ \A i \in Entering : name'[id[i]] = file[i].name
              /\ rows' \in Seq(Rule)
              /\ \A k \in DOMAIN rows' : \E a \in Entering :
                   \E b \in Sound(file[a].rules) :
                       rows'[k] = ImportRule(id[a], file[a].rules[b])
            BY <2>7, ImportEffect
        <3>2. IsFiniteSet(Entering) /\ Entering \subseteq DOMAIN file
            BY <2>0, IncomingIsFinite
        <3>3. \A i \in DOMAIN file : file[i] \in [name : Names, rules : Seq(Rule)]
            BY <2>0, Positions
        <3>4. IsFiniteSet(DOMAIN name')
            BY <3>1, <3>2, FiniteImage
        <3>5. name' = [x \in DOMAIN name' |-> name'[x]] BY <2>7, ImportEffect
        <3>6. name' \in [DOMAIN name' -> Names] BY <3>1, <3>2, <3>3, <3>5
        <3>7. \A r \in ToSet(rows') : r.ch \in DOMAIN name'
            BY <3>1 DEF ToSet, ImportRule, Row
        <3>8. Tables(name', rows') BY <3>1, <3>2, <3>4, <3>6, <3>7 DEF Tables, OwnRules
        <3>9. moved' = TRUE /\ domains' = <<>> /\ UNCHANGED <<file, origin, lossy>>
            BY <2>7 DEF Import
        <3>10. OwnRules(name', domains') BY <3>9, EmptySeq DEF OwnRules, ToSet
        <3> QED BY <3>8, <3>9, <3>10 DEF TypeOK
    <2>8. CASE UNCHANGED vars BY <2>8 DEF vars, TypeOK
    <2>9. CASE Restart
        <3>1. /\ rows' = Migrated(rows, domains)
              /\ UNCHANGED <<name, domains, file, moved, origin, lossy>>
            BY <2>9 DEF Restart
        <3>2. Tables(name', rows') BY <3>1 DEF TypeOK, Tables, Migrated
        <3> QED BY <3>1, <3>2 DEF TypeOK
    <2> QED BY <2>1, <2>2, <2>3, <2>4, <2>5, <2>6, <2>7, <2>8, <2>9 DEF Next
<1> QED BY <1>1, <1>2, PTL DEF Spec

-----------------------------------------------------------------------------
(* The lines of the generated configuration, for any rules.                 *)

AheadOn(rs) == {p \in Written(rs) \X Written(rs) : Ahead(rs, p[1], p[2])}
Order(rs) == InOrder(Written(rs), AheadOn(rs))

(* A rule is a network, a domain or malformed.                              *)
LEMMA Kinds ==
    ASSUME NEW r \in Rule
    PROVE  /\ r.ch \in Channels /\ r.ch \in Nat /\ r.on \in BOOLEAN
           /\ r.pat \in Patterns
           /\ \/ r.pat.kind = "ip" /\ Prefix(r.pat) \in Nat
              \/ r.pat.kind = "domain"
              \/ r.pat.kind = "malformed"
<1>1. r.ch \in Channels /\ r.pat \in Patterns /\ r.on \in BOOLEAN BY DEF Rule
<1> QED BY <1>1, ChannelsAssumption, NormalForms

(* A rule that makes a line is a network or a domain.                       *)
LEMMA WrittenKinds ==
    ASSUME NEW rs \in Seq(Rule), NEW i \in Written(rs)
    PROVE  /\ i \in DOMAIN rs /\ i \in Nat /\ rs[i] \in Rule /\ rs[i].on
           /\ rs[i].pat \in Patterns
           /\ \/ rs[i].pat.kind = "ip" /\ Prefix(rs[i].pat) \in Nat
              \/ rs[i].pat.kind = "domain"
<1>1. /\ i \in DOMAIN rs /\ i \in Nat /\ rs[i] \in Rule /\ rs[i].on
      /\ NormalizeStored(rs[i].pat) # Nothing
    BY Positions DEF Written
<1>2. rs[i].pat \in Patterns BY <1>1, Kinds
<1> QED BY <1>1, <1>2, NormalForms

(* Ahead orders the enabled rules one after the other.                      *)
LEMMA OrderLists ==
    ASSUME NEW rs \in Seq(Rule)
    PROVE  /\ Cardinality(Written(rs)) \in Nat
           /\ Lists(Order(rs), Written(rs), AheadOn(rs))
<1>1. IsFiniteSet(Written(rs))
    <2>1. IsFiniteSet(DOMAIN rs) /\ Written(rs) \in SUBSET DOMAIN rs
        BY Positions DEF Written
    <2> QED BY <2>1, FS_Subset
<1>2. \A i \in Written(rs) : i \in Nat BY WrittenKinds
<1>3. \A i \in Written(rs) :
          \/ rs[i].pat.kind = "ip" /\ Prefix(rs[i].pat) \in Nat
          \/ rs[i].pat.kind = "domain"
    BY WrittenKinds
<1>4. \A i, j \in Written(rs) : <<i, j>> \in AheadOn(rs) <=> Ahead(rs, i, j)
    BY DEF AheadOn
<1>5. \A i \in Written(rs) : ~ Ahead(rs, i, i) BY <1>2, <1>3 DEF Ahead
<1>6. \A i, j, k \in Written(rs) : Ahead(rs, i, j) /\ Ahead(rs, j, k) => Ahead(rs, i, k)
    <2> SUFFICES ASSUME NEW i \in Written(rs), NEW j \in Written(rs), NEW k \in Written(rs),
                        Ahead(rs, i, j), Ahead(rs, j, k)
                 PROVE  Ahead(rs, i, k)
        OBVIOUS
    <2> QED BY <1>2, <1>3 DEF Ahead
<1>7. \A i, j \in Written(rs) : i # j => Ahead(rs, i, j) \/ Ahead(rs, j, i)
    <2> SUFFICES ASSUME NEW i \in Written(rs), NEW j \in Written(rs), i # j
                 PROVE  Ahead(rs, i, j) \/ Ahead(rs, j, i)
        OBVIOUS
    <2> QED BY <1>2, <1>3 DEF Ahead
<1>8. Linear(Written(rs), AheadOn(rs)) BY <1>4, <1>5, <1>6, <1>7 DEF Linear
<1> QED BY <1>1, <1>8, InOrderLists DEF Order

(* A line matches what its rule binds.                                      *)
LEMMA MatchesIsBinding ==
    ASSUME NEW rs \in Seq(Rule), NEW dest \in Dests, NEW i \in Written(rs)
    PROVE  Matches(NormalizeStored(rs[i].pat), dest) <=> i \in Binding(rs, dest)
<1> DEFINE pat == rs[i].pat
<1>1. /\ i \in DOMAIN rs /\ rs[i].on /\ pat \in Patterns
      /\ pat.kind \in {"ip", "domain"}
    BY WrittenKinds
<1> HIDE DEF pat
<1>2. CASE pat.kind = "ip"
    <2>1. /\ NormalizeStored(pat).kind = "ip"
          /\ NormalizeStored(pat) = [pat EXCEPT !.len = Prefix(pat)]
        BY <1>1, <1>2, NormalForms
    <2> QED BY <1>1, <1>2, <2>1 DEF Matches, Binding, Plain, pat
<1>3. CASE pat.kind = "domain"
    <2>1. /\ NormalizeStored(pat).kind = "domain"
          /\ NormalizeStored(pat).host = pat.host
          /\ NormalizeStored(pat).wild = 0 <=> pat.wild <= 1
        BY <1>1, <1>3, NormalForms
    <2> QED BY <1>1, <1>3, <2>1 DEF Matches, InSuffix, Binding, Plain, pat
<1> QED BY <1>1, <1>2, <1>3

(* Hosts are bound by domains, addresses by networks.                       *)
LEMMA BoundByKind ==
    ASSUME NEW rs \in Seq(Rule), NEW dest \in Dests, NEW i \in Binding(rs, dest)
    PROVE  /\ i \in Written(rs) /\ i \in DOMAIN rs /\ i \in Nat /\ rs[i] \in Rule
           /\ dest \in Addresses => rs[i].pat.kind = "ip"
           /\ dest \notin Addresses => rs[i].pat.kind = "domain"
           /\ Weight(rs[i]) \in Nat
<1>1. i \in DOMAIN rs /\ rs[i].on /\ i \in Nat /\ rs[i] \in Rule
    BY Positions DEF Binding
<1>2. dest \in Addresses => dest.fam \in {4, 6} BY DEF Addresses, AddrDest
<1>3. dest \notin Addresses => dest.fam = 0 BY DEF Dests, HostDest
<1>4. rs[i].pat \in Patterns BY <1>1, Kinds
<1>5. CASE rs[i].pat.kind = "ip"
    <2>1. /\ rs[i].pat.fam \in {4, 6} /\ Prefix(rs[i].pat) \in Nat
          /\ NormalizeStored(rs[i].pat) # Nothing
          /\ NormalizeStored(rs[i].pat) = [rs[i].pat EXCEPT !.len = Prefix(rs[i].pat)]
          /\ NormalizeStored(rs[i].pat).fam = rs[i].pat.fam
        BY <1>4, <1>5, NormalForms
    <2>2. dest.fam = rs[i].pat.fam BY <1>5, <2>1 DEF Binding, InNet
    <2> QED BY <1>1, <1>3, <1>5, <2>1, <2>2 DEF Written, Weight
<1>6. CASE rs[i].pat.kind = "domain"
    <2>1. dest.fam = 0 BY <1>6 DEF Binding
    <2>2. NormalizeStored(rs[i].pat) # Nothing BY <1>4, <1>6, NormalForms
    <2> QED BY <1>1, <1>2, <1>6, <2>1, <2>2 DEF Written, Weight
<1>7. rs[i].pat.kind \in {"ip", "domain"} BY DEF Binding
<1> QED BY <1>5, <1>6, <1>7

(* The first line that matches is the strongest rule's, and of several the  *)
(* oldest one's.                                                            *)
LEMMA RouteIsStrongest ==
    ASSUME NEW rs \in Seq(Rule), NEW dest \in Dests
    PROVE  /\ Binding(rs, dest) = {} => Route(BuildRules(rs), dest) = Direct
           /\ Binding(rs, dest) # {} =>
                \E i \in Strongest(rs, dest) :
                   /\ \A j \in Strongest(rs, dest) : i <= j
                   /\ Route(BuildRules(rs), dest) = rs[i].ch
<1> DEFINE n == Cardinality(Written(rs))
           o == Order(rs)
           lines == BuildRules(rs)
           hits == {k \in DOMAIN lines : Matches(lines[k].pat, dest)}
<1>1. n \in Nat /\ o \in [1..n -> Written(rs)]
      /\ \A i \in Written(rs) : \E k \in 1..n : o[k] = i
    BY OrderLists DEF Lists
<1>2. \A k, l \in 1..n : k < l => Ahead(rs, o[k], o[l])
    <2>1. \A k, l \in 1..n : k < l => <<o[k], o[l]>> \in AheadOn(rs)
        BY OrderLists DEF Lists
    <2> QED BY <2>1 DEF AheadOn
<1>3. DOMAIN lines = 1..n
      /\ \A k \in 1..n : lines[k] = [ch |-> rs[o[k]].ch,
                                     pat |-> NormalizeStored(rs[o[k]].pat)]
    BY DEF BuildRules, Order, Written, AheadOn, Line
<1> HIDE DEF n, o, lines
<1>4. hits = {k \in 1..n : o[k] \in Binding(rs, dest)}
    <2>1. \A k \in 1..n : Matches(lines[k].pat, dest) <=> o[k] \in Binding(rs, dest)
        BY <1>1, <1>3, MatchesIsBinding
    <2> QED BY <1>3, <2>1
<1>5. ASSUME Binding(rs, dest) = {} PROVE Route(lines, dest) = Direct
    BY <1>4, <1>5 DEF Route
<1>6. ASSUME Binding(rs, dest) # {}
      PROVE  \E i \in Strongest(rs, dest) :
                /\ \A j \in Strongest(rs, dest) : i <= j
                /\ Route(lines, dest) = rs[i].ch
    <2>1. hits # {} /\ hits \in SUBSET Nat
        <3>1. PICK i \in Binding(rs, dest) : TRUE BY <1>6
        <3>2. i \in Written(rs) BY BoundByKind
        <3> QED BY <1>1, <1>4, <3>2
    <2>2. PICK k \in hits : \A l \in hits : k <= l BY <2>1, LeastNumber
    <2>3. (CHOOSE l \in hits : \A h \in hits : l <= h) = k
        <3>1. \A l \in hits : (\A h \in hits : l <= h) => l = k BY <2>1, <2>2
        <3> HIDE DEF hits
        <3> QED BY <2>2, <3>1
    <2>4. Route(lines, dest) = rs[o[k]].ch
        <3>1. Route(lines, dest) = lines[CHOOSE l \in hits : \A h \in hits : l <= h].ch
            BY <2>1 DEF Route
        <3>2. k \in 1..n BY <1>4
        <3> HIDE DEF hits
        <3>3. Route(lines, dest) = lines[k].ch BY <2>3, <3>1
        <3> QED BY <1>3, <3>2, <3>3
    <2> DEFINE i == o[k]
    <2>5. i \in Binding(rs, dest) /\ k \in 1..n BY <1>4
    <2>6. \A j \in Binding(rs, dest) : j = i \/ Ahead(rs, i, j)
        <3> TAKE j \in Binding(rs, dest)
        <3>1. j \in Written(rs) BY BoundByKind
        <3>2. PICK l \in 1..n : o[l] = j BY <1>1, <3>1
        <3>3. l \in hits BY <1>4, <3>2
        <3>4. k <= l BY <2>2, <3>3
        <3>5. k = l \/ k < l BY <1>1, <2>5, <3>4
        <3> QED BY <1>2, <2>5, <3>2, <3>5
    <2> HIDE DEF i
    <2>7. \A j \in Binding(rs, dest) :
             \/ j = i
             \/ Weight(rs[i]) > Weight(rs[j])
             \/ Weight(rs[i]) = Weight(rs[j]) /\ i < j
        <3> TAKE j \in Binding(rs, dest)
        <3>1. /\ dest \in Addresses => rs[i].pat.kind = "ip" /\ rs[j].pat.kind = "ip"
              /\ dest \notin Addresses =>
                    rs[i].pat.kind = "domain" /\ rs[j].pat.kind = "domain"
            BY <2>5, BoundByKind
        <3> QED BY <2>6, <3>1 DEF Ahead, Weight
    <2>8. \A j \in Binding(rs, dest) : j \in Nat /\ Weight(rs[j]) \in Nat
        BY BoundByKind
    <2>9. i \in Strongest(rs, dest) BY <2>5, <2>7, <2>8 DEF Strongest
    <2>10. \A j \in Strongest(rs, dest) : i <= j
        <3> TAKE j \in Strongest(rs, dest)
        <3>1. j \in Binding(rs, dest) /\ Weight(rs[j]) >= Weight(rs[i])
            BY <2>5 DEF Strongest
        <3> QED BY <2>5, <2>7, <2>8, <3>1
    <2> QED BY <2>4, <2>9, <2>10 DEF i
<1> QED BY <1>5, <1>6 DEF lines

(* build_mihomo_config: the narrowest network decides an address and the    *)
(* oldest domain a host, whatever was entered in whatever order; what no    *)
(* rule binds goes direct.                                                  *)
THEOREM SpecificRuleWins == Spec => []SpecificWins
<1>1. TypeOK => SpecificWins
    <2> SUFFICES ASSUME TypeOK, NEW dest \in Dests
                 PROVE  IF Strongest(rows, dest) = {}
                          THEN Route(BuildRules(rows), dest) = Direct
                          ELSE \E i \in Strongest(rows, dest) :
                                 /\ \A j \in Strongest(rows, dest) : i <= j
                                 /\ Route(BuildRules(rows), dest) = rows[i].ch
        BY DEF SpecificWins
    <2>1. rows \in Seq(Rule) BY DEF TypeOK, Tables, OwnRules
    <2>2. Binding(rows, dest) = {} => Strongest(rows, dest) = {} BY DEF Strongest
    <2>3. Binding(rows, dest) # {} => Strongest(rows, dest) # {}
        BY <2>1, RouteIsStrongest
    <2> QED BY <2>1, <2>2, <2>3, RouteIsStrongest
<1> QED BY <1>1, TypeCorrect, PTL

(* What is bound goes to a channel.                                         *)
LEMMA BoundIsNotDirect ==
    ASSUME NEW rs \in Seq(Rule), NEW dest \in Dests
    PROVE  Route(BuildRules(rs), dest) # Direct <=> Binding(rs, dest) # {}
<1>1. \A i \in Binding(rs, dest) : rs[i].ch # Direct
    BY BoundByKind, Kinds DEF Direct
<1>2. \A i \in Strongest(rs, dest) : i \in Binding(rs, dest) BY DEF Strongest
<1> QED BY <1>1, <1>2, RouteIsStrongest

(* No domain ends a host without labels.                                    *)
LEMMA NoSuffixOfNothing ==
    ASSUME NEW h \in RuleHosts
    PROVE  ~ IsPrefix(h, <<>>)
<1>1. h \in Seq(Int) /\ h # <<>>
    <2>1. \A b \in Bits : Dotted[b] \in Seq(Int) /\ Group[b] \in Seq(Int)
        BY TextAssumption
    <2> QED BY <2>1, HostsAssumption DEF RuleHosts
<1>2. Len(h) \in Nat /\ Len(h) > 0 BY <1>1, EmptySeq
<1> QED BY <1>2, EmptySeq DEF IsPrefix

(* Provider and snippet send what mihomo binds and nothing else; the routes *)
(* of the TUN entry what is stored with a mask; the PAC script also what a  *)
(* domain ends the text of.                                                 *)
THEOREM EntriesAgreeOnRules == Spec => []EntriesAgree
<1>1. TypeOK => EntriesAgree
    <2> SUFFICES ASSUME TypeOK, NEW dest \in Dests
                 PROVE  LET bound   == Route(BuildRules(rows), dest) # Direct
                            binding == {rows[i].pat : i \in Binding(rows, dest)}
                        IN  /\ ByProvider(rows, dest) <=> bound
                            /\ ByTun(rows, dest) <=>
                                  /\ dest \in Addresses
                                  /\ \E pat \in binding : pat.len # NoMask
                            /\ ByPac(rows, dest) <=>
                                  \/ /\ dest.fam # 6
                                     /\ \E pat \in binding :
                                           pat.kind = "domain" => Ascii(pat)
                                  \/ /\ dest.fam = 4
                                     /\ \E pat \in Provider(rows) :
                                           /\ pat.kind = "domain" /\ Ascii(pat)
                                           /\ InSuffix(pat, dest)
        BY DEF EntriesAgree
    <2> DEFINE pat(i)  == rows[i].pat
               norm(i) == NormalizeStored(pat(i))
    <2>1. rows \in Seq(Rule) BY DEF TypeOK, Tables, OwnRules
    <2>2. \A i \in DOMAIN rows : pat(i) \in Patterns
        BY <2>1, Positions, Kinds
    <2>3. /\ Enabled(rows) = {rows[i] : i \in {j \in DOMAIN rows : rows[j].on}}
          /\ Written(rows) = {i \in DOMAIN rows : rows[i].on /\ norm(i) # Nothing}
        BY DEF Enabled, ToSet, Written
    <2>4. Provider(rows) = {norm(i) : i \in Written(rows)} BY <2>3 DEF Provider
    <2>5. \A i \in Written(rows) : Matches(norm(i), dest) <=> i \in Binding(rows, dest)
        BY <2>1, MatchesIsBinding
    <2>6. \A i \in Binding(rows, dest) :
             /\ i \in Written(rows)
             /\ dest \in Addresses => pat(i).kind = "ip"
             /\ dest \notin Addresses => pat(i).kind = "domain"
        BY <2>1, BoundByKind
    <2>7. Route(BuildRules(rows), dest) # Direct <=> Binding(rows, dest) # {}
        BY <2>1, BoundIsNotDirect
    <2>8. ByProvider(rows, dest) <=> Binding(rows, dest) # {}
        BY <2>4, <2>5, <2>6 DEF ByProvider
    <2>9. ByTun(rows, dest) <=>
            dest \in Addresses /\ \E i \in Binding(rows, dest) : pat(i).len # NoMask
        <3> DEFINE Masked == {i \in DOMAIN rows : /\ rows[i].on /\ pat(i).kind = "ip"
                                                  /\ pat(i).len # NoMask}
        <3>1. RouteSets(rows) = {pat(i) : i \in Masked} BY <2>3 DEF RouteSets
        <3>2. \A i \in DOMAIN rows : pat(i).kind = "ip" /\ pat(i).len # NoMask =>
                 norm(i) = pat(i) /\ norm(i) # Nothing
            BY <2>2, NormalForms
        <3>3. \A i \in Masked : /\ i \in Written(rows)
                                /\ Matches(pat(i), dest) <=> i \in Binding(rows, dest)
            BY <2>3, <2>5, <3>2
        <3>4. \A i \in Binding(rows, dest) :
                 dest \in Addresses /\ pat(i).len # NoMask => i \in Masked
            BY <2>3, <2>6
        <3>5. \A i \in Masked : i \in Binding(rows, dest) =>
                 dest \in Addresses /\ pat(i).len # NoMask
            BY <2>6
        <3>6. ByTun(rows, dest) <=> \E i \in Masked : Matches(pat(i), dest)
            BY <3>1 DEF ByTun
        <3> HIDE DEF pat, norm, Masked
        <3> QED BY <3>3, <3>4, <3>5, <3>6
    <2>10. ByPac(rows, dest) <=>
             \E i \in Written(rows) :
                \/ norm(i).kind = "domain" /\ Ascii(norm(i)) /\ InSuffix(norm(i), dest)
                \/ norm(i).kind # "domain" /\ norm(i).fam = 4 /\ InNet(norm(i), dest)
        BY <2>4 DEF ByPac, PacText
    <2>11. \A i \in Written(rows) :
             \/ /\ pat(i).kind = "ip" /\ norm(i).kind = "ip"
                /\ norm(i).fam \in {4, 6}
             \/ /\ pat(i).kind = "domain" /\ norm(i).kind = "domain"
                /\ norm(i).host \in RuleHosts /\ norm(i).host = pat(i).host
        <3> TAKE i \in Written(rows)
        <3>1. pat(i) \in Patterns /\ norm(i) # Nothing BY <2>2, <2>3
        <3> HIDE DEF pat
        <3> QED BY <3>1, NormalForms
    <2>12. \A i \in Written(rows) : pat(i).kind = "domain" =>
             (Ascii(norm(i)) <=> Ascii(pat(i)))
        BY <2>11 DEF Ascii
    <2>13. dest.fam = 0 <=> dest \notin Addresses
        BY DEF Dests, HostDest, Addresses, AddrDest
    <2> DEFINE Sends == \E i \in Binding(rows, dest) :
                          pat(i).kind = "domain" => Ascii(pat(i))
               Ends  == \E i \in Written(rows) :
                          /\ norm(i).kind = "domain" /\ Ascii(norm(i))
                          /\ InSuffix(norm(i), dest)
    <2>14. /\ Sends <=> \E q \in {rows[i].pat : i \in Binding(rows, dest)} :
                           q.kind = "domain" => Ascii(q)
           /\ Ends <=> \E q \in Provider(rows) :
                          q.kind = "domain" /\ Ascii(q) /\ InSuffix(q, dest)
        BY <2>4
    <2>15. ByPac(rows, dest) <=> (dest.fam # 6 /\ Sends) \/ (dest.fam = 4 /\ Ends)
        <3> HIDE DEF pat, norm
        <3>1. CASE dest.fam = 0
            <4>1. \A i \in Written(rows) : norm(i).kind = "domain" =>
                     (InSuffix(norm(i), dest) <=> i \in Binding(rows, dest))
                BY <2>5, <3>1 DEF Matches
            <4>2. \A i \in Written(rows) : norm(i).kind # "domain" =>
                     ~ (norm(i).fam = 4 /\ InNet(norm(i), dest))
                BY <3>1 DEF InNet
            <4> QED BY <2>6, <2>10, <2>11, <2>12, <2>13, <3>1, <4>1, <4>2
        <3>2. CASE dest.fam = 4
            <4>1. \A i \in Written(rows) :
                     norm(i).kind # "domain" /\ norm(i).fam = 4 /\ InNet(norm(i), dest)
                       <=> i \in Binding(rows, dest)
                BY <2>5, <2>11, <3>2 DEF Matches, InNet
            <4>2. Sends <=> Binding(rows, dest) # {} BY <2>6, <2>13, <3>2
            <4> QED BY <2>6, <2>10, <3>2, <4>1, <4>2
        <3>3. CASE dest.fam = 6
            <4>1. dest.host = <<>>
                BY <3>3 DEF Dests, HostDest, Addresses, AddrDest
            <4>2. \A i \in Written(rows) : norm(i).kind = "domain" =>
                     ~ InSuffix(norm(i), dest)
                BY <2>11, <4>1, NoSuffixOfNothing DEF InSuffix
            <4>3. \A i \in Written(rows) : norm(i).fam = 4 => ~ InNet(norm(i), dest)
                BY <3>3 DEF InNet
            <4> QED BY <2>10, <3>3, <4>2, <4>3
        <3>4. dest.fam \in {0, 4, 6} BY DEF Dests, HostDest, Addresses, AddrDest
        <3> QED BY <3>1, <3>2, <3>3, <3>4
    <2>16. (\E q \in {rows[i].pat : i \in Binding(rows, dest)} : q.len # NoMask)
             <=> \E i \in Binding(rows, dest) : pat(i).len # NoMask
        OBVIOUS
    <2> HIDE DEF Sends, Ends, pat, norm
    <2> QED BY <2>7, <2>8, <2>9, <2>14, <2>15, <2>16
<1> QED BY <1>1, TypeCorrect, PTL

-----------------------------------------------------------------------------
(* What a rule takes that is added behind the others.                       *)

LEMMA BehindTakesFromWider ==
    ASSUME NEW rs \in Seq(Rule), NEW plan \in Seq(Rule), NEW dest \in Dests,
           Route(BuildRules(rs), dest) # Direct,
           Route(BuildRules(rs), dest) # Route(BuildRules(rs \o plan), dest)
    PROVE  /\ dest \in Addresses
           /\ \A i \in Strongest(rs \o plan, dest), j \in Binding(rs, dest) :
                  Weight((rs \o plan)[i]) > Weight(rs[j])
<1> DEFINE qs == rs \o plan
<1>1. /\ qs \in Seq(Rule) /\ Len(rs) \in Nat /\ Len(qs) \in Nat
      /\ DOMAIN rs = 1..Len(rs) /\ DOMAIN qs = 1..Len(qs)
      /\ Len(rs) <= Len(qs)
      /\ \A i \in DOMAIN rs : qs[i] = rs[i]
    <2>1. /\ qs \in Seq(Rule) /\ Len(qs) = Len(rs) + Len(plan)
          /\ \A i \in 1..Len(rs) + Len(plan) :
                qs[i] = IF i <= Len(rs) THEN rs[i] ELSE plan[i - Len(rs)]
        BY ConcatProperties
    <2> HIDE DEF qs
    <2>2. Len(rs) \in Nat /\ Len(plan) \in Nat /\ DOMAIN rs = 1..Len(rs)
          /\ DOMAIN qs = 1..Len(qs)
        BY <2>1, Positions
    <2> QED BY <2>1, <2>2
<1> HIDE DEF qs
<1>2. \A i \in DOMAIN rs : i \in DOMAIN qs /\ (i \in Binding(qs, dest) <=> i \in Binding(rs, dest))
    BY <1>1 DEF Binding, Plain
<1>3. /\ \A i \in Binding(rs, dest) : i \in DOMAIN rs /\ Weight(rs[i]) \in Nat
      /\ \A i \in Binding(qs, dest) : i \in DOMAIN qs /\ Weight(qs[i]) \in Nat
    BY <1>1, BoundByKind
<1>4. Binding(rs, dest) # {} /\ Binding(qs, dest) # {}
    <2>1. Binding(rs, dest) # {} BY BoundIsNotDirect
    <2> QED BY <2>1, <1>2, <1>3
<1>5. PICK i \in Strongest(rs, dest) : /\ \A j \in Strongest(rs, dest) : i <= j
                                       /\ Route(BuildRules(rs), dest) = rs[i].ch
    BY <1>4, RouteIsStrongest
<1>6. PICK k \in Strongest(qs, dest) : /\ \A j \in Strongest(qs, dest) : k <= j
                                       /\ Route(BuildRules(qs), dest) = qs[k].ch
    BY <1>1, <1>4, RouteIsStrongest
<1>7. i \in Binding(rs, dest) /\ k \in Binding(qs, dest) BY DEF Strongest
<1>8. k \notin DOMAIN rs
    <2> SUFFICES ASSUME k \in DOMAIN rs PROVE FALSE OBVIOUS
    <2>1. k \in Strongest(rs, dest) BY <1>1, <1>2, <1>3, <1>6, <1>7 DEF Strongest
    <2>2. Weight(rs[i]) = Weight(rs[k]) BY <2>1, <1>3, <1>5 DEF Strongest
    <2>3. i \in Strongest(qs, dest)
        BY <2>2, <1>1, <1>2, <1>3, <1>6, <1>7 DEF Strongest
    <2>4. i = k BY <1>1, <1>3, <1>5, <1>6, <1>7, <2>1, <2>3
    <2> QED BY <1>1, <1>5, <1>6, <2>4 DEF qs
<1>9. \A m \in Strongest(qs, dest), j \in Binding(rs, dest) :
          Weight(qs[m]) > Weight(rs[j])
    <2> SUFFICES ASSUME NEW m \in Strongest(qs, dest), NEW j \in Binding(rs, dest),
                        ~ (Weight(qs[m]) > Weight(rs[j]))
                 PROVE  FALSE
        OBVIOUS
    <2>1. m \in Binding(qs, dest) /\ j \in Binding(qs, dest) /\ qs[j] = rs[j]
        BY <1>1, <1>2, <1>3 DEF Strongest
    <2>2. Weight(qs[m]) = Weight(qs[j]) BY <2>1, <1>3 DEF Strongest
    <2>3. j \in Strongest(qs, dest) BY <2>1, <2>2 DEF Strongest
    <2>4. k <= j BY <1>6, <2>3
    <2> QED BY <1>1, <1>3, <1>7, <1>8, <2>4
<1>10. dest \in Addresses
    <2> SUFFICES ASSUME dest \notin Addresses PROVE FALSE OBVIOUS
    <2>1. rs[i].pat.kind = "domain" /\ qs[k].pat.kind = "domain"
        BY <1>1, <1>7, BoundByKind
    <2>2. Weight(rs[i]) = 0 /\ Weight(qs[k]) = 0 BY <2>1 DEF Weight
    <2> QED BY <1>7, <1>9, <2>2
<1> QED BY <1>9, <1>10 DEF qs

(* A rule that is added takes no host that is bound, and an address only    *)
(* from wider networks: no channel loses what its own narrower rule, or an  *)
(* older equal one, gives it.                                               *)
THEOREM AddedRulesTakeFromWider == Spec => AddTakesFromWider
<1> DEFINE Grows == Len(rows') > Len(rows) /\ ~moved'
           Takes(dest) ==
             Route(BuildRules(rows), dest) \notin {Direct, Route(BuildRules(rows'), dest)} =>
                 /\ dest \in Addresses
                 /\ \A i \in Strongest(rows', dest), j \in Binding(rows, dest) :
                        Weight(rows'[i]) > Weight(rows[j])
<1>1. TypeOK /\ [Next]_vars => [Grows => \A dest \in Dests : Takes(dest)]_vars
    <2> SUFFICES ASSUME TypeOK, Next, Grows, NEW dest \in Dests PROVE Takes(dest)
        OBVIOUS
    <2>0. rows \in Seq(Rule) /\ Len(rows) \in Nat
        BY Positions DEF TypeOK, Tables, OwnRules
    <2>1. ASSUME NEW c \in Channels, NEW n \in Names, CreateChannel(c, n)
          PROVE  FALSE
        BY <2>0, <2>1 DEF CreateChannel
    <2>2. ASSUME NEW c \in Channels, NEW t \in Entries,
                 NEW k \in {"any", "ip", "domain"}, AddRules(c, t, k)
          PROVE  Takes(dest)
        <3>1. rows' = rows \o PlanRules(c, t, k) BY <2>2 DEF AddRules
        <3>2. PlanRules(c, t, k) \in Seq(Rule) BY PlanIsRules
        <3> QED BY <2>0, <3>1, <3>2, BehindTakesFromWider
    <2>3. ASSUME NEW i \in DOMAIN rows, DelRule(i) PROVE FALSE
        <3>1. rows' = Chosen(rows, DOMAIN rows \ {i}) BY <2>3 DEF DelRule
        <3>2. Len(rows') <= Len(rows) /\ rows' \in Seq(Rule)
            BY <2>0, <3>1, ChosenIsShorter
        <3> QED BY <2>0, <3>2, Positions
    <2>4. ASSUME NEW ids \in SUBSET DOMAIN rows, NEW on \in BOOLEAN,
                 SetRulesEnabled(ids, on)
          PROVE  FALSE
        <3>1. DOMAIN rows' = DOMAIN rows BY <2>4 DEF SetRulesEnabled
        <3>2. DOMAIN rows = 1..Len(rows) BY <2>0, Positions
        <3>3. Len(rows') = Len(rows) BY <2>0, <3>1, <3>2
        <3> QED BY <2>0, <3>3
    <2>5. ASSUME NEW c \in Channels, DeleteChannel(c) PROVE FALSE
        <3>1. rows' = Chosen(rows, {i \in DOMAIN rows : rows[i].ch # c})
            BY <2>5 DEF DeleteChannel
        <3>2. Len(rows') <= Len(rows) /\ rows' \in Seq(Rule)
            BY <2>0, <3>1, ChosenIsShorter
        <3> QED BY <2>0, <3>2, Positions
    <2>6. ASSUME NEW unread \in SUBSET InDb, Export(unread) PROVE FALSE
        BY <2>0, <2>6 DEF Export
    <2>7. ASSUME NEW id \in [DOMAIN file -> Channels], Import(id) PROVE FALSE
        <3>1. moved' = TRUE BY <2>7 DEF Import
        <3> QED BY <3>1
    <2>8. CASE Restart
        <3>1. rows' = Migrated(rows, domains) BY <2>8 DEF Restart
        <3>2. rows = <<>> BY <2>0, <3>1 DEF Migrated
        <3>3. Binding(rows, dest) = {} BY <3>2 DEF Binding
        <3> QED BY <2>0, <3>3, BoundIsNotDirect
    <2> HIDE DEF Grows, Takes
    <2> QED BY <2>1, <2>2, <2>3, <2>4, <2>5, <2>6, <2>7, <2>8 DEF Next
<1>2. [Grows => \A dest \in Dests : Takes(dest)]_vars =>
        [Len(rows') > Len(rows) /\ ~moved' =>
         LET before == BuildRules(rows)
             after  == BuildRules(rows')
         IN  \A dest \in Dests :
               Route(before, dest) \notin {Direct, Route(after, dest)} =>
                 /\ dest \in Addresses
                 /\ \A i \in Strongest(rows', dest), j \in Binding(rows, dest) :
                        Weight(rows'[i]) > Weight(rows[j])]_vars
    OBVIOUS
<1> QED BY <1>1, <1>2, TypeCorrect, PTL DEF Spec, AddTakesFromWider

-----------------------------------------------------------------------------
(* Backups.                                                                 *)

(* The entries of a document, with the channels they were taken from.       *)
LEMMA DocumentEntries ==
    ASSUME NEW n, DOMAIN n \subseteq Nat, IsFiniteSet(DOMAIN n)
    PROVE  LET ids == ByAge(DOMAIN n)
           IN  /\ DOMAIN ids \in SUBSET Nat
               /\ \A i \in DOMAIN ids : ids[i] \in DOMAIN n
               /\ \A i, j \in DOMAIN ids : ids[i] = ids[j] => i = j
               /\ \A c \in DOMAIN n : \E i \in DOMAIN ids : ids[i] = c
<1> DEFINE ids == ByAge(DOMAIN n)
           k == Cardinality(DOMAIN n)
<1>1. /\ k \in Nat /\ ids \in [1..k -> DOMAIN n]
      /\ \A c \in DOMAIN n : \E i \in 1..k : ids[i] = c
      /\ \A i, j \in 1..k : i < j <=> ids[i] < ids[j]
    BY ByAgeLists
<1> HIDE DEF ids, k
<1>2. \A i, j \in DOMAIN ids : ids[i] = ids[j] => i = j
    <2> SUFFICES ASSUME NEW i \in 1..k, NEW j \in 1..k, ids[i] = ids[j] PROVE i = j
        BY <1>1
    <2>1. ~ (ids[i] < ids[j]) /\ ~ (ids[j] < ids[i]) BY <1>1
    <2>2. ~ (i < j) /\ ~ (j < i) BY <1>1, <2>1
    <2> QED BY <1>1, <2>2
<1>3. DOMAIN ids = 1..k /\ 1..k \in SUBSET Nat BY <1>1
<1>4. /\ \A i \in DOMAIN ids : ids[i] \in DOMAIN n
      /\ \A c \in DOMAIN n : \E i \in DOMAIN ids : ids[i] = c
    BY <1>1, <1>3
<1> QED BY <1>2, <1>3, <1>4 DEF ids

(* The rules of a channel, by their places in the table.                    *)
LEMMA RulesOfElements ==
    ASSUME NEW rs \in Seq(Rule), NEW c
    PROVE  /\ \A b \in DOMAIN RulesOf(rs, c) :
                \E i \in DOMAIN rs : rs[i].ch = c /\ RulesOf(rs, c)[b] = rs[i]
           /\ \A i \in DOMAIN rs : rs[i].ch = c =>
                \E b \in DOMAIN RulesOf(rs, c) : RulesOf(rs, c)[b] = rs[i]
<1> DEFINE S == {i \in DOMAIN rs : rs[i].ch = c}
<1>0. S \in SUBSET DOMAIN rs OBVIOUS
<1> HIDE DEF S
<1>1. /\ DOMAIN Chosen(rs, S) = 1..Cardinality(S)
      /\ \A k \in 1..Cardinality(S) : \E i \in S : Chosen(rs, S)[k] = rs[i]
      /\ \A i \in S : \E k \in 1..Cardinality(S) : Chosen(rs, S)[k] = rs[i]
    BY <1>0, ChosenIsShorter
<1>2. RulesOf(rs, c) = Chosen(rs, S) BY DEF RulesOf, S
<1> QED BY <1>1, <1>2 DEF S

(* The document of an export that could read everything.                    *)
LEMMA ExportWritesDocument ==
    ASSUME TypeOK, NEW unread \in SUBSET InDb, Export(unread), ~lossy'
    PROVE  file' = Document(origin'.name, origin'.rows)
<1> DEFINE ids == ByAge(DOMAIN name)
<1>1. /\ file' = [i \in DOMAIN ids |->
                    [name |-> name[ids[i]],
                     rules |-> IF ids[i] \in unread THEN <<>>
                               ELSE RulesOf(rows, ids[i])]]
      /\ origin' = [name |-> name, rows |-> rows]
      /\ lossy' = (\E r \in ToSet(rows) : r.ch \in unread)
    BY DEF Export, InDb
<1>2. \A c \in unread : RulesOf(rows, c) = <<>>
    <2> TAKE c \in unread
    <2>1. {i \in DOMAIN rows : rows[i].ch = c} = {} BY <1>1 DEF ToSet
    <2>2. RulesOf(rows, c) = Chosen(rows, {}) BY <2>1 DEF RulesOf
    <2>3. Cardinality({}) = 0 BY FS_EmptySet
    <2>4. Chosen(rows, {}) = [k \in 1..0 |-> rows[ByAge({})[k]]]
        BY <2>3 DEF Chosen
    <2>5. 1..0 = {} OBVIOUS
    <2> QED BY <2>2, <2>4, <2>5
<1>3. origin'.name = name /\ origin'.rows = rows BY <1>1
<1>4. Document(name, rows) = [i \in DOMAIN ids |->
          [name |-> name[ids[i]], rules |-> RulesOf(rows, ids[i])]]
    BY DEF Document
<1> HIDE DEF ids
<1>5. \A i \in DOMAIN ids :
          (IF ids[i] \in unread THEN <<>> ELSE RulesOf(rows, ids[i]))
             = RulesOf(rows, ids[i])
    BY <1>2
<1> QED BY <1>1, <1>3, <1>4, <1>5

(* An import brings the rules of such a document back, each under the name  *)
(* it had.                                                                  *)
LEMMA ImportBringsTwins ==
    ASSUME TypeOK, RestoreInv, NEW id \in [DOMAIN file -> Channels], Import(id),
           ~lossy, Distinct(origin.name)
    PROVE  /\ \A x \in ToSet(origin.rows) :
                NormalizeStored(x.pat) # Nothing => \E y \in ToSet(rows)' : Twins(x, y)'
           /\ \A y \in ToSet(rows)' : \E x \in ToSet(origin.rows) : Twins(x, y)'
<1> DEFINE n == origin.name
           rs == origin.rows
           ids == ByAge(DOMAIN n)
           Pair(x, y) == /\ y.pat = NormalizeStored(x.pat) /\ y.on = x.on
                         /\ name'[y.ch] = n[x.ch]
<1>1. /\ DOMAIN n \subseteq Nat /\ IsFiniteSet(DOMAIN n)
      /\ rs \in Seq(Rule) /\ \A i \in DOMAIN rs : rs[i].ch \in DOMAIN n
    BY ChannelsAssumption DEF TypeOK, Tables, OwnRules, ToSet
<1>2. /\ DOMAIN ids \in SUBSET Nat
      /\ \A i \in DOMAIN ids : ids[i] \in DOMAIN n
      /\ \A i, j \in DOMAIN ids : ids[i] = ids[j] => i = j
      /\ \A c \in DOMAIN n : \E i \in DOMAIN ids : ids[i] = c
    BY <1>1, DocumentEntries
<1>3. origin' = origin BY DEF Import
<1>4. file = [i \in DOMAIN ids |-> [name |-> n[ids[i]], rules |-> RulesOf(rs, ids[i])]]
    <2>1. file # <<>> BY DEF Import
    <2> QED BY <2>1 DEF RestoreInv, Document
<1>5. DOMAIN file = DOMAIN ids
      /\ \A i \in DOMAIN ids : file[i].name = n[ids[i]]
                               /\ file[i].rules = RulesOf(rs, ids[i])
    BY <1>4
<1>6. Entering = DOMAIN ids
    <2>1. \A i, j \in DOMAIN ids : n[ids[i]] = n[ids[j]] => i = j
        BY <1>2 DEF Distinct
    <2> HIDE DEF ids, n, rs
    <2>2. \A i \in DOMAIN ids : \A j \in 1..(i - 1) :
             j \in DOMAIN file => file[j].name # file[i].name
        BY <1>2, <1>5, <2>1
    <2>3. \A i \in DOMAIN file : \A j \in 1..(i - 1) : j \in DOMAIN file
        <3>1. file \in Seq([name : Names, rules : Seq(Rule)]) BY DEF TypeOK
        <3>2. Len(file) \in Nat /\ DOMAIN file = 1..Len(file) BY <3>1, Positions
        <3> QED BY <3>2
    <2> QED BY <1>5, <2>2, <2>3 DEF Entering
<1>7. /\ \A a \in DOMAIN ids : name'[id[a]] = n[ids[a]]
      /\ \A k \in DOMAIN rows' : \E a \in DOMAIN ids :
           \E b \in Sound(RulesOf(rs, ids[a])) :
              rows'[k] = ImportRule(id[a], RulesOf(rs, ids[a])[b])
      /\ \A a \in DOMAIN ids : \A b \in Sound(RulesOf(rs, ids[a])) :
           \E k \in DOMAIN rows' :
              rows'[k] = ImportRule(id[a], RulesOf(rs, ids[a])[b])
    <2>1. /\ \A i \in Entering : name'[id[i]] = file[i].name
          /\ \A k \in DOMAIN rows' : \E a \in Entering :
               \E b \in Sound(file[a].rules) :
                  rows'[k] = ImportRule(id[a], file[a].rules[b])
          /\ \A a \in Entering : \A b \in Sound(file[a].rules) :
               \E k \in DOMAIN rows' :
                  rows'[k] = ImportRule(id[a], file[a].rules[b])
        BY ImportEffect
    <2> HIDE DEF ids, n, rs
    <2> QED BY <1>5, <1>6, <2>1
<1> HIDE DEF ids, n, rs
<1>8. \A a \in DOMAIN ids : \A x : x.ch = ids[a] => Pair(x, ImportRule(id[a], x))
    BY <1>7 DEF ImportRule, Row
<1>9. \A i \in DOMAIN rs : NormalizeStored(rs[i].pat) # Nothing =>
          \E k \in DOMAIN rows' : Pair(rs[i], rows'[k])
    <2> SUFFICES ASSUME NEW i \in DOMAIN rs, NormalizeStored(rs[i].pat) # Nothing
                 PROVE  \E k \in DOMAIN rows' : Pair(rs[i], rows'[k])
        OBVIOUS
    <2>1. PICK a \in DOMAIN ids : ids[a] = rs[i].ch BY <1>1, <1>2
    <2>2. PICK b \in DOMAIN RulesOf(rs, ids[a]) : RulesOf(rs, ids[a])[b] = rs[i]
        BY <1>1, <2>1, RulesOfElements
    <2>3. b \in Sound(RulesOf(rs, ids[a])) BY <2>2 DEF Sound
    <2>4. PICK k \in DOMAIN rows' : rows'[k] = ImportRule(id[a], rs[i])
        BY <1>7, <2>2, <2>3
    <2> HIDE DEF Pair
    <2> QED BY <1>8, <2>1, <2>4
<1>10. \A k \in DOMAIN rows' : \E i \in DOMAIN rs : Pair(rs[i], rows'[k])
    <2> TAKE k \in DOMAIN rows'
    <2>1. PICK a \in DOMAIN ids : \E b \in Sound(RulesOf(rs, ids[a])) :
             rows'[k] = ImportRule(id[a], RulesOf(rs, ids[a])[b])
        BY <1>7
    <2>2. PICK b \in Sound(RulesOf(rs, ids[a])) :
             rows'[k] = ImportRule(id[a], RulesOf(rs, ids[a])[b])
        BY <2>1
    <2>3. PICK i \in DOMAIN rs : rs[i].ch = ids[a] /\ RulesOf(rs, ids[a])[b] = rs[i]
        BY <1>1, RulesOfElements DEF Sound
    <2> HIDE DEF Pair
    <2> QED BY <1>8, <2>2, <2>3
<1>11. \A x, y : Twins(x, y)' <=> Pair(x, y) BY <1>3 DEF Twins, n
<1> HIDE DEF Pair
<1>12. ToSet(rs) = {rs[i] : i \in DOMAIN rs}
       /\ ToSet(rows)' = {rows'[k] : k \in DOMAIN rows'}
    BY DEF ToSet
<1> QED BY <1>9, <1>10, <1>11, <1>12 DEF rs

LEMMA RestoreInvariant == Spec => []RestoreInv
<1>1. Init => RestoreInv BY DEF Init, RestoreInv
<1>2. TypeOK /\ RestoreInv /\ [Next]_vars => RestoreInv'
    <2> SUFFICES ASSUME TypeOK, RestoreInv, [Next]_vars PROVE RestoreInv' OBVIOUS
    <2>1. ASSUME Home, UNCHANGED <<file, moved, origin, lossy>> PROVE RestoreInv'
        BY <2>1 DEF RestoreInv, Home
    <2>2. ASSUME NEW unread \in SUBSET InDb, Export(unread) PROVE RestoreInv'
        <3>1. ~moved' BY <2>2 DEF Export, Home
        <3>2. ~lossy' => file' = Document(origin'.name, origin'.rows)
            BY <2>2, ExportWritesDocument
        <3> QED BY <3>1, <3>2 DEF RestoreInv
    <2>3. ASSUME NEW id \in [DOMAIN file -> Channels], Import(id) PROVE RestoreInv'
        <3>1. UNCHANGED <<file, origin, lossy>> BY <2>3 DEF Import
        <3>2. ~lossy /\ Distinct(origin.name) =>
                /\ \A x \in ToSet(origin.rows) : NormalizeStored(x.pat) # Nothing =>
                     \E y \in ToSet(rows)' : Twins(x, y)'
                /\ \A y \in ToSet(rows)' : \E x \in ToSet(origin.rows) : Twins(x, y)'
            BY <2>3, ImportBringsTwins
        <3>3. (~lossy /\ file # <<>> => file = Document(origin.name, origin.rows))'
            BY <3>1 DEF RestoreInv
        <3>4. (~lossy /\ Distinct(origin.name) =>
                /\ \A x \in ToSet(origin.rows) : NormalizeStored(x.pat) # Nothing =>
                     \E y \in ToSet(rows) : Twins(x, y)
                /\ \A y \in ToSet(rows) : \E x \in ToSet(origin.rows) : Twins(x, y))'
            BY <3>1, <3>2
        <3> QED BY <3>3, <3>4 DEF RestoreInv
    <2>4. CASE UNCHANGED vars BY <2>4 DEF vars, RestoreInv, Twins
    <2> QED BY <2>1, <2>2, <2>3, <2>4
            DEF Next, Restart, CreateChannel, AddRules, DelRule, SetRulesEnabled, DeleteChannel
<1> QED BY <1>1, <1>2, TypeCorrect, PTL DEF Spec

(* Twins bind the same destinations with the same strength.                 *)
LEMMA TwinsBindAlike ==
    ASSUME NEW dest \in Dests, NEW x \in Rule, NEW y \in Rule, Plain(x), Twins(x, y),
           NEW rs \in Seq(Rule), NEW i \in DOMAIN rs, rs[i] = x,
           NEW qs \in Seq(Rule), NEW k \in DOMAIN qs, qs[k] = y
    PROVE  /\ i \in Binding(rs, dest) <=> k \in Binding(qs, dest)
           /\ Weight(x) = Weight(y)
<1>1. /\ y.pat = NormalizeStored(x.pat) /\ y.on = x.on
      /\ x.pat \in Patterns /\ y.pat \in Patterns
    BY Kinds DEF Twins
<1>2. CASE x.pat.kind = "ip"
    <2>1. /\ y.pat.kind = "ip" /\ Prefix(y.pat) = Prefix(x.pat)
          /\ y.pat = [x.pat EXCEPT !.len = Prefix(x.pat)]
          /\ [y.pat EXCEPT !.len = Prefix(x.pat)] = y.pat
        BY <1>1, <1>2, NormalForms
    <2> QED BY <1>1, <1>2, <2>1 DEF Binding, Plain, Weight
<1>3. CASE x.pat.kind = "domain"
    <2>1. /\ y.pat.kind = "domain" /\ y.pat.host = x.pat.host /\ x.pat.wild \in 0..3
          /\ y.pat.wild = IF x.pat.wild > 0 THEN x.pat.wild - 1 ELSE 0
        BY <1>1, <1>3, NormalForms
    <2>2. x.pat.wild <= 1 /\ y.pat.wild <= 1 BY <1>3, <2>1 DEF Plain
    <2> QED BY <1>1, <1>3, <2>1, <2>2 DEF Binding, Plain, Weight
<1>4. CASE NormalizeStored(x.pat) = Nothing
    <2>1. y.pat.kind = "none" BY <1>1, <1>4 DEF Nothing
    <2>2. y.pat.kind \in {"ip", "domain", "malformed"} BY <1>1, NormalForms
    <2> QED BY <2>1, <2>2
<1> QED BY <1>1, <1>2, <1>3, <1>4, NormalForms

(* config_export and config_import: on another machine every destination    *)
(* goes to the channel of the same name.                                    *)
THEOREM BackupsRestore == Spec => []BackupRestores
<1>1. TypeOK /\ RestoreInv => BackupRestores
    <2> SUFFICES ASSUME TypeOK, RestoreInv, moved, ~lossy, Distinct(origin.name),
                        \A r \in ToSet(origin.rows) : Plain(r),
                        NEW dest \in Dests, ~Contested(origin.rows, dest)
                 PROVE  LET old == Route(BuildRules(origin.rows), dest)
                            new == Route(BuildRules(rows), dest)
                        IN  IF old = Direct THEN new = Direct
                            ELSE new # Direct /\ name[new] = origin.name[old]
        BY DEF BackupRestores
    <2> DEFINE rs == origin.rows
               Old == Binding(rs, dest)
               New == Binding(rows, dest)
    <2>1. rs \in Seq(Rule) /\ rows \in Seq(Rule) BY DEF TypeOK, Tables, OwnRules
    <2>2. /\ \A i \in DOMAIN rs : rs[i] \in Rule /\ Plain(rs[i])
          /\ \A k \in DOMAIN rows : rows[k] \in Rule
        BY <2>1, Positions DEF ToSet
    <2>3. /\ \A i \in DOMAIN rs : NormalizeStored(rs[i].pat) # Nothing =>
                \E k \in DOMAIN rows : Twins(rs[i], rows[k])
          /\ \A k \in DOMAIN rows : \E i \in DOMAIN rs : Twins(rs[i], rows[k])
        BY DEF RestoreInv, ToSet
    <2> HIDE DEF rs, Old, New
    <2>4. \A i \in DOMAIN rs, k \in DOMAIN rows : Twins(rs[i], rows[k]) =>
             /\ i \in Old <=> k \in New
             /\ Weight(rs[i]) = Weight(rows[k])
        BY <2>1, <2>2, TwinsBindAlike DEF Old, New
    <2>5. /\ Old \subseteq DOMAIN rs /\ New \subseteq DOMAIN rows
          /\ \A i \in Old : NormalizeStored(rs[i].pat) # Nothing
        <3>1. \A i \in Old : i \in Written(rs) BY <2>1, BoundByKind DEF Old
        <3> QED BY <3>1 DEF Written, Old, New, Binding
    <2>6. Old = {} <=> New = {} BY <2>3, <2>4, <2>5
    <2>7. CASE Old = {}
        <3>1. Route(BuildRules(rs), dest) = Direct BY <2>1, <2>7, BoundIsNotDirect DEF Old
        <3>2. Route(BuildRules(rows), dest) = Direct
            BY <2>1, <2>6, <2>7, BoundIsNotDirect DEF New
        <3> QED BY <3>1, <3>2 DEF rs
    <2>8. CASE Old # {}
        <3>1. PICK i \in Strongest(rs, dest) : Route(BuildRules(rs), dest) = rs[i].ch
            BY <2>1, <2>8, RouteIsStrongest DEF Old
        <3>2. PICK k \in Strongest(rows, dest) :
                 Route(BuildRules(rows), dest) = rows[k].ch
            BY <2>1, <2>6, <2>8, RouteIsStrongest DEF New
        <3>3. i \in Old /\ k \in New BY DEF Strongest, Old, New
        <3>4. PICK j \in DOMAIN rs : Twins(rs[j], rows[k]) BY <2>3, <2>5, <3>3
        <3>5. j \in Old /\ Weight(rs[j]) = Weight(rows[k]) BY <2>4, <2>5, <3>3, <3>4
        <3>6. \A m \in Old : Weight(rs[j]) >= Weight(rs[m])
            <4> TAKE m \in Old
            <4>1. PICK l \in DOMAIN rows : Twins(rs[m], rows[l]) BY <2>3, <2>5
            <4>2. l \in New /\ Weight(rs[m]) = Weight(rows[l]) BY <2>4, <2>5, <4>1
            <4>3. Weight(rows[k]) >= Weight(rows[l]) BY <4>2 DEF Strongest, New
            <4> QED BY <3>5, <4>2, <4>3
        <3>7. j \in Strongest(rs, dest) BY <3>5, <3>6 DEF Strongest, Old
        <3>8. rs[j].ch = rs[i].ch BY <3>7 DEF Contested, rs
        <3>9. name[rows[k].ch] = origin.name[rs[i].ch] BY <3>4, <3>8 DEF Twins
        <3>10. Route(BuildRules(rows), dest) # Direct
            BY <2>1, <2>6, <2>8, BoundIsNotDirect DEF New
        <3>11. Route(BuildRules(rs), dest) # Direct
            BY <2>1, <2>8, BoundIsNotDirect DEF Old
        <3> QED BY <3>1, <3>2, <3>9, <3>10, <3>11 DEF rs
    <2> QED BY <2>7, <2>8
<1> QED BY <1>1, TypeCorrect, RestoreInvariant, PTL

=============================================================================
