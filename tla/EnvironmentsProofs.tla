------------------------- MODULE EnvironmentsProofs -------------------------
(***************************************************************************)
(* Theorems about Environments, for every set of servers, names and        *)
(* callers, and whichever names share a secret name.  StoresAgree is not   *)
(* inductive: a command that is about to write the config must already     *)
(* have written the secret that goes with it (Written).  Nor is what a     *)
(* request carries and reaches: it rests on what the call has found out    *)
(* so far (Knows), on ids that name nothing but their own server           *)
(* (IdsAgree), and on what discovered_environment_map makes of any list    *)
(* (AllDiscovered, by induction over the list).                            *)
(***************************************************************************)
EXTENDS Environments, FiniteSetTheorems, TLAPS

StoresType ==
  /\ config \in [Names -> Envs \cup {None}]
  /\ secret \in [Secrets -> Envs \cup {None}]
  /\ cli \in Commands

Between(name) == cli.pc = "config" /\ cli.name = name

\* The secret that goes with a config about to be written is there.
Written ==
  cli.pc = "config" /\ Alone(cli.name) => secret[SecretName[cli.name]] = cli.env

\* The stores agree on every name but the one a command is between its writes for.
Agree ==
  \A name \in Names :
    (Alone(name) /\ name \notin torn /\ ~ Between(name)) =>
      secret[SecretName[name]] = config[name]

Inv == StoresType /\ Written /\ Agree
----------------------------------------------------------------------------
LEMMA CommandFacts ==
  ASSUME cli \in Commands
  PROVE  /\ cli = NoCommand \/ (cli.pc \in {"secret", "config"} /\ cli.name \in Names)
         /\ cli.env \in Envs \cup {None}
         /\ cli.pc \in {"secret", "config"} => cli # NoCommand
  BY DEF Commands, NoCommand

LEMMA InitAgree == Init => Inv
<1> SUFFICES ASSUME Init PROVE Inv
  OBVIOUS
<1>1. StoresType
  BY DEF Init, StoresType, Nothing, Commands
<1>2. cli.pc = "idle"
  BY DEF Init, NoCommand
<1>3. \A name \in Names : SecretName[name] \in Secrets
  BY DEF Secrets
<1>4. Agree
  BY <1>3 DEF Init, Agree, Nothing
<1>. QED BY <1>1, <1>2, <1>4 DEF Inv, Written

\* The secret is written first: the name is then between its writes, and no other
\* name that stands alone reads that secret.
LEMMA SecretWritten == Inv /\ WriteSecret => Inv'
<1> SUFFICES ASSUME Inv, WriteSecret PROVE Inv'
  OBVIOUS
<1> USE DEF Inv, StoresType
<1>1. /\ cli.name \in Names /\ cli.env \in Envs \cup {None}
      /\ cli' = [cli EXCEPT !.pc = "config"] /\ cli' \in Commands
      /\ cli'.pc = "config" /\ cli'.name = cli.name /\ cli'.env = cli.env
  BY CommandFacts DEF WriteSecret, Commands, NoCommand
<1>2. secret' = [secret EXCEPT ![SecretName[cli.name]] = cli.env] /\ config' = config /\ torn' = torn
  BY DEF WriteSecret
<1>3. \A name \in Names : SecretName[name] \in Secrets
  BY DEF Secrets
<1>4. StoresType'
  BY <1>1, <1>2, <1>3
<1>5. Written'
  BY <1>1, <1>2, <1>3 DEF Written
<1>6. Agree'
  <2> SUFFICES ASSUME NEW name \in Names, Alone(name), name \notin torn, ~ Between(name)'
               PROVE  secret'[SecretName[name]] = config[name]
    BY <1>2 DEF Agree, Alone
  <2>1. name # cli.name
    BY <1>1 DEF Between
  <2>2. SecretName[name] # SecretName[cli.name]
    BY <1>1, <2>1 DEF Alone
  <2>3. secret[SecretName[name]] = config[name]
    BY <2>1 DEF Agree, Between
  <2>. QED BY <1>2, <1>3, <2>2, <2>3
<1>. QED BY <1>4, <1>5, <1>6

LEMMA ConfigWritten == Inv /\ WriteConfig => Inv'
<1> SUFFICES ASSUME Inv, WriteConfig PROVE Inv'
  OBVIOUS
<1> USE DEF Inv, StoresType
<1>1. cli.name \in Names /\ cli.env \in Envs \cup {None} /\ cli.pc = "config"
  BY CommandFacts DEF WriteConfig, NoCommand
<1>2. /\ config' = [config EXCEPT ![cli.name] = cli.env] /\ secret' = secret
      /\ torn' = torn \ {cli.name} /\ cli' = NoCommand
  BY DEF WriteConfig
<1>3. StoresType'
  BY <1>1, <1>2 DEF Commands
<1>4. Written'
  BY <1>2 DEF Written, NoCommand
<1>5. Agree'
  <2> SUFFICES ASSUME NEW name \in Names, Alone(name), name \notin torn'
               PROVE  secret[SecretName[name]] = config'[name]
    BY <1>2 DEF Agree, Alone
  <2>1. CASE name = cli.name
    BY <1>1, <1>2, <2>1 DEF Written
  <2>2. CASE name # cli.name
    <3>1. secret[SecretName[name]] = config[name]
      BY <1>2, <2>2 DEF Agree, Between
    <3>. QED BY <1>1, <1>2, <2>2, <3>1
  <2>. QED BY <2>1, <2>2
<1>. QED BY <1>3, <1>4, <1>5

LEMMA CommandBegun == 
  ASSUME Inv, cli = NoCommand, cli' \in Commands, cli'.pc = "secret",
         UNCHANGED <<config, secret, torn>>
  PROVE  Inv'
  BY DEF Inv, StoresType, Written, Agree, Between, Alone, NoCommand

LEMMA StoresUntouched == Inv /\ UNCHANGED <<config, secret, cli, torn>> => Inv'
  BY DEF Inv, StoresType, Written, Agree, Between, Alone

LEMMA CommandStopped == Inv /\ CommandFails => Inv'
<1> SUFFICES ASSUME Inv, CommandFails PROVE Inv'
  OBVIOUS
<1> USE DEF Inv, StoresType
<1>1. config' = config /\ secret' = secret /\ cli' = NoCommand
  BY DEF CommandFails
<1>2. StoresType' /\ Written'
  BY <1>1 DEF Commands, Written, NoCommand
<1>3. Agree'
  <2> SUFFICES ASSUME NEW name \in Names, Alone(name), name \notin torn'
               PROVE  secret[SecretName[name]] = config[name]
    BY <1>1 DEF Agree, Alone
  <2>1. name \notin torn /\ ~ Between(name)
    BY DEF CommandFails, Between
  <2>. QED BY <2>1 DEF Agree
<1>. QED BY <1>2, <1>3

LEMMA StepAgree == Inv /\ [Next]_vars => Inv'
<1> SUFFICES ASSUME Inv, [Next]_vars PROVE Inv'
  OBVIOUS
<1>1. ASSUME NEW e \in Envs, NEW name \in Names, BeginLogin(e, name) PROVE Inv'
  <2>1. cli' \in Commands /\ cli'.pc = "secret" /\ cli = NoCommand
    BY <1>1 DEF BeginLogin, Commands
  <2>. QED BY <1>1, <2>1, CommandBegun DEF BeginLogin
<1>2. ASSUME NEW name \in Names, BeginLogout(name) PROVE Inv'
  <2>1. cli' \in Commands /\ cli'.pc = "secret" /\ cli = NoCommand
    BY <1>2 DEF BeginLogout, Commands, NoCommand
  <2>. QED BY <1>2, <2>1, CommandBegun DEF BeginLogout
<1>3. CASE WriteSecret
  BY <1>3, SecretWritten
<1>4. CASE WriteConfig
  BY <1>4, ConfigWritten
<1>5. CASE CommandFails
  BY <1>5, CommandStopped
<1>6. CASE SignInOrOut
  BY <1>6, StoresUntouched DEF SignInOrOut
<1>7. ASSUME NEW c \in Callers, ToolCall(c) PROVE Inv'
  BY <1>7, StoresUntouched
     DEF ToolCall, Begin, Listed, ListFails, WriteDiscovered, Resolve, Authorise, Return
<1>8. CASE UNCHANGED vars
  BY <1>8, StoresUntouched DEF vars
<1>. QED BY <1>1, <1>2, <1>3, <1>4, <1>5, <1>6, <1>7, <1>8 DEF Next, Command

\* login and logout keep the config and the secrets in agreement, wherever they are
\* interrupted and whatever the tool calls do between their writes.
THEOREM StoresKeepAgreeing == Spec => []StoresAgree
<1>1. Init => Inv
  BY InitAgree
<1>2. Inv /\ [Next]_vars => Inv'
  BY StepAgree
<1>3. Inv => StoresAgree
  BY DEF Inv, Agree, StoresAgree, Between
<1>. QED BY <1>1, <1>2, <1>3, PTL DEF Spec
----------------------------------------------------------------------------
(* The map of discovered environments *)

\* A set that holds 0 and, with each number below n, its successor holds 0 .. n: of the
\* segments 0 .. k with a k it lacks, one contains no other.
LEMMA UpTo ==
  ASSUME NEW n \in Nat, NEW S \in SUBSET (0 .. n), 0 \in S,
         \A k \in S : k < n => k + 1 \in S
  PROVE  S = 0 .. n
<1> DEFINE N == 0 .. n
           R == StrictSubsetOrdering(N)
           T == {P \in SUBSET N : \E k \in N \ S : P = 0 .. k}
<1>1. IsWellFoundedOn(R, SUBSET N)
  <2>1. IsFiniteSet(N)
    BY FS_Interval
  <2>. QED
    BY <2>1, FS_FiniteSubsetsOfFinite, FS_StrictSubsetOrderingWellFounded
<1>2. \A P, Q \in SUBSET N : P \subseteq Q /\ P # Q => <<P, Q>> \in R
  BY DEF StrictSubsetOrdering
<1> HIDE DEF R
<1>3. ASSUME NEW k \in N \ S PROVE FALSE
  <2>1. (0 .. k) \in T
    BY <1>3
  <2>2. PICK P \in T : \A Q \in T : ~ (<<Q, P>> \in R)
    <3>1. T \subseteq SUBSET N /\ T # {}
      BY <2>1
    <3> HIDE DEF T, N
    <3>. QED
      BY <1>1, <3>1, WFMin
  <2>3. PICK j \in N \ S : P = 0 .. j
    OBVIOUS
  <2>4. j # 0 /\ j - 1 \in N \ S
    OBVIOUS
  <2>5. (0 .. (j - 1)) \in T
    BY <2>4
  <2>6. 0 .. (j - 1) \subseteq 0 .. j /\ 0 .. (j - 1) # 0 .. j
    BY <2>4
  <2>. QED
    BY <1>2, <2>2, <2>3, <2>5, <2>6
<1>. QED
  BY <1>3

Maps == [Names -> Envs \cup {None}]

\* Under a server's id only that server is found.
IdsNamed(map) == \A e \in Envs : map[e] \in {None, e}

\* The server is found under a name of its own or under one that is not taken.
Found(map, taken, e) == \E n \in Names : map[n] = e /\ (n \notin taken \/ n = e)

LEMMA NameFacts ==
  /\ Envs \subseteq Names /\ None \notin Names
  /\ Nothing \in Maps /\ IdsNamed(Nothing)
  /\ \A e \in Envs : Slug(e) \in Names /\ (Slug(e) \in Envs => Slug(e) = e)
  BY EnvironmentsAssumption DEF Nothing, Maps, IdsNamed, Slug

\* A row takes a name that is free, or its own: none that joined before it is lost.
LEMMA RowAdded ==
  ASSUME NEW taken, NEW found \in Maps, IdsNamed(found), NEW e \in Envs
  PROVE  LET map == AddRow(taken, found, e) IN
         /\ map \in Maps /\ IdsNamed(map) /\ Found(map, taken, e)
         /\ \A d \in Envs : Found(found, taken, d) => Found(map, taken, d)
<1> DEFINE free == Slug(e) \notin taken /\ found[Slug(e)] = None
           name == IF free THEN Slug(e) ELSE e
           map == AddRow(taken, found, e)
<1>1. map = [found EXCEPT ![name] = e]
  BY DEF AddRow
<1>2. /\ name \in Names /\ (name \in Envs => name = e)
      /\ name \notin taken \/ name = e
      /\ found[name] \in {None, e}
  BY NameFacts DEF IdsNamed
<1> HIDE DEF map, name, free
<1>3. map \in Maps /\ map[name] = e /\ \A n \in Names \ {name} : map[n] = found[n]
  BY <1>1, <1>2 DEF Maps
<1>4. IdsNamed(map)
  BY <1>2, <1>3, NameFacts DEF IdsNamed
<1>5. Found(map, taken, e)
  BY <1>2, <1>3 DEF Found
<1>6. ASSUME NEW d \in Envs, Found(found, taken, d) PROVE Found(map, taken, d)
  BY <1>2, <1>3, <1>5, <1>6, NameFacts DEF Found
<1>. QED
  BY <1>3, <1>4, <1>5, <1>6 DEF map

\* The map that grows row by row exists, and each of its stages comes of the one
\* before it.
LEMMA Stages ==
  ASSUME NEW taken, NEW rows, Len(rows) \in Nat
  PROVE  \E found :
           /\ DiscoveredMap(rows, taken) = found[Len(rows)]
           /\ found[0] = Nothing
           /\ \A k \in 1 .. Len(rows) : found[k] = AddRow(taken, found[k - 1], rows[k])
<1> DEFINE n == Len(rows)
           Joins(f, k) == \A i \in 0 .. k :
                            f[i] = IF i = 0 THEN Nothing ELSE AddRow(taken, f[i - 1], rows[i])
           S == {k \in 0 .. n : \E f : Joins(f, k)}
<1>1. 0 \in S
  <2> DEFINE f == [i \in {0} |-> Nothing]
  <2>1. f[0] = Nothing
    OBVIOUS
  <2> HIDE DEF f
  <2>2. \A i \in 0 .. 0 : i = 0
    OBVIOUS
  <2>3. Joins(f, 0)
    BY <2>1, <2>2
  <2>. QED
    BY <2>3
<1>2. ASSUME NEW k \in S, k < n PROVE k + 1 \in S
  <2>1. PICK f : Joins(f, k)
    OBVIOUS
  <2>2. k \in Nat
    OBVIOUS
  <2> DEFINE g == [i \in 0 .. k + 1 |-> IF i = k + 1 THEN AddRow(taken, f[k], rows[k + 1])
                                        ELSE f[i]]
  <2>3. g[k + 1] = AddRow(taken, f[k], rows[k + 1]) /\ \A i \in 0 .. k : g[i] = f[i]
    BY <2>2
  <2>4. Joins(g, k + 1)
    <3> HIDE DEF g
    <3> SUFFICES ASSUME NEW i \in 0 .. k + 1
                 PROVE  g[i] = IF i = 0 THEN Nothing ELSE AddRow(taken, g[i - 1], rows[i])
      OBVIOUS
    <3>1. CASE i = k + 1
      BY <2>2, <2>3, <3>1
    <3>2. CASE i # k + 1
      <4>1. i \in 0 .. k /\ (i # 0 => i - 1 \in 0 .. k)
        BY <2>2, <3>2
      <4>. QED
        BY <2>1, <2>3, <4>1
    <3>. QED
      BY <3>1, <3>2
  <2> HIDE DEF g, Joins
  <2>5. k + 1 \in 0 .. n
    BY <1>2, <2>2
  <2>. QED
    BY <2>4, <2>5
<1>3. S = 0 .. n
  <2> HIDE DEF n, Joins
  <2>. QED
    BY <1>1, <1>2, UpTo DEF n
<1>4. PICK f : Joins(f, n)
  <2> HIDE DEF n, Joins
  <2>. QED
    BY <1>3 DEF n
<1> DEFINE Grown(h) == [i \in 0 .. n |-> IF i = 0 THEN Nothing
                                         ELSE AddRow(taken, h[i - 1], rows[i])]
           full == [i \in 0 .. n |-> f[i]]
           found == CHOOSE h : h = Grown(h)
<1>5. full = Grown(full)
  <2>1. \A i \in 0 .. n : full[i] = f[i]
    OBVIOUS
  <2> HIDE DEF full
  <2>2. \A i \in 0 .. n : full[i] = IF i = 0 THEN Nothing ELSE AddRow(taken, full[i - 1], rows[i])
    BY <1>4, <2>1
  <2>. QED
    BY <2>2 DEF full
<1>6. found = Grown(found)
  <2> HIDE DEF Grown, full
  <2>. QED
    BY <1>5
<1>7. DiscoveredMap(rows, taken) = found[n]
  BY DEF DiscoveredMap
<1> HIDE DEF found
<1>8. \A i \in 0 .. n : found[i] = IF i = 0 THEN Nothing ELSE AddRow(taken, found[i - 1], rows[i])
  BY <1>6
<1>. QED
  BY <1>7, <1>8

\* Every listed server is found, whatever the labels and their order.
LEMMA AllDiscovered ==
  ASSUME NEW taken, NEW rows \in Listings
  PROVE  LET map == DiscoveredMap(rows, taken) IN
         /\ map \in Maps /\ IdsNamed(map)
         /\ \A e \in ToSet(rows) : e \in Envs /\ Found(map, taken, e)
<1> DEFINE n == Len(rows)
           Good(m, k) == /\ m \in Maps /\ IdsNamed(m)
                         /\ \A i \in 1 .. k : Found(m, taken, rows[i])
<1>1. n \in Nat /\ rows \in [1 .. n -> Envs]
  <2>1. PICK k \in Nat : rows \in [1 .. k -> Envs]
    BY EnvironmentsAssumption, FS_CardinalityType DEF Listings
  <2>. QED
    BY <2>1
<1>2. PICK found : /\ DiscoveredMap(rows, taken) = found[n]
                   /\ found[0] = Nothing
                   /\ \A k \in 1 .. n : found[k] = AddRow(taken, found[k - 1], rows[k])
  BY <1>1, Stages
<1> DEFINE S == {k \in 0 .. n : Good(found[k], k)}
<1>3. 0 \in S
  BY <1>1, <1>2, NameFacts
<1>4. ASSUME NEW k \in S, k < n PROVE k + 1 \in S
  <2>1. k \in 0 .. n /\ Good(found[k], k)
    OBVIOUS
  <2>2. k + 1 \in 1 .. n /\ k + 1 \in 0 .. n /\ rows[k + 1] \in Envs
    BY <1>1, <1>4, <2>1
  <2>3. found[k + 1] = AddRow(taken, found[k], rows[k + 1])
    BY <1>1, <1>2, <2>1, <2>2
  <2> DEFINE m == found[k + 1]
  <2>4. /\ m \in Maps /\ IdsNamed(m) /\ Found(m, taken, rows[k + 1])
        /\ \A d \in Envs : Found(found[k], taken, d) => Found(m, taken, d)
    BY <2>1, <2>2, <2>3, RowAdded
  <2> HIDE DEF m
  <2>5. \A i \in 1 .. k + 1 : Found(m, taken, rows[i])
    <3> SUFFICES ASSUME NEW i \in 1 .. k + 1 PROVE Found(m, taken, rows[i])
      OBVIOUS
    <3>1. CASE i = k + 1
      BY <2>4, <3>1
    <3>2. CASE i # k + 1
      <4>1. i \in 1 .. k /\ i \in 1 .. n
        BY <1>1, <2>1, <2>2, <3>2
      <4>2. rows[i] \in Envs
        BY <1>1, <4>1
      <4>. QED
        BY <2>1, <2>4, <4>1, <4>2
    <3>. QED
      BY <3>1, <3>2
  <2>6. Good(m, k + 1)
    BY <2>4, <2>5
  <2>. QED
    BY <2>2, <2>6 DEF m
<1>5. S = 0 .. n
  <2> HIDE DEF n, Good
  <2>. QED
    BY <1>1, <1>3, <1>4, UpTo
<1>6. Good(found[n], n)
  <2> HIDE DEF n, Good
  <2>. QED
    BY <1>1, <1>5
<1>7. \A e \in ToSet(rows) : \E i \in 1 .. n : e = rows[i]
  BY DEF ToSet
<1>. QED
  BY <1>1, <1>2, <1>6, <1>7
----------------------------------------------------------------------------
(* The lookup of an environment *)

Refs == [name : Names, server : Envs, id : Envs \cup {None}]

Given(n) == config[n] # None \/ discovered[n] # None

LEMMA RefFacts ==
  ASSUME config \in Maps, discovered \in Maps, NEW n \in Names
  PROVE  /\ Ref(n).name = n
         /\ Ref(n).id \in {None, discovered[n]}
         /\ Ref(n).id # None <=> config[n] = None /\ discovered[n] # None
         /\ Ref(n).server = IF config[n] # None THEN config[n] ELSE discovered[n]
         /\ Given(n) => Ref(n) \in Refs
         /\ Ref(n) # NoRef
<1>1. config[n] \in Envs \cup {None} /\ discovered[n] \in Envs \cup {None} /\ n # None
  BY EnvironmentsAssumption DEF Maps
<1>2. CASE config[n] # None
  BY <1>1, <1>2 DEF Ref, NoRef, Refs, Given
<1>3. CASE config[n] = None
  BY <1>1, <1>3 DEF Ref, NoRef, Refs, Given
<1>. QED
  BY <1>2, <1>3

\* A name that is given resolves to its own entry; an id that nothing is named after
\* resolves to an entry with that id, if there is one.
LEMMA LookedUp ==
  ASSUME config \in Maps, discovered \in Maps, NEW wanted \in Names \cup {None}
  PROVE  /\ Lookup(wanted) = NoRef \/ \E n \in Names : Given(n) /\ Lookup(wanted) = Ref(n)
         /\ wanted # None /\ Given(wanted) => Lookup(wanted) = Ref(wanted)
         /\ wanted # None /\ ~ Given(wanted) /\ Lookup(wanted) # NoRef =>
              Lookup(wanted).id = wanted
         /\ wanted # None /\ (\E n \in Names : Given(n) /\ Ref(n).id = wanted) =>
              Lookup(wanted) # NoRef
<1> DEFINE named == {r \in Resolved : r.name = wanted}
           ided == {r \in Resolved : r.id = wanted}
           fit == IF wanted = None THEN IF Cardinality(Resolved) = 1 THEN Resolved ELSE {}
                  ELSE IF named # {} THEN named ELSE ided
<1>1. Lookup(wanted) = IF fit = {} THEN NoRef ELSE CHOOSE r \in fit : TRUE
  BY DEF Lookup
<1>2. \A r \in Resolved : \E n \in Names : Given(n) /\ r = Ref(n)
  BY DEF Resolved, Given
<1>3. \A n \in Names : Given(n) => Ref(n) \in Resolved
  BY DEF Resolved, Given
<1>4. fit \subseteq Resolved
  OBVIOUS
<1>5. fit # {} => Lookup(wanted) \in fit
  <2> HIDE DEF fit
  <2>. QED
    BY <1>1
<1>6. Lookup(wanted) = NoRef \/ \E n \in Names : Given(n) /\ Lookup(wanted) = Ref(n)
  <2> HIDE DEF fit
  <2>. QED
    BY <1>1, <1>2, <1>4, <1>5
<1>7. ASSUME wanted # None, Given(wanted) PROVE Lookup(wanted) = Ref(wanted)
  <2>1. wanted \in Names
    BY <1>7
  <2>2. Ref(wanted) \in named
    BY <1>3, <1>7, <2>1, RefFacts
  <2>3. fit = named
    BY <1>7, <2>2
  <2>4. Lookup(wanted) \in named
    BY <1>5, <2>2, <2>3
  <2>. QED
    BY <1>2, <2>4, RefFacts
<1>8. ASSUME wanted # None, ~ Given(wanted) PROVE fit = ided
  <2>1. named = {}
    BY <1>2, <1>8, RefFacts
  <2>. QED
    BY <1>8, <2>1
<1>9. ASSUME wanted # None, ~ Given(wanted), Lookup(wanted) # NoRef
      PROVE  Lookup(wanted).id = wanted
  <2>1. Lookup(wanted) \in ided
    <3> HIDE DEF fit, ided, named
    <3>. QED
      BY <1>1, <1>5, <1>8, <1>9
  <2>. QED
    BY <2>1
<1>10. ASSUME wanted # None, NEW n \in Names, Given(n), Ref(n).id = wanted
       PROVE  Lookup(wanted) # NoRef
  <2>1. Ref(n) \in ided
    BY <1>3, <1>10
  <2>2. CASE Given(wanted)
    BY <1>7, <1>10, <2>2, RefFacts
  <2>3. CASE ~ Given(wanted)
    <3>1. Lookup(wanted) \in ided
      BY <1>5, <1>8, <1>10, <2>1, <2>3
    <3>. QED
      BY <1>2, <3>1, RefFacts
  <2>. QED
    BY <2>2, <2>3
<1>. QED
  BY <1>6, <1>7, <1>9, <1>10

\* Under ids the stores give their own servers only: a lookup by id that finds anything
\* finds that server, and its token is bought for it.
LEMMA IdLookedUp ==
  ASSUME config \in Maps, discovered \in Maps, IdsNamed(config), IdsNamed(discovered),
         NEW e \in Envs
  PROVE  /\ Lookup(e) # NoRef => Lookup(e).server = e
         /\ BoughtFor(e) = e
<1>1. e \in Names /\ e # None
  BY EnvironmentsAssumption
<1>2. CASE Given(e)
  <2>1. Lookup(e) = Ref(e)
    BY <1>1, <1>2, LookedUp
  <2>2. Ref(e).server = e /\ Ref(e).id \in {None, e} /\ Ref(e).name = e
    BY <1>1, <1>2, RefFacts DEF IdsNamed, Given
  <2>. QED
    BY <2>1, <2>2 DEF BoughtFor
<1>3. CASE ~ Given(e) /\ Lookup(e) # NoRef
  <2>1. PICK n \in Names : Given(n) /\ Lookup(e) = Ref(n)
    BY <1>1, <1>3, LookedUp
  <2>2. Ref(n).id = e
    BY <1>1, <1>3, <2>1, LookedUp
  <2>3. Ref(n).server = e
    BY <1>1, <2>2, RefFacts
  <2>. QED
    BY <1>1, <2>1, <2>2, <2>3 DEF BoughtFor
<1>4. CASE Lookup(e) = NoRef
  BY <1>4 DEF BoughtFor
<1>. QED
  BY <1>2, <1>3, <1>4
----------------------------------------------------------------------------
(* A tool call *)

Steps == {"idle", "list", "write", "resolve", "authorise", "notFound", "refused", "sent"}

Calls ==
  [pc : Steps, wanted : Names \cup {None}, map : Maps, ref : Refs \cup {NoRef},
   token : Envs \cup {None}, listed : BOOLEAN, raced : BOOLEAN]

Types ==
  /\ discovered \in Maps /\ signedIn \in BOOLEAN
  /\ torn \subseteq Names /\ commands \in 0 .. MaxCommands
  /\ call \in [Callers -> Calls]
  /\ \A c \in Callers :
       /\ call[c].pc \in {"authorise", "refused", "sent"} => call[c].ref # NoRef
       /\ call[c].pc = "sent" => call[c].token # None

\* Whatever a store, a call or a command holds under a server's id is that server.
IdsAgree ==
  /\ IdsNamed(config) /\ IdsNamed(discovered)
  /\ \A c \in Callers : IdsNamed(call[c].map)
  /\ cli.name \in Envs => cli.env \in {None, cli.name}

\* The config names the server after its id, or the map finds it under a name that the
\* config leaves free.
Reach(map, e) == config[e] = e \/ \E n \in Names : map[n] = e /\ config[n] = None

\* What a call that nobody raced has found out still holds.
Knows(c) ==
  LET x == call[c] IN
  ~ x.raced =>
    /\ x.listed =>
         /\ x.wanted \in Envs /\ x.pc \notin {"list", "notFound"}
         /\ x.pc = "write" => Reach(x.map, x.wanted)
         /\ x.pc = "resolve" => Reach(discovered, x.wanted)
         /\ x.pc \in {"authorise", "refused", "sent"} => x.ref.server = x.wanted
    /\ x.pc = "authorise" => x.ref = Ref(x.ref.name)
    /\ x.pc = "sent" /\ Alone(x.ref.name) /\ x.ref.name \notin torn /\ ~ Between(x.ref.name)
         => x.token = x.ref.server

CallInv == Types /\ IdsAgree /\ \A c \in Callers : Knows(c)

\* The race's mark is all that a writer leaves on the calls of others.
LEMMA Raced ==
  ASSUME call \in [Callers -> Calls], NEW but
  PROVE  /\ Race(but) \in [Callers -> Calls]
         /\ \A c \in Callers :
              /\ Race(but)[c] = call[c] \/ Race(but)[c] = [call[c] EXCEPT !.raced = TRUE]
              /\ Race(but)[c].raced \/ call[c].pc = "idle" \/ c = but
              /\ c = but => Race(but)[c] = call[c]
<1>1. \A c \in Callers : [call[c] EXCEPT !.raced = TRUE] \in Calls
  BY DEF Calls
<1>2. \A c \in Callers : call[c] \in Calls
  OBVIOUS
<1>3. ASSUME NEW c \in Callers
      PROVE  Race(but)[c] = IF c = but \/ call[c].pc = "idle" THEN call[c]
                            ELSE [call[c] EXCEPT !.raced = TRUE]
  BY DEF Race
<1>4. Race(but) \in [Callers -> Calls]
  BY <1>1, <1>2 DEF Race
<1>5. \A c \in Callers : [call[c] EXCEPT !.raced = TRUE].raced
  BY <1>2 DEF Calls
<1>. QED
  BY <1>3, <1>4, <1>5

\* A step that writes neither the config nor the secrets nor the map.
LEMMA OthersKnow ==
  ASSUME UNCHANGED <<config, secret, discovered>>, torn \subseteq torn',
         \A n \in torn' \cup Names : Between(n) => Between(n)' \/ n \in torn',
         call \in [Callers -> Calls],
         NEW c \in Callers, Knows(c), call'[c] = call[c],
         call[c].ref.name \in Names \/ call[c].pc # "sent"
  PROVE  Knows(c)'
  BY DEF Knows, Reach, Ref, Alone

LEMMA NoCallType == NoCall \in Calls /\ NoCall.pc = "idle" /\ NoCall.map = Nothing
  BY NameFacts DEF NoCall, Calls, Steps

LEMMA CallInvStarts == ASSUME Init PROVE CallInv
<1>1. \A c \in Callers : call[c] = NoCall
  BY DEF Init
<1>2. Types
  BY <1>1, NameFacts, NoCallType, EnvironmentsAssumption DEF Init, Types
<1>3. IdsAgree
  BY <1>1, NameFacts, NoCallType, EnvironmentsAssumption DEF Init, IdsAgree, NoCommand
<1>4. \A c \in Callers : Knows(c)
  BY <1>1 DEF Knows, NoCall
<1>. QED
  BY <1>2, <1>3, <1>4 DEF CallInv

\* A step of a command, or of the user's signing in and out.
LEMMA CommandKnows ==
  ASSUME StoresType, CallInv, Command \/ SignInOrOut
  PROVE  CallInv'
<1>0. /\ config \in Maps /\ discovered \in Maps /\ call \in [Callers -> Calls]
      /\ cli \in Commands
      /\ \A c \in Callers : call[c].pc = "sent" => call[c].ref.name \in Names
  <2>1. \A c \in Callers : call[c].pc = "sent" => call[c].ref \in Refs
    BY DEF CallInv, Types, Calls
  <2>. QED
    BY <2>1 DEF CallInv, Types, StoresType, Maps, Refs
<1>1. ASSUME NEW e \in Envs, NEW name \in Names, BeginLogin(e, name) PROVE CallInv'
  <2>1. /\ cli' = [pc |-> "secret", op |-> "login", name |-> name, env |-> e]
        /\ cli = NoCommand /\ UNCHANGED <<config, secret, discovered, signedIn, call, torn>>
        /\ commands' \in 0 .. MaxCommands
    BY <1>1, EnvironmentsAssumption DEF BeginLogin, CallInv, Types
  <2>2. name \in Envs => name = e
    BY <1>1, NameFacts, EnvironmentsAssumption DEF BeginLogin
  <2>3. Types' /\ IdsAgree'
    BY <2>1, <2>2 DEF CallInv, Types, IdsAgree
  <2>4. \A c \in Callers : Knows(c)'
    BY <1>0, <2>1, OthersKnow DEF CallInv, Between, NoCommand
  <2>. QED
    BY <2>3, <2>4 DEF CallInv
<1>2. ASSUME NEW name \in Names, BeginLogout(name) PROVE CallInv'
  <2>1. /\ cli'.env = None /\ cli = NoCommand
        /\ UNCHANGED <<config, secret, discovered, signedIn, call, torn>>
        /\ commands' \in 0 .. MaxCommands
    BY <1>2, EnvironmentsAssumption DEF BeginLogout, CallInv, Types, NoCommand
  <2>2. Types' /\ IdsAgree'
    BY <2>1 DEF CallInv, Types, IdsAgree
  <2>3. \A c \in Callers : Knows(c)'
    BY <1>0, <2>1, OthersKnow DEF CallInv, Between, NoCommand
  <2>. QED
    BY <2>2, <2>3 DEF CallInv
<1>3. ASSUME WriteSecret \/ WriteConfig PROVE CallInv'
  <2>1. /\ call' = Race(None) /\ UNCHANGED <<discovered, signedIn, commands>>
        /\ torn' \subseteq torn
        /\ cli.name \in Names
        /\ config' = config \/ config' = [config EXCEPT ![cli.name] = cli.env]
        /\ cli' = [cli EXCEPT !.pc = "config"] \/ cli' = NoCommand
    BY <1>0, <1>3, CommandFacts DEF WriteSecret, WriteConfig, NoCommand
  <2>2. /\ call' \in [Callers -> Calls]
        /\ \A c \in Callers :
             /\ call'[c] = call[c] \/ call'[c] = [call[c] EXCEPT !.raced = TRUE]
             /\ call'[c].raced \/ call[c].pc = "idle"
    BY <1>0, <2>1, Raced, EnvironmentsAssumption
  <2>3. \A c \in Callers :
          /\ call'[c].pc = call[c].pc /\ call'[c].ref = call[c].ref
          /\ call'[c].token = call[c].token /\ call'[c].map = call[c].map
    BY <1>0, <2>2 DEF Calls
  <2>4. Types'
    BY <2>1, <2>2, <2>3 DEF CallInv, Types
  <2>5. IdsAgree'
    <3>1. cli'.name \in Envs => cli'.name = cli.name /\ cli'.env = cli.env
      BY <1>0, <2>1, EnvironmentsAssumption DEF Commands, NoCommand
    <3>2. IdsNamed(config')
      BY <1>0, <2>1, EnvironmentsAssumption DEF CallInv, IdsAgree, IdsNamed, Maps
    <3>. QED
      BY <2>1, <2>3, <3>1, <3>2 DEF CallInv, IdsAgree
  <2>6. ASSUME NEW c \in Callers PROVE Knows(c)'
    <3>1. CASE call'[c].raced
      BY <3>1 DEF Knows
    <3>2. CASE ~ call'[c].raced
      <4>1. call'[c] = call[c] /\ call[c].pc = "idle" /\ Knows(c) /\ ~ call[c].raced
        BY <1>0, <2>2, <3>2 DEF CallInv, Calls
      <4>. QED
        BY <4>1 DEF Knows
    <3>. QED
      BY <3>1, <3>2
  <2>. QED
    BY <2>4, <2>5, <2>6 DEF CallInv
<1>4. ASSUME CommandFails PROVE CallInv'
  <2>1. /\ cli' = NoCommand /\ UNCHANGED <<config, secret, discovered, signedIn, call, commands>>
        /\ torn' = IF cli.pc = "config" THEN torn \cup {cli.name} ELSE torn
        /\ cli.name \in Names
    BY <1>0, <1>4, CommandFacts DEF CommandFails
  <2>2. Types' /\ IdsAgree'
    BY <2>1, EnvironmentsAssumption DEF CallInv, Types, IdsAgree, NoCommand
  <2>3. \A c \in Callers : Knows(c)'
    BY <1>0, <2>1, OthersKnow DEF CallInv, Between
  <2>. QED
    BY <2>2, <2>3 DEF CallInv
<1>5. ASSUME SignInOrOut PROVE CallInv'
  <2>1. signedIn' \in BOOLEAN /\ UNCHANGED <<config, secret, discovered, cli, call, torn, commands>>
    BY <1>5 DEF SignInOrOut
  <2>2. Types' /\ IdsAgree'
    BY <2>1 DEF CallInv, Types, IdsAgree
  <2>3. \A c \in Callers : Knows(c)'
    BY <1>0, <2>1, OthersKnow DEF CallInv, Between
  <2>. QED
    BY <2>2, <2>3 DEF CallInv
<1>. QED
  BY <1>1, <1>2, <1>3, <1>4, <1>5 DEF Command

\* A step of one call that writes no store.
LEMMA CallSteps ==
  ASSUME CallInv, UNCHANGED <<config, secret, discovered, signedIn, cli, torn, commands>>,
         NEW c \in Callers, NEW x \in Calls, call' = [call EXCEPT ![c] = x],
         x.pc \in {"authorise", "refused", "sent"} => x.ref # NoRef,
         x.pc = "sent" => x.token # None,
         IdsNamed(x.map), Knows(c)'
  PROVE  CallInv'
<1>1. call'[c] = x /\ \A d \in Callers \ {c} : call'[d] = call[d]
  BY DEF CallInv, Types
<1>2. Types' /\ IdsAgree'
  BY <1>1 DEF CallInv, Types, IdsAgree
<1>3. \A d \in Callers : call[d].pc = "sent" => call[d].ref.name \in Names
  <2>1. \A d \in Callers : call[d].pc = "sent" => call[d].ref \in Refs
    BY DEF CallInv, Types, Calls
  <2>. QED
    BY <2>1 DEF Refs
<1>4. \A d \in Callers \ {c} : Knows(d)'
  BY <1>1, <1>3, OthersKnow DEF CallInv, Types, Between
<1>. QED
  BY <1>2, <1>4 DEF CallInv

LEMMA ToolCallKnows ==
  ASSUME Inv, CallInv, NEW c \in Callers, ToolCall(c)
  PROVE  CallInv'
<1> DEFINE x == call[c]
<1>0. /\ config \in Maps /\ discovered \in Maps /\ call \in [Callers -> Calls]
      /\ x \in Calls /\ Knows(c) /\ IdsNamed(x.map)
      /\ x.pc \in {"authorise", "refused", "sent"} => x.ref \in Refs
      /\ None \notin Names /\ Envs \subseteq Names
  BY EnvironmentsAssumption
  DEF CallInv, Types, IdsAgree, Calls, Inv, StoresType, Maps
<1>1. ASSUME NEW wanted \in Asked, Begin(c, wanted) PROVE CallInv'
  <2> DEFINE y == [NoCall EXCEPT !.pc = IF signedIn THEN "list" ELSE "resolve",
                                 !.wanted = wanted]
  <2>1. /\ y \in Calls /\ y.pc \in {"list", "resolve"} /\ ~ y.listed /\ y.map = Nothing
    BY NameFacts, EnvironmentsAssumption DEF NoCall, Calls, Steps
  <2>2. call' = [call EXCEPT ![c] = y]
    BY <1>1 DEF Begin
  <2>3. Knows(c)'
    BY <1>0, <2>1, <2>2 DEF Knows
  <2>. QED
    BY <1>1, <2>1, <2>2, <2>3, NameFacts, CallSteps DEF Begin
<1>2. ASSUME NEW rows \in Listings, Listed(c, rows) PROVE CallInv'
  <2> DEFINE taken == {n \in Names : config[n] # None}
             map == DiscoveredMap(rows, taken)
             listed == x.wanted \in ToSet(rows)
             y == [x EXCEPT !.pc = "write", !.listed = listed, !.map = map]
  <2>1. /\ map \in Maps /\ IdsNamed(map)
        /\ \A e \in ToSet(rows) : e \in Envs /\ Found(map, taken, e)
    BY AllDiscovered
  <2>2. call' = [call EXCEPT ![c] = y]
    BY <1>2 DEF Listed
  <2>3. \A e \in ToSet(rows) : Reach(map, e)
    BY <1>0, <2>1 DEF Found, Reach, IdsNamed, CallInv, IdsAgree
  <2>4. listed \in BOOLEAN /\ (listed => x.wanted \in ToSet(rows))
    OBVIOUS
  <2> HIDE DEF map, listed
  <2>5. /\ y \in Calls /\ y.pc = "write" /\ y.map = map /\ y.wanted = x.wanted
        /\ y.listed = listed /\ y.raced = x.raced
    BY <1>0, <2>1, <2>4 DEF Calls, Steps
  <2> HIDE DEF y
  <2>6. Knows(c)'
    <3>1. call'[c] = y /\ UNCHANGED config
      BY <1>0, <1>2, <2>2, <2>5 DEF Listed
    <3>2. listed => /\ x.wanted \in Envs
                    /\ \/ config'[x.wanted] = x.wanted
                       \/ \E n \in Names : map[n] = x.wanted /\ config'[n] = None
      BY <2>1, <2>3, <2>4, <3>1 DEF Reach
    <3>. QED
      BY <2>5, <3>1, <3>2 DEF Knows, Reach
  <2>. QED
    BY <1>2, <2>1, <2>2, <2>5, <2>6, CallSteps DEF Listed
<1>3. ASSUME ListFails(c) PROVE CallInv'
  <2>1. CASE call' = [call EXCEPT ![c] = NoCall]
    <3>1. Knows(c)'
      BY <1>0, <2>1 DEF Knows, NoCall
    <3>. QED
      BY <1>3, <2>1, <3>1, NoCallType, NameFacts, CallSteps DEF ListFails
  <2>2. CASE call' = [call EXCEPT ![c].pc = "resolve"]
    <3> DEFINE y == [x EXCEPT !.pc = "resolve"]
    <3>1. /\ y \in Calls /\ y.pc = "resolve" /\ y.map = x.map /\ y.listed = x.listed
          /\ y.raced = x.raced /\ x.pc = "list"
      BY <1>0, <1>3 DEF Calls, Steps, ListFails
    <3>2. Knows(c)'
      BY <1>0, <2>2, <3>1 DEF Knows
    <3>. QED
      BY <1>0, <1>3, <2>2, <3>1, <3>2, CallSteps DEF ListFails
  <2>. QED
    BY <1>3, <2>1, <2>2 DEF ListFails
<1>4. ASSUME WriteDiscovered(c) PROVE CallInv'
  <2> DEFINE y == [x EXCEPT !.pc = "resolve", !.map = Nothing]
  <2>1. /\ x.pc = "write" /\ discovered' = x.map
        /\ UNCHANGED <<config, secret, signedIn, cli, torn, commands>>
    BY <1>4 DEF WriteDiscovered
  <2>2. /\ Race(c) \in [Callers -> Calls] /\ Race(c)[c] = x
        /\ \A d \in Callers :
             /\ Race(c)[d] = call[d] \/ Race(c)[d] = [call[d] EXCEPT !.raced = TRUE]
             /\ Race(c)[d].raced \/ call[d].pc = "idle" \/ d = c
    BY <1>0, Raced
  <2>3. /\ call' \in [Callers -> Calls] /\ call'[c] = y
        /\ \A d \in Callers \ {c} : call'[d] = Race(c)[d]
    <3>1. call' = [Race(c) EXCEPT ![c] = y]
      BY <1>4, <2>2 DEF WriteDiscovered
    <3>2. y \in Calls
      BY <1>0, NameFacts DEF Calls, Steps
    <3>. QED
      BY <2>2, <3>1, <3>2
  <2>4. /\ y.pc = "resolve" /\ y.map = Nothing /\ y.wanted = x.wanted
        /\ y.listed = x.listed /\ y.raced = x.raced
    BY <1>0 DEF Calls
  <2>5. \A d \in Callers \ {c} :
          /\ call'[d].pc = call[d].pc /\ call'[d].ref = call[d].ref
          /\ call'[d].token = call[d].token /\ call'[d].map = call[d].map
    BY <1>0, <2>2, <2>3 DEF Calls
  <2>6. Types'
    <3>1. x.map \in Maps
      BY <1>0 DEF Calls
    <3>. QED
      BY <2>1, <2>3, <2>4, <2>5, <3>1 DEF CallInv, Types
  <2>7. IdsAgree'
    <3>1. IdsNamed(config)' /\ IdsNamed(discovered)'
      BY <1>0, <2>1 DEF CallInv, IdsAgree, IdsNamed
    <3>2. \A d \in Callers : IdsNamed(call'[d].map)
      <4>1. \A d \in Callers \ {c} : IdsNamed(call'[d].map)
        BY <2>5 DEF CallInv, IdsAgree
      <4>2. IdsNamed(call'[c].map)
        BY <2>3, <2>4, NameFacts
      <4>. QED
        BY <4>1, <4>2
    <3>. QED
      BY <2>1, <3>1, <3>2 DEF CallInv, IdsAgree
  <2>8. Knows(c)'
    BY <1>0, <2>1, <2>3, <2>4 DEF Knows, Reach
  <2>9. ASSUME NEW d \in Callers \ {c} PROVE Knows(d)'
    <3>1. CASE call'[d].raced
      BY <3>1 DEF Knows
    <3>2. CASE ~ call'[d].raced
      <4>1. call'[d] = call[d] /\ call[d].pc = "idle" /\ Knows(d)
        BY <1>0, <2>2, <2>3, <3>2 DEF CallInv, Calls
      <4>. QED
        BY <4>1 DEF Knows
    <3>. QED
      BY <3>1, <3>2
  <2>. QED
    BY <2>6, <2>7, <2>8, <2>9 DEF CallInv
<1>5. ASSUME Resolve(c) PROVE CallInv'
  <2> DEFINE ref == Lookup(x.wanted)
             y == [x EXCEPT !.ref = ref,
                            !.pc = IF ref = NoRef THEN "notFound" ELSE "authorise"]
  <2>1. call' = [call EXCEPT ![c] = y] /\ x.pc = "resolve"
    BY <1>5 DEF Resolve
  <2>2. x.wanted \in Names \cup {None}
    BY <1>0 DEF Calls
  <2>3. ref = NoRef \/ (ref \in Refs /\ ref = Ref(ref.name))
    BY <1>0, <2>2, LookedUp, RefFacts
  <2>4. ASSUME x.wanted \in Envs, Reach(discovered, x.wanted)
        PROVE  ref # NoRef /\ ref.server = x.wanted
    <3>1. x.wanted \in Names /\ x.wanted # None
      BY <1>0, <2>4
    <3>2. ref # NoRef
      <4>1. CASE config[x.wanted] = x.wanted
        BY <1>0, <3>1, <4>1, LookedUp, RefFacts DEF Given
      <4>2. CASE \E n \in Names : discovered[n] = x.wanted /\ config[n] = None
        BY <1>0, <2>2, <3>1, <4>2, LookedUp, RefFacts DEF Given
      <4>. QED
        BY <2>4, <4>1, <4>2 DEF Reach
    <3>. QED
      BY <1>0, <2>4, <3>2, IdLookedUp DEF CallInv, IdsAgree
  <2> HIDE DEF ref
  <2>5. /\ y \in Calls /\ y.ref = ref /\ y.map = x.map /\ y.wanted = x.wanted
        /\ y.listed = x.listed /\ y.raced = x.raced
        /\ y.pc = IF ref = NoRef THEN "notFound" ELSE "authorise"
    BY <1>0, <2>3 DEF Calls, Steps
  <2> HIDE DEF y
  <2>6. call'[c] = y /\ UNCHANGED <<config, discovered>>
    BY <1>0, <1>5, <2>1 DEF Resolve
  <2>7. Knows(c)'
    BY <1>0, <2>1, <2>3, <2>4, <2>5, <2>6 DEF Knows, Ref
  <2>. QED
    BY <1>0, <1>5, <2>1, <2>5, <2>7, CallSteps DEF Resolve
<1>6. ASSUME Authorise(c) PROVE CallInv'
  <2> DEFINE token == Token(x.ref)
             y == [x EXCEPT !.token = token, !.pc = IF token = None THEN "refused" ELSE "sent"]
  <2>1. call' = [call EXCEPT ![c] = y] /\ x.pc = "authorise" /\ x.ref \in Refs
    BY <1>0, <1>6 DEF Authorise
  <2>2. /\ x.ref.name \in Names /\ x.ref.server \in Envs /\ x.ref.id \in Envs \cup {None}
        /\ secret[SecretName[x.ref.name]] \in Envs \cup {None}
    BY <2>1 DEF Refs, Inv, StoresType, Secrets
  <2>3. x.ref.id # None => BoughtFor(x.ref.id) = x.ref.id
    BY <1>0, <2>2, IdLookedUp DEF CallInv, IdsAgree
  <2>4. token \in Envs \cup {None}
    BY <2>2, <2>3 DEF Token, Bearer
  <2>5. ASSUME ~ x.raced, token # None, Alone(x.ref.name), x.ref.name \notin torn,
               ~ Between(x.ref.name)
        PROVE  token = x.ref.server
    <3>1. x.ref = Ref(x.ref.name)
      BY <1>0, <2>1, <2>5 DEF Knows
    <3>2. secret[SecretName[x.ref.name]] = config[x.ref.name]
      BY <2>2, <2>5 DEF Inv, Agree
    <3>3. CASE x.ref.id # None
      BY <1>0, <2>2, <2>3, <2>5, <3>1, <3>2, <3>3, RefFacts DEF Token, Bearer
    <3>4. CASE x.ref.id = None
      BY <1>0, <2>2, <2>5, <3>1, <3>2, <3>4, RefFacts DEF Token, Bearer
    <3>. QED
      BY <3>3, <3>4
  <2> HIDE DEF token
  <2>6. /\ y \in Calls /\ y.ref = x.ref /\ y.map = x.map /\ y.wanted = x.wanted
        /\ y.listed = x.listed /\ y.raced = x.raced /\ y.token = token
        /\ y.pc = IF token = None THEN "refused" ELSE "sent"
    BY <1>0, <2>4 DEF Calls, Steps
  <2> HIDE DEF y
  <2>7. call'[c] = y /\ UNCHANGED <<config, discovered, torn, cli>>
    BY <1>0, <1>6, <2>1 DEF Authorise
  <2>8. Knows(c)'
    BY <1>0, <2>1, <2>5, <2>6, <2>7 DEF Knows, Between, Alone
  <2>9. x.ref # NoRef
    BY <1>0, <2>1 DEF CallInv, Types
  <2>. QED
    BY <1>0, <1>6, <2>1, <2>6, <2>8, <2>9, CallSteps DEF Authorise
<1>7. ASSUME Return(c) PROVE CallInv'
  <2>1. call' = [call EXCEPT ![c] = NoCall]
    BY <1>7 DEF Return
  <2>2. Knows(c)'
    BY <1>0, <2>1 DEF Knows, NoCall
  <2>. QED
    BY <1>7, <2>1, <2>2, NoCallType, NameFacts, CallSteps DEF Return
<1>. QED
  BY <1>1, <1>2, <1>3, <1>4, <1>5, <1>6, <1>7 DEF ToolCall

LEMMA CallInvariant == Spec => [](Inv /\ CallInv)
<1>1. Init => Inv /\ CallInv
  BY InitAgree, CallInvStarts
<1>2. Inv /\ CallInv /\ [Next]_vars => (Inv /\ CallInv)'
  <2> SUFFICES ASSUME Inv, CallInv, [Next]_vars PROVE CallInv'
    BY StepAgree
  <2>1. CASE Command \/ SignInOrOut
    BY <2>1, CommandKnows DEF Inv
  <2>2. ASSUME NEW c \in Callers, ToolCall(c) PROVE CallInv'
    BY <2>2, ToolCallKnows
  <2>3. CASE UNCHANGED vars
    BY <2>3 DEF vars, CallInv, Types, IdsAgree, Knows, Reach, Ref, Between
  <2>. QED
    BY <2>1, <2>2, <2>3 DEF Next
<1>. QED
  BY <1>1, <1>2, PTL DEF Spec

\* Stores, commands and calls keep to the values the code gives them: no request goes
\* out without a resolved environment and a token.
THEOREM TypeInvariant == Spec => []TypeOK
<1>1. Inv /\ CallInv => TypeOK
  BY DEF Inv, StoresType, CallInv, Types, TypeOK, Calls, Steps, Refs, Maps
<1>. QED
  BY <1>1, CallInvariant, PTL

\* A request carries the token of the server it is sent to, unless a command wrote
\* meanwhile or the name's last command was cut short.
THEOREM RequestsCarryTheirToken == Spec => []CarriesItsToken
<1>1. Inv /\ CallInv => CarriesItsToken
  BY DEF CallInv, Knows, CarriesItsToken, Between
<1>. QED
  BY <1>1, CallInvariant, PTL

\* A call that nobody raced reaches by its id every environment it listed, whatever the
\* labels, their order and the configured names.
THEOREM ListedAreReached == Spec => []ListedAreReachable
<1>1. Inv /\ CallInv => ListedAreReachable
  BY DEF CallInv, Knows, ListedAreReachable
<1>. QED
  BY <1>1, CallInvariant, PTL
=============================================================================
