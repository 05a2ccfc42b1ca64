--------------------- MODULE CredentialRotation_proofs ----------------------
(***************************************************************************)
(* OneCredentialStore for any number of processes, bindings and tokens and *)
(* all failures. What is said of the tokens is said of a single profile:   *)
(* the lock belongs to a profile, and with two of them on one binding it   *)
(* is false (Profiles = {f1, f2} in TLC).                                  *)
(*                                                                         *)
(* Control(p) ties the place of a process to the lock it holds and to what *)
(* the profile refers to; it is inductive for any number of profiles. From *)
(* it follows that a single profile has at most one holder, and that the   *)
(* tokens of the keyring, of the provider and of the holder stay in step   *)
(* (Numbered, Distinct, Accepted, Renewing), with a token behind every     *)
(* reference of the profile that no failed save has emptied (Referred).    *)
(***************************************************************************)
EXTENDS CredentialRotation, TLAPS

---------------------------------------------------------------------------
(* The lock *)

Control(p) ==
    /\ proc[p].pc # "idle" => proc[p].path \in Profiles
    /\ proc[p].pc \in Held => lock[proc[p].path] = p
    /\ proc[p].pc \in Held \cup {"acquire"} => Target(p) \in Bindings
    /\ proc[p].pc \in Held \ {"reload"} => Unmoved(p) /\ proc[p].token \in Tokens
    /\ proc[p].pc \in {"store_refresh", "store_access"} => proc[p].got \in Tokens

ControlOK == \A p \in Procs : Control(p)

Inv == TypeOK /\ ControlOK

\* A step changes the record of one process.
LEMMA BecomesOK ==
    ASSUME TypeOK, NEW p \in Procs, NEW r \in Process, Becomes(p, r)
    PROVE  /\ proc' \in [Procs -> Process]
           /\ proc'[p] = r
           /\ \A q \in Procs \ {p} : proc'[q] = proc[q]
BY DEF TypeOK, Becomes

LEMMA IdleOK == Idle \in Process /\ Idle.pc = "idle"
BY DEF Idle, Process, LoggedOut, Credential

LEMMA GotoOK ==
    ASSUME TypeOK, NEW p \in Procs,
           NEW place \in Held \cup {"idle", "acquire", "save"}
    PROVE  LET r == [proc[p] EXCEPT !.pc = place]
           IN  /\ r \in Process /\ r.pc = place /\ r.path = proc[p].path
               /\ r.want = proc[p].want /\ r.token = proc[p].token /\ r.got = proc[p].got
               /\ r.fresh = proc[p].fresh
<1>1. proc[p] \in Process
  BY DEF TypeOK
<1>2. QED BY <1>1 DEF Process

\* The others keep their place when a step takes or leaves the lock of its own process
\* only, and writes a profile that is not locked.
LEMMA OthersOK ==
    ASSUME Inv, NEW p \in Procs, NEW r \in Process, Becomes(p, r),
           \A f \in Profiles : lock'[f] = lock[f] \/ lock[f] \in {p, None},
           \A f \in Profiles : profile'[f] = profile[f] \/ lock[f] = None
    PROVE  \A q \in Procs \ {p} : Control(q)'
<1> SUFFICES ASSUME NEW q \in Procs \ {p}
             PROVE  Control(q)'
  OBVIOUS
<1>1. proc'[q] = proc[q]
  BY BecomesOK DEF Inv
<1>2. Control(q)
  BY DEF Inv, ControlOK
<1>3. ASSUME proc[q].pc \in Held
      PROVE  /\ lock'[proc[q].path] = q
             /\ profile'[proc[q].path] = profile[proc[q].path]
  <2>1. proc[q].path \in Profiles /\ lock[proc[q].path] = q
    BY <1>2, <1>3 DEF Control, Held
  <2>2. q # None /\ q # p
    BY NoneOK
  <2>3. QED BY <2>1, <2>2
<1>4. QED BY <1>1, <1>2, <1>3 DEF Control, Unmoved, Target, Held

\* A process that has nothing to do any more.
LEMMA EndOK ==
    ASSUME Inv, NEW p \in Procs, Becomes(p, Idle),
           \A f \in Profiles : lock'[f] = lock[f] \/ lock[f] \in {p, None},
           \A f \in Profiles : profile'[f] = profile[f] \/ lock[f] = None
    PROVE  ControlOK' /\ proc' \in [Procs -> Process]
<1>1. proc'[p] = Idle /\ proc' \in [Procs -> Process]
  BY BecomesOK, IdleOK DEF Inv
<1>2. Control(p)'
  BY <1>1, IdleOK DEF Control, Held
<1>3. QED BY <1>1, <1>2, OthersOK, IdleOK DEF ControlOK

\* A holder that drops its lease.
LEMMA ReleaseOK ==
    ASSUME Inv, NEW p \in Procs, Release(p), proc[p].pc \in Held, profile' = profile
    PROVE  /\ ControlOK' /\ proc' \in [Procs -> Process]
           /\ lock' \in [Profiles -> Procs \cup {None}]
           /\ proc'[p] = Idle /\ \A q \in Procs \ {p} : proc'[q] = proc[q]
<1>1. proc[p].path \in Profiles /\ lock[proc[p].path] = p
  BY DEF Inv, ControlOK, Control, Held
<1>2. lock' \in [Profiles -> Procs \cup {None}]
  BY DEF Inv, TypeOK, Release
<1>3. \A f \in Profiles : lock'[f] = lock[f] \/ lock[f] \in {p, None}
  BY <1>1 DEF Inv, TypeOK, Release
<1>4. Becomes(p, Idle)
  BY DEF Release
<1>5. QED BY <1>2, <1>3, <1>4, EndOK, BecomesOK, IdleOK DEF Inv

\* A holder that goes on, with the lock and the profile as they are.
LEMMA HoldOK ==
    ASSUME Inv, NEW p \in Procs, NEW r \in Process, Becomes(p, r),
           proc[p].pc \in Held, r.pc \in Held \ {"reload"},
           r.path = proc[p].path, r.want = proc[p].want,
           UNCHANGED <<lock, profile>>,
           Unmoved(p), r.token \in Tokens,
           r.pc \in {"store_refresh", "store_access"} => r.got \in Tokens
    PROVE  /\ ControlOK' /\ proc' \in [Procs -> Process]
           /\ proc'[p] = r /\ \A q \in Procs \ {p} : proc'[q] = proc[q]
<1>1. /\ proc' \in [Procs -> Process]
      /\ proc'[p] = r /\ \A q \in Procs \ {p} : proc'[q] = proc[q]
  BY BecomesOK DEF Inv
<1>2. Control(p)
  BY DEF Inv, ControlOK
<1>3. Control(p)'
  BY <1>1, <1>2 DEF Control, Unmoved, Target, Held
<1>4. QED BY <1>1, <1>3, OthersOK DEF ControlOK

---------------------------------------------------------------------------
(* Every step keeps Inv *)

LEMMA InitOK == Init => Inv
<1> SUFFICES ASSUME Init PROVE Inv
  OBVIOUS
<1>1. LoggedOut \in Credential
  BY DEF LoggedOut, Credential
<1>2. TypeOK
  BY <1>1, IdleOK, MaxTokensOK DEF Init, TypeOK, Tokens
<1>3. ControlOK
  BY IdleOK DEF Init, ControlOK, Control, Held
<1>4. QED BY <1>2, <1>3 DEF Inv

LEMMA FromConfigOK ==
    ASSUME Inv, NEW p \in Procs, NEW f \in Profiles, FromConfig(p, f)
    PROVE  Inv'
<1> DEFINE r == [Idle EXCEPT !.pc = "acquire", !.path = f, !.want = profile[f]]
<1>1. profile[f] \in Credential /\ profile[f].binding \in Bindings
  BY DEF Inv, TypeOK, FromConfig, Credential
<1>2. r \in Process /\ r.pc = "acquire" /\ r.path = f /\ r.want = profile[f]
  BY <1>1, IdleOK DEF Idle, Process
<1>3. Becomes(p, r) /\ UNCHANGED <<profile, keyring, provider, lock>>
  BY DEF FromConfig
<1> HIDE DEF r
<1>4. proc' \in [Procs -> Process] /\ proc'[p] = r
  BY <1>2, <1>3, BecomesOK DEF Inv
<1>5. Control(p)'
  BY <1>1, <1>2, <1>4 DEF Control, Target, Held
<1>6. ControlOK'
  BY <1>2, <1>3, <1>5, OthersOK DEF ControlOK
<1>7. TypeOK'
  BY <1>3, <1>4 DEF Inv, TypeOK, keyring, provider
<1>8. QED BY <1>6, <1>7 DEF Inv

LEMMA BeginSaveOK ==
    ASSUME Inv, NEW p \in Procs, NEW f \in Profiles, NEW to \in Credential,
           NEW free \in SUBSET Bindings, NEW fresh \in BOOLEAN,
           BeginSave(p, f, to, free, fresh)
    PROVE  /\ Inv'
           /\ proc'[p].pc = "save" /\ proc'[p].want = to /\ proc'[p].fresh = fresh
           /\ \A q \in Procs \ {p} : proc'[q] = proc[q]
<1> DEFINE r == [Idle EXCEPT !.pc = "save", !.path = f, !.want = to, !.free = free,
                             !.fresh = fresh]
<1>1. r \in Process /\ r.pc = "save" /\ r.path = f /\ r.want = to /\ r.fresh = fresh
  BY IdleOK DEF Idle, Process
<1>2. Becomes(p, r) /\ UNCHANGED <<profile, keyring, provider, lock>>
  BY DEF BeginSave
<1> HIDE DEF r
<1>3. /\ proc' \in [Procs -> Process] /\ proc'[p] = r
      /\ \A q \in Procs \ {p} : proc'[q] = proc[q]
  BY <1>1, <1>2, BecomesOK DEF Inv
<1>4. Control(p)'
  BY <1>1, <1>3 DEF Control, Held
<1>5. ControlOK'
  BY <1>1, <1>2, <1>4, OthersOK DEF ControlOK
<1>6. TypeOK'
  BY <1>2, <1>3 DEF Inv, TypeOK, keyring, provider
<1>7. QED BY <1>1, <1>3, <1>5, <1>6 DEF Inv

\* A command that saves: what it will write is canonical only with new tokens.
LEMMA CommandSavesOK ==
    ASSUME Inv, NEW p \in Procs, NEW f \in Profiles,
           Login(p, f) \/ Logout(p, f) \/ SwitchWorkspace(p, f)
    PROVE  /\ Inv'
           /\ UNCHANGED <<profile, keyring, provider, lock>>
           /\ proc'[p].pc = "save" /\ (proc'[p].want.canonical => proc'[p].fresh)
           /\ proc'[p].fresh => proc'[p].want.binding \in Bindings
           /\ \A q \in Procs \ {p} : proc'[q] = proc[q]
<1>1. Unreferenced(f) \in SUBSET Bindings
  BY DEF Unreferenced
<1>2. CASE Login(p, f)
  <2>1. PICK b \in Bindings, a \in BOOLEAN :
            BeginSave(p, f, [binding |-> b, canonical |-> TRUE, access |-> a],
                      Unreferenced(f), TRUE)
    BY <1>2 DEF Login
  <2> DEFINE to == [binding |-> b, canonical |-> TRUE, access |-> a]
  <2>2. to \in Credential /\ to.binding = b
    BY DEF Credential
  <2>3. BeginSave(p, f, to, Unreferenced(f), TRUE)
    BY <2>1
  <2> HIDE DEF to
  <2>4. /\ Inv' /\ proc'[p].pc = "save" /\ proc'[p].want = to /\ proc'[p].fresh = TRUE
        /\ \A q \in Procs \ {p} : proc'[q] = proc[q]
    BY <1>1, <2>2, <2>3, BeginSaveOK
  <2>5. UNCHANGED <<profile, keyring, provider, lock>>
    BY <2>3 DEF BeginSave
  <2>6. QED BY <2>2, <2>4, <2>5
<1>3. CASE Logout(p, f)
  <2>1. LoggedOut \in Credential /\ ~LoggedOut.canonical
    BY DEF LoggedOut, Credential
  <2>2. BeginSave(p, f, LoggedOut, Unreferenced(f), FALSE)
    BY <1>3 DEF Logout
  <2>3. /\ Inv' /\ proc'[p].pc = "save" /\ proc'[p].want = LoggedOut /\ proc'[p].fresh = FALSE
        /\ \A q \in Procs \ {p} : proc'[q] = proc[q]
    BY <1>1, <2>1, <2>2, BeginSaveOK
  <2>4. UNCHANGED <<profile, keyring, provider, lock>>
    BY <2>2 DEF BeginSave
  <2>5. QED BY <2>1, <2>3, <2>4
<1>4. CASE SwitchWorkspace(p, f)
  <2> DEFINE to == [profile[f] EXCEPT !.canonical = FALSE]
  <2>1. to \in Credential /\ ~to.canonical
    BY DEF Inv, TypeOK, Credential
  <2>2. BeginSave(p, f, to, {}, FALSE)
    BY <1>4 DEF SwitchWorkspace
  <2> HIDE DEF to
  <2>3. QED BY <2>1, <2>2, BeginSaveOK DEF BeginSave
<1>5. QED BY <1>2, <1>3, <1>4

LEMMA AcquireRefreshOK ==
    ASSUME Inv, NEW p \in Procs, AcquireRefresh(p)
    PROVE  /\ Inv'
           /\ proc'[p].pc = "reload"
           /\ \A q \in Procs \ {p} : proc'[q] = proc[q]
<1> DEFINE r == [proc[p] EXCEPT !.pc = "reload"]
<1>1. /\ r \in Process /\ r.pc = "reload" /\ r.path = proc[p].path
      /\ r.want = proc[p].want
  BY GotoOK DEF Inv, Held
<1>2. Becomes(p, r)
  BY DEF AcquireRefresh, Goto
<1> HIDE DEF r
<1>3. /\ proc' \in [Procs -> Process] /\ proc'[p] = r
      /\ \A q \in Procs \ {p} : proc'[q] = proc[q]
  BY <1>1, <1>2, BecomesOK DEF Inv
<1>4. proc[p].path \in Profiles /\ Target(p) \in Bindings
  BY DEF AcquireRefresh, Inv, ControlOK, Control, At
<1>5. /\ lock' \in [Profiles -> Procs \cup {None}] /\ lock'[proc[p].path] = p
      /\ \A f \in Profiles : lock'[f] = lock[f] \/ lock[f] \in {p, None}
  BY <1>4 DEF AcquireRefresh, Inv, TypeOK
<1>6. Control(p)'
  BY <1>1, <1>3, <1>4, <1>5 DEF Control, Target, Held
<1>7. profile' = profile
  BY DEF AcquireRefresh
<1>8. ControlOK'
  BY <1>1, <1>2, <1>5, <1>6, <1>7, OthersOK DEF ControlOK
<1>9. TypeOK'
  BY <1>3, <1>5 DEF AcquireRefresh, Inv, TypeOK, keyring, provider
<1>10. QED BY <1>1, <1>3, <1>8, <1>9 DEF Inv

LEMMA ReloadOK ==
    ASSUME Inv, NEW p \in Procs, Reload(p)
    PROVE  /\ Inv'
           /\ proc'[p].pc = "compare" /\ \A q \in Procs \ {p} : proc'[q] = proc[q]
<1> DEFINE r == [proc[p] EXCEPT !.pc = "compare", !.token = refreshOf[Target(p)]]
<1>1. Target(p) \in Bindings
  BY DEF Reload, Inv, ControlOK, Control, At, Held
<1>2. refreshOf[Target(p)] \in Tokens
  BY <1>1 DEF Reload, Inv, TypeOK
<1>3. proc[p] \in Process
  BY DEF Inv, TypeOK
<1>4. /\ r \in Process /\ r.pc = "compare" /\ r.path = proc[p].path
      /\ r.want = proc[p].want /\ r.token = refreshOf[Target(p)]
  BY <1>2, <1>3 DEF Process, Held
<1>5. /\ Becomes(p, r) /\ UNCHANGED <<profile, keyring, provider, lock>>
      /\ proc[p].pc \in Held /\ Unmoved(p)
  BY DEF Reload, At, Held
<1> HIDE DEF r
<1>6. /\ ControlOK' /\ proc' \in [Procs -> Process] /\ proc'[p] = r
      /\ \A q \in Procs \ {p} : proc'[q] = proc[q]
  BY <1>2, <1>4, <1>5, HoldOK DEF Held
<1>7. TypeOK'
  BY <1>5, <1>6 DEF Inv, TypeOK, keyring, provider
<1>8. QED BY <1>4, <1>6, <1>7 DEF Inv

LEMMA ReloadRefusedOK == ASSUME Inv, NEW p \in Procs, ReloadRefused(p) PROVE Inv'
<1>1. /\ Release(p) /\ UNCHANGED <<profile, keyring, provider>>
      /\ proc[p].pc \in Held
  BY DEF ReloadRefused, At, Held
<1>2. ControlOK' /\ proc' \in [Procs -> Process] /\ lock' \in [Profiles -> Procs \cup {None}]
  BY <1>1, ReleaseOK
<1>3. TypeOK'
  BY <1>1, <1>2 DEF Inv, TypeOK, keyring, provider
<1>4. QED BY <1>2, <1>3 DEF Inv

\* What Control says of a holder that has reloaded the profile.
LEMMA HolderFacts ==
    ASSUME Inv, NEW p \in Procs, proc[p].pc \in Held \ {"reload"}
    PROVE  /\ Target(p) \in Bindings /\ proc[p].path \in Profiles
           /\ lock[proc[p].path] = p /\ Unmoved(p)
           /\ proc[p].token \in Tokens /\ proc[p] \in Process
           /\ proc[p].pc \in {"store_refresh", "store_access"} => proc[p].got \in Tokens
BY DEF Inv, TypeOK, ControlOK, Control, Held

LEMMA CompareOK ==
    ASSUME Inv, NEW p \in Procs, Compare(p)
    PROVE  /\ Inv'
           /\ proc'[p] = [proc[p] EXCEPT !.pc = "exchange"] \/ proc'[p] = Idle
           /\ \A q \in Procs \ {p} : proc'[q] = proc[q]
<1>1. At(p, "compare") /\ UNCHANGED <<profile, keyring, provider>>
  BY DEF Compare
<1>2. CASE refreshOf[Target(p)] = proc[p].token
  <2> DEFINE r == [proc[p] EXCEPT !.pc = "exchange"]
  <2>1. /\ r \in Process /\ r.pc = "exchange" /\ r.path = proc[p].path
        /\ r.want = proc[p].want /\ r.token = proc[p].token
    BY GotoOK DEF Inv, Held
  <2>2. Becomes(p, r) /\ UNCHANGED lock
    BY <1>2 DEF Compare, Goto
  <2>3. r = [proc[p] EXCEPT !.pc = "exchange"]
    OBVIOUS
  <2> HIDE DEF r
  <2>4. /\ ControlOK' /\ proc' \in [Procs -> Process] /\ proc'[p] = r
        /\ \A q \in Procs \ {p} : proc'[q] = proc[q]
    BY <1>1, <2>1, <2>2, HoldOK, HolderFacts DEF Held, At
  <2>5. TypeOK'
    BY <1>1, <2>2, <2>4 DEF Inv, TypeOK, keyring, provider
  <2>6. QED BY <2>3, <2>4, <2>5 DEF Inv
<1>3. CASE refreshOf[Target(p)] # proc[p].token
  <2>1. Release(p) /\ proc[p].pc \in Held
    BY <1>1, <1>3 DEF Compare, At, Held
  <2>2. /\ ControlOK' /\ proc' \in [Procs -> Process]
        /\ lock' \in [Profiles -> Procs \cup {None}]
        /\ proc'[p] = Idle /\ \A q \in Procs \ {p} : proc'[q] = proc[q]
    BY <1>1, <2>1, ReleaseOK
  <2>3. TypeOK'
    BY <1>1, <2>2 DEF Inv, TypeOK, keyring, provider
  <2>4. QED BY <2>2, <2>3 DEF Inv
<1>4. QED BY <1>2, <1>3

\* The provider's side of an exchange keeps its types.
LEMMA IssueOK ==
    ASSUME Inv, NEW old, Issue(old)
    PROVE  /\ issued + 1 \in Tokens /\ issued \in Nat
           /\ live' \subseteq Tokens /\ issued' \in 0..MaxTokens
<1>1. issued \in 0..MaxTokens /\ issued < MaxTokens /\ issued' = issued + 1
  BY DEF Inv, TypeOK, Issue
<1>2. issued + 1 \in Tokens /\ issued \in Nat /\ issued' \in 0..MaxTokens
  BY <1>1, MaxTokensOK DEF Tokens
<1>3. live \subseteq Tokens /\ live' = (live \ old) \cup {issued + 1}
  BY DEF Inv, TypeOK, Issue
<1>4. QED BY <1>2, <1>3

LEMMA ExchangeOK ==
    ASSUME Inv, NEW p \in Procs, NEW now \in Tokens, At(p, "exchange"),
           Replaced(proc[p].token, now), Becomes(p, Answered(p, now)),
           UNCHANGED <<profile, keyring, lost, refused, lock>>
    PROVE  /\ Inv'
           /\ proc'[p].pc = IF now # proc[p].token THEN "store_refresh" ELSE "store_access"
           /\ proc'[p].token = proc[p].token /\ proc'[p].got = now
           /\ proc'[p].want = proc[p].want
           /\ \A q \in Procs \ {p} : proc'[q] = proc[q]
<1> DEFINE r == Answered(p, now)
<1>1. /\ proc[p] \in Process /\ Unmoved(p) /\ proc[p].token \in Tokens
      /\ proc[p].pc \in Held
  BY HolderFacts DEF At, Held
<1>2. /\ r \in Process
      /\ r.pc = IF now # proc[p].token THEN "store_refresh" ELSE "store_access"
      /\ r.path = proc[p].path /\ r.want = proc[p].want
      /\ r.token = proc[p].token /\ r.got = now
  BY <1>1 DEF Answered, Process, Held
<1> HIDE DEF r
<1>3. /\ ControlOK' /\ proc' \in [Procs -> Process] /\ proc'[p] = r
      /\ \A q \in Procs \ {p} : proc'[q] = proc[q]
  BY <1>1, <1>2, HoldOK DEF Held, r
<1>4. live' \subseteq Tokens /\ issued' \in 0..MaxTokens
  BY IssueOK DEF Replaced, Inv, TypeOK
<1>5. TypeOK'
  BY <1>3, <1>4 DEF Inv, TypeOK, keyring
<1>6. QED BY <1>2, <1>3, <1>5 DEF Inv

LEMMA ExchangeLostOK == ASSUME Inv, NEW p \in Procs, ExchangeLost(p) PROVE Inv'
<1>1. Release(p) /\ proc[p].pc \in Held \ {"reload"} /\ UNCHANGED <<profile, keyring, refused>>
  BY DEF ExchangeLost, At, Held
<1>2. ControlOK' /\ proc' \in [Procs -> Process] /\ lock' \in [Profiles -> Procs \cup {None}]
  BY <1>1, ReleaseOK
<1>3. live' \subseteq Tokens /\ issued' \in 0..MaxTokens
  BY IssueOK DEF ExchangeLost
<1>4. lost' \subseteq Tokens
  BY <1>1, HolderFacts DEF ExchangeLost, Inv, TypeOK
<1>5. TypeOK'
  BY <1>1, <1>2, <1>3, <1>4 DEF Inv, TypeOK, keyring
<1>6. QED BY <1>2, <1>5 DEF Inv

LEMMA ExchangeFailedOK == ASSUME Inv, NEW p \in Procs, ExchangeFailed(p) PROVE Inv'
<1>1. /\ Release(p) /\ proc[p].pc \in Held \ {"reload"}
      /\ UNCHANGED <<profile, keyring, live, issued, lost>>
  BY DEF ExchangeFailed, At, Held
<1>2. ControlOK' /\ proc' \in [Procs -> Process] /\ lock' \in [Profiles -> Procs \cup {None}]
  BY <1>1, ReleaseOK
<1>3. refused' \subseteq Tokens
  BY <1>1, HolderFacts DEF ExchangeFailed, Inv, TypeOK
<1>4. TypeOK'
  BY <1>1, <1>2, <1>3 DEF Inv, TypeOK, keyring
<1>5. QED BY <1>2, <1>4 DEF Inv

LEMMA CommitReplacementOK ==
    ASSUME Inv, NEW p \in Procs, CommitReplacement(p)
    PROVE  /\ Inv'
           /\ proc'[p].pc = "store_access" /\ proc'[p].want = proc[p].want
           /\ proc'[p].token = proc[p].token /\ proc'[p].got = proc[p].got
           /\ \A q \in Procs \ {p} : proc'[q] = proc[q]
<1> DEFINE r == [proc[p] EXCEPT !.pc = "store_access"]
<1>1. /\ r \in Process /\ r.pc = "store_access" /\ r.path = proc[p].path
      /\ r.want = proc[p].want /\ r.token = proc[p].token /\ r.got = proc[p].got
  BY GotoOK DEF Inv, Held
<1>2. /\ Becomes(p, r) /\ proc[p].pc \in Held \ {"reload"}
      /\ proc[p].pc = "store_refresh"
      /\ UNCHANGED <<profile, accessOf, emptied, provider, lock>>
  BY DEF CommitReplacement, Goto, At, Held
<1> HIDE DEF r
<1>3. /\ ControlOK' /\ proc' \in [Procs -> Process] /\ proc'[p] = r
      /\ \A q \in Procs \ {p} : proc'[q] = proc[q]
  BY <1>1, <1>2, HoldOK, HolderFacts DEF Held
<1>4. proc[p].got \in Tokens
  BY <1>2, HolderFacts
<1>5. refreshOf' \in [Bindings -> Tokens \cup {0}]
  BY <1>4 DEF CommitReplacement, Inv, TypeOK
<1>6. TypeOK'
  BY <1>2, <1>3, <1>5 DEF Inv, TypeOK, provider
<1>7. QED BY <1>1, <1>3, <1>6 DEF Inv

LEMMA ReplacementFailedOK == ASSUME Inv, NEW p \in Procs, ReplacementFailed(p) PROVE Inv'
<1>1. /\ Release(p) /\ proc[p].pc \in Held \ {"reload"}
      /\ UNCHANGED <<profile, keyring, live, issued, refused>>
  BY DEF ReplacementFailed, At, Held
<1>2. ControlOK' /\ proc' \in [Procs -> Process] /\ lock' \in [Profiles -> Procs \cup {None}]
  BY <1>1, ReleaseOK
<1>3. lost' \subseteq Tokens
  BY <1>1, HolderFacts DEF ReplacementFailed, Inv, TypeOK
<1>4. TypeOK'
  BY <1>1, <1>2, <1>3 DEF Inv, TypeOK, keyring
<1>5. QED BY <1>2, <1>4 DEF Inv

LEMMA CommitAccessOK == ASSUME Inv, NEW p \in Procs, CommitAccess(p) PROVE Inv'
<1>1. /\ Release(p) /\ proc[p].pc \in Held \ {"reload"} /\ proc[p].pc = "store_access"
      /\ UNCHANGED <<profile, refreshOf, emptied, provider>>
  BY DEF CommitAccess, At, Held
<1>2. ControlOK' /\ proc' \in [Procs -> Process] /\ lock' \in [Profiles -> Procs \cup {None}]
  BY <1>1, ReleaseOK
<1>3. proc[p].got \in Tokens
  BY <1>1, HolderFacts
<1>4. accessOf' \in [Bindings -> Tokens \cup {0}]
  BY <1>3 DEF CommitAccess, Inv, TypeOK
<1>5. TypeOK'
  BY <1>1, <1>2, <1>4 DEF Inv, TypeOK, provider
<1>6. QED BY <1>2, <1>5 DEF Inv

LEMMA AccessFailedOK == ASSUME Inv, NEW p \in Procs, AccessFailed(p) PROVE Inv'
<1>1. Release(p) /\ proc[p].pc \in Held /\ UNCHANGED <<profile, keyring, provider>>
  BY DEF AccessFailed, At, Held
<1>2. ControlOK' /\ proc' \in [Procs -> Process] /\ lock' \in [Profiles -> Procs \cup {None}]
  BY <1>1, ReleaseOK
<1>3. TypeOK'
  BY <1>1, <1>2 DEF Inv, TypeOK, keyring, provider
<1>4. QED BY <1>2, <1>3 DEF Inv

LEMMA SaveProfileOK ==
    ASSUME Inv, NEW p \in Procs, SaveProfile(p)
    PROVE  /\ Inv'
           /\ proc'[p] = Idle /\ \A q \in Procs \ {p} : proc'[q] = proc[q]
<1>1. /\ proc[p] \in Process /\ proc[p].path \in Profiles /\ lock[proc[p].path] = None
      /\ Becomes(p, Idle) /\ UNCHANGED <<lost, refused, lock>>
  BY DEF SaveProfile, Inv, TypeOK, ControlOK, Control, At
<1>2. proc[p].want \in Credential /\ proc[p].fresh \in BOOLEAN
  BY <1>1 DEF Process
<1>3. /\ profile' \in [Profiles -> Credential]
      /\ \A f \in Profiles : profile'[f] = profile[f] \/ lock[f] = None
  BY <1>1, <1>2 DEF SaveProfile, Inv, TypeOK
<1>4. /\ ControlOK' /\ proc' \in [Procs -> Process]
      /\ proc'[p] = Idle /\ \A q \in Procs \ {p} : proc'[q] = proc[q]
  BY <1>1, <1>3, EndOK, IdleOK, BecomesOK DEF Inv
<1>5. /\ live' \subseteq Tokens /\ issued' \in 0..MaxTokens
      /\ proc[p].fresh => issued + 1 \in Tokens
  BY <1>2, IssueOK DEF SaveProfile, Inv, TypeOK
<1>6. refreshOf' \in [Bindings -> Tokens \cup {0}]
  BY <1>5 DEF SaveProfile, Stored, Inv, TypeOK
<1>7. accessOf' \in [Bindings -> Tokens \cup {0}]
  BY <1>5 DEF SaveProfile, Stored, Inv, TypeOK
<1>8. emptied' \subseteq Bindings
  BY DEF SaveProfile, Inv, TypeOK
<1>9. TypeOK'
  BY <1>1, <1>3, <1>4, <1>5, <1>6, <1>7, <1>8 DEF Inv, TypeOK
<1>10. QED BY <1>4, <1>9 DEF Inv

\* A save that fails past its stores: nobody held the lock, so the profile may change.
LEMMA SaveUndoneOK ==
    ASSUME Inv, NEW p \in Procs, SaveUndone(p)
    PROVE  /\ Inv'
           /\ proc'[p] = Idle /\ \A q \in Procs \ {p} : proc'[q] = proc[q]
<1>1. /\ proc[p] \in Process /\ proc[p].path \in Profiles /\ lock[proc[p].path] = None
      /\ Becomes(p, Idle) /\ UNCHANGED <<lost, refused, lock>>
  BY DEF SaveUndone, Inv, TypeOK, ControlOK, Control, At
<1>2. proc[p].want \in Credential /\ proc[p].free \in SUBSET Bindings /\ proc[p].fresh \in BOOLEAN
  BY <1>1 DEF Process
<1>3. /\ profile' \in [Profiles -> Credential]
      /\ \A f \in Profiles : profile'[f] = profile[f] \/ lock[f] = None
  BY <1>1, <1>2 DEF SaveUndone, Inv, TypeOK
<1>4. /\ ControlOK' /\ proc' \in [Procs -> Process]
      /\ proc'[p] = Idle /\ \A q \in Procs \ {p} : proc'[q] = proc[q]
  BY <1>1, <1>3, EndOK, IdleOK, BecomesOK DEF Inv
<1>5. live' \subseteq Tokens /\ issued' \in 0..MaxTokens
  BY <1>2, IssueOK DEF SaveUndone, Inv, TypeOK
<1>6. /\ refreshOf' \in [Bindings -> Tokens \cup {0}]
      /\ accessOf' \in [Bindings -> Tokens \cup {0}]
  BY DEF SaveUndone, Undone, Inv, TypeOK
<1>7. emptied' \subseteq Bindings
  BY <1>2 DEF SaveUndone, Inv, TypeOK
<1>8. TypeOK'
  BY <1>1, <1>3, <1>4, <1>5, <1>6, <1>7 DEF Inv, TypeOK
<1>9. QED BY <1>4, <1>8 DEF Inv

LEMMA GiveUpOK == ASSUME Inv, NEW p \in Procs, GiveUp(p) PROVE Inv'
<1>1. Becomes(p, Idle) /\ UNCHANGED <<profile, keyring, provider, lock>>
  BY DEF GiveUp
<1>2. ControlOK' /\ proc' \in [Procs -> Process]
  BY <1>1, EndOK
<1>3. TypeOK'
  BY <1>1, <1>2 DEF Inv, TypeOK, keyring, provider
<1>4. QED BY <1>2, <1>3 DEF Inv

LEMMA CrashOK == ASSUME Inv, NEW p \in Procs, Crash(p) PROVE Inv'
<1>1. Becomes(p, Idle) /\ UNCHANGED <<profile, keyring, live, issued, refused>>
  BY DEF Crash
<1>2. /\ lock' \in [Profiles -> Procs \cup {None}]
      /\ \A f \in Profiles : lock'[f] = lock[f] \/ lock[f] \in {p, None}
  BY DEF Crash, Inv, TypeOK
<1>3. ControlOK' /\ proc' \in [Procs -> Process]
  BY <1>1, <1>2, EndOK
<1>4. lost' \subseteq Tokens
  BY HolderFacts DEF Crash, Inv, TypeOK, At, Held
<1>5. TypeOK'
  BY <1>1, <1>2, <1>3, <1>4 DEF Inv, TypeOK, keyring
<1>6. QED BY <1>3, <1>5 DEF Inv

LEMMA StepOK == Inv /\ [Next]_vars => Inv'
<1> SUFFICES ASSUME Inv, [Next]_vars
             PROVE  Inv'
  OBVIOUS
<1>1. CASE UNCHANGED vars
  BY <1>1 DEF vars, keyring, provider, Inv, TypeOK, ControlOK, Control, Unmoved, Target
<1>2. CASE Next
  <2>1. PICK p \in Procs : \/ Command(p) \/ AcquireRefresh(p) \/ HolderStep(p)
                           \/ SaveProfile(p) \/ SaveUndone(p) \/ GiveUp(p) \/ Crash(p)
    BY <1>2 DEF Next
  <2>2. CASE Command(p)
    BY <2>2, FromConfigOK, CommandSavesOK DEF Command
  <2>3. CASE HolderStep(p)
    <3>1. CASE Exchange(p)
      BY <3>1, ExchangeOK DEF Exchange
    <3>2. CASE ~Exchange(p)
      BY <2>3, <3>2, ReloadOK, ReloadRefusedOK, CompareOK, ExchangeLostOK, ExchangeFailedOK,
         CommitReplacementOK, ReplacementFailedOK, CommitAccessOK, AccessFailedOK
         DEF HolderStep
    <3>3. QED BY <3>1, <3>2
  <2>4. QED BY <2>1, <2>2, <2>3, AcquireRefreshOK, SaveProfileOK, SaveUndoneOK, GiveUpOK,
     CrashOK
<1>3. QED BY <1>1, <1>2

\* The types of OneCredentialStore, of the keyring and of the provider.
THEOREM TypeCorrect == Spec => []TypeOK
<1>1. Inv => TypeOK
  BY DEF Inv
<1>2. QED BY InitOK, StepOK, <1>1, PTL DEF Spec

\* However many profiles share the bindings, and whoever logs in, logs out or switches
\* workspace meanwhile: the tokens received from an exchange go to the accounts the
\* profile refers to at that moment.
THEOREM StoresOnTarget == Spec => []StoredOnTarget
<1>1. Inv => StoredOnTarget
  BY DEF Inv, ControlOK, Control, StoredOnTarget, Unmoved, Held
<1>2. QED BY InitOK, StepOK, <1>1, PTL DEF Spec

---------------------------------------------------------------------------
(* The tokens of a single profile *)

OneProfile == \E f : Profiles = {f}

\* The access token is not newer than the refresh token, nor this one than the provider's.
Numbered == \A b \in Bindings : accessOf[b] <= refreshOf[b] /\ refreshOf[b] <= issued

\* No two accounts hold one token.
Distinct == \A b, c \in Bindings : refreshOf[b] = refreshOf[c] => refreshOf[b] = 0 \/ b = c

\* A stored token is accepted, or lost, or being replaced.
Accepted ==
    \A b \in Bindings :
        \/ refreshOf[b] \in {0} \cup live \cup lost
        \/ \E p \in Procs : At(p, "store_refresh") /\ Target(p) = b

\* What a holder has in its hands is what the keyring holds, or what must replace it.
Renews(p) ==
    /\ proc[p].pc \in {"exchange", "store_refresh"} => refreshOf[Target(p)] = proc[p].token
    /\ At(p, "store_refresh") =>
          /\ proc[p].got \in live /\ proc[p].token < proc[p].got /\ proc[p].got <= issued
          /\ \A b \in Bindings : refreshOf[b] # proc[p].got
    /\ At(p, "store_access") => refreshOf[Target(p)] = proc[p].got
Renewing == \A p \in Procs : Renews(p)

\* What the profile refers to is there unless a failed save has emptied it, and what a
\* command makes it refer to will be.
Referred ==
    /\ \A f \in Profiles : profile[f].binding # None /\ profile[f].canonical
                              => \/ refreshOf[profile[f].binding] # 0
                                 \/ profile[f].binding \in emptied
    /\ \A p \in Procs : At(p, "save") /\ proc[p].want.canonical => proc[p].fresh

TokensOK == Numbered /\ Distinct /\ Accepted /\ Renewing /\ Referred /\ RefusedOnlyIfLost

RInv == Inv /\ TokensOK

LEMMA RInitOK == Init => RInv
<1> SUFFICES ASSUME Init PROVE RInv
  OBVIOUS
<1>1. Numbered /\ Distinct /\ Accepted
  BY DEF Init, Numbered, Distinct, Accepted
<1>2. Renewing /\ Referred
  BY IdleOK DEF Init, Renewing, Renews, Referred, At, LoggedOut
<1>3. RefusedOnlyIfLost
  BY DEF Init, RefusedOnlyIfLost
<1>4. QED BY <1>1, <1>2, <1>3, InitOK DEF RInv, TokensOK

\* A single profile has at most one holder.
LEMMA OneHolder ==
    ASSUME OneProfile, Inv, NEW p \in Procs, proc[p].pc \in Held
    PROVE  \A q \in Procs \ {p} : proc[q].pc \notin Held
BY DEF OneProfile, Inv, ControlOK, Control, Held

\* A step that leaves the tokens alone.
LEMMA QuietOK ==
    ASSUME RInv, NEW p \in Procs,
           \A q \in Procs \ {p} : proc'[q] = proc[q],
           proc[p].pc # "store_refresh",
           proc'[p].pc \notin {"exchange", "store_refresh", "store_access"},
           proc'[p].pc = "save" /\ proc'[p].want.canonical => proc'[p].fresh,
           UNCHANGED <<profile, keyring, provider>>
    PROVE  TokensOK'
<1>1. Numbered' /\ Distinct' /\ RefusedOnlyIfLost'
  BY DEF RInv, TokensOK, Numbered, Distinct, RefusedOnlyIfLost, keyring, provider
<1>2. Accepted'
  <2> SUFFICES ASSUME NEW b \in Bindings, refreshOf[b] \notin {0} \cup live \cup lost
               PROVE  \E q \in Procs : At(q, "store_refresh")' /\ Target(q)' = b
    BY DEF Accepted, keyring, provider
  <2>1. PICK q \in Procs : At(q, "store_refresh") /\ Target(q) = b
    BY DEF RInv, TokensOK, Accepted
  <2>2. q # p
    BY <2>1 DEF At
  <2>3. QED BY <2>1, <2>2 DEF At, Target
<1>3. Renewing'
  <2> SUFFICES ASSUME NEW q \in Procs PROVE Renews(q)'
    BY DEF Renewing
  <2>1. CASE q = p
    BY <2>1 DEF Renews, At
  <2>2. CASE q # p
    BY <2>2 DEF RInv, TokensOK, Renewing, Renews, At, Target, keyring, provider
  <2>3. QED BY <2>1, <2>2
<1>4. Referred'
  BY DEF RInv, TokensOK, Referred, At, keyring
<1>5. QED BY <1>1, <1>2, <1>3, <1>4 DEF TokensOK

\* What the invariant says of the tokens of the holder.
LEMMA HolderTokens ==
    ASSUME RInv, OneProfile, NEW p \in Procs, proc[p].pc \in Held \ {"reload"}
    PROVE  /\ \A b \in Bindings : refreshOf[b] \in Nat /\ accessOf[b] \in Nat
           /\ issued \in Nat
           /\ Target(p) \in Bindings /\ proc[p].token \in Nat \ {0}
           /\ \A b \in Bindings : \/ refreshOf[b] \in {0} \cup live \cup lost
                                  \/ At(p, "store_refresh") /\ Target(p) = b
<1>1. \A b \in Bindings : refreshOf[b] \in Nat /\ accessOf[b] \in Nat
  BY MaxTokensOK DEF RInv, Inv, TypeOK, Tokens
<1>2. issued \in Nat
  BY MaxTokensOK DEF RInv, Inv, TypeOK
<1>3. Target(p) \in Bindings /\ proc[p].token \in Nat \ {0}
  BY HolderFacts, MaxTokensOK DEF RInv, Tokens
<1>4. ASSUME NEW b \in Bindings
      PROVE  \/ refreshOf[b] \in {0} \cup live \cup lost
             \/ At(p, "store_refresh") /\ Target(p) = b
  BY OneHolder DEF RInv, TokensOK, Accepted, At, Held
<1>5. QED BY <1>1, <1>2, <1>3, <1>4

\* While a process holds the only lock, nobody else has tokens in hand.
LEMMA OthersRenew ==
    ASSUME RInv, OneProfile, NEW p \in Procs, proc[p].pc \in Held,
           \A q \in Procs \ {p} : proc'[q] = proc[q],
           Renews(p)', proc'[p].pc # "save"
    PROVE  /\ Renewing'
           /\ \A q \in Procs : At(q, "save")' /\ proc'[q].want.canonical => proc'[q].fresh
<1>1. \A q \in Procs \ {p} : proc'[q].pc \notin Held
  BY OneHolder DEF RInv
<1>2. \A q \in Procs \ {p} : Renews(q)'
  BY <1>1 DEF Renews, At, Held
<1>3. QED BY <1>2 DEF Renewing, RInv, TokensOK, Referred, At

LEMMA CompareTokens ==
    ASSUME RInv, OneProfile, NEW p \in Procs, Compare(p)
    PROVE  TokensOK'
<1>1. /\ proc'[p] = [proc[p] EXCEPT !.pc = "exchange"] \/ proc'[p] = Idle
      /\ \A q \in Procs \ {p} : proc'[q] = proc[q]
      /\ At(p, "compare") /\ UNCHANGED <<profile, keyring, provider>>
  BY CompareOK DEF RInv, Compare
<1>2. CASE proc'[p] = Idle
  BY <1>1, <1>2, IdleOK, QuietOK DEF At
<1>3. CASE proc'[p] # Idle
  <2>1. Goto(p, "exchange") /\ refreshOf[Target(p)] = proc[p].token
    <3>1. Idle \in Process
      BY IdleOK
    <3>2. ~Release(p)
      BY <1>3, <3>1, BecomesOK DEF Release, RInv, Inv
    <3>3. QED BY <3>2 DEF Compare
  <2>2. /\ proc'[p].pc = "exchange" /\ proc'[p].want = proc[p].want
        /\ proc'[p].token = proc[p].token
    <3>1. proc'[p] = [proc[p] EXCEPT !.pc = "exchange"] /\ proc[p] \in Process
      BY <1>1, <1>3 DEF RInv, Inv, TypeOK
    <3>2. QED BY <3>1 DEF Process
  <2>3. Renews(p)'
    BY <1>1, <2>1, <2>2 DEF Renews, At, Target, keyring
  <2>4. Renewing' /\ \A q \in Procs : At(q, "save")' /\ proc'[q].want.canonical => proc'[q].fresh
    BY <1>1, <2>2, <2>3, OthersRenew DEF At, Held
  <2>5. Numbered' /\ Distinct' /\ RefusedOnlyIfLost'
    BY <1>1 DEF RInv, TokensOK, Numbered, Distinct, RefusedOnlyIfLost, keyring, provider
  <2>6. Accepted'
    BY <1>1, HolderTokens DEF Accepted, At, Held, keyring, provider
  <2>7. Referred'
    BY <1>1, <2>4 DEF RInv, TokensOK, Referred, keyring
  <2>8. QED BY <2>4, <2>5, <2>6, <2>7 DEF TokensOK
<1>4. QED BY <1>2, <1>3

\* The answer: the token spent is being replaced, and the new one is nowhere yet.
LEMMA ExchangeTokens ==
    ASSUME RInv, OneProfile, NEW p \in Procs, Exchange(p)
    PROVE  TokensOK'
<1>1. PICK now \in Tokens : Replaced(proc[p].token, now) /\ Becomes(p, Answered(p, now))
  BY DEF Exchange
<1>2. /\ At(p, "exchange") /\ proc[p].token \in live
      /\ UNCHANGED <<profile, keyring, lost, refused, lock>>
  BY DEF Exchange
<1>3. /\ proc'[p].pc = IF now # proc[p].token THEN "store_refresh" ELSE "store_access"
      /\ proc'[p].token = proc[p].token /\ proc'[p].got = now
      /\ proc'[p].want = proc[p].want
      /\ \A q \in Procs \ {p} : proc'[q] = proc[q]
  BY <1>1, <1>2, ExchangeOK DEF RInv
<1>4. /\ \A b \in Bindings : refreshOf[b] \in Nat /\ refreshOf[b] <= issued
      /\ issued \in Nat /\ Target(p) \in Bindings /\ proc[p].token \in Nat \ {0}
      /\ \A b \in Bindings : refreshOf[b] \in {0} \cup live \cup lost
      /\ refreshOf[Target(p)] = proc[p].token
  <2>1. proc[p].pc \in Held \ {"reload"} /\ proc[p].pc = "exchange"
    BY <1>2 DEF At, Held
  <2>2. Numbered /\ Renews(p)
    BY DEF RInv, TokensOK, Renewing
  <2>3. QED BY <2>1, <2>2, HolderTokens DEF Numbered, Renews, At
<1>5. Numbered' /\ Distinct' /\ RefusedOnlyIfLost'
  <2>1. issued' \in {issued, issued + 1}
    BY <1>1 DEF Replaced, Issue
  <2>2. issued <= issued'
    BY <1>4, <2>1
  <2>3. \A b \in Bindings : refreshOf[b] <= issued'
    BY <1>4, <2>1
  <2>4. QED BY <1>2, <2>3 DEF RInv, TokensOK, Numbered, Distinct, RefusedOnlyIfLost, keyring
<1>6. ASSUME Issue({proc[p].token}) /\ now = issued + 1
      PROVE  Renews(p)' /\ Accepted' /\ proc'[p].pc # "save"
  <2>1. /\ live' = (live \ {proc[p].token}) \cup {now} /\ issued' = now
    BY <1>6 DEF Issue
  <2>2. now # proc[p].token /\ proc[p].token < now /\ \A b \in Bindings : refreshOf[b] # now
    BY <1>4, <1>6
  <2>3. proc'[p].pc = "store_refresh"
    BY <1>3, <2>2
  <2>4. now <= issued'
    BY <1>4, <1>6, <2>1
  <2>5. Renews(p)'
    BY <1>2, <1>3, <1>4, <2>1, <2>2, <2>3, <2>4 DEF Renews, At, Target, keyring
  <2>6. Accepted'
    <3> SUFFICES ASSUME NEW b \in Bindings, refreshOf[b] \notin {0} \cup live' \cup lost'
                 PROVE  Target(p)' = b
      BY <1>2, <2>3 DEF Accepted, At, keyring
    <3>1. refreshOf[b] = proc[p].token /\ refreshOf[b] # 0
      BY <1>2, <1>4, <2>1
    <3>2. Target(p) = b
      BY <1>4, <3>1 DEF RInv, TokensOK, Distinct
    <3>3. QED BY <1>3, <3>2 DEF Target
  <2>7. QED BY <2>3, <2>5, <2>6
<1>7. ASSUME UNCHANGED <<live, issued>> /\ now = proc[p].token
      PROVE  Renews(p)' /\ Accepted' /\ proc'[p].pc # "save"
  <2>1. proc'[p].pc = "store_access"
    BY <1>3, <1>7
  <2>2. Renews(p)'
    BY <1>2, <1>3, <1>4, <1>7, <2>1 DEF Renews, At, Target, keyring
  <2>3. Accepted'
    BY <1>2, <1>4, <1>7 DEF Accepted, keyring
  <2>4. QED BY <2>1, <2>2, <2>3
<1>8. Renews(p)' /\ Accepted' /\ proc'[p].pc # "save"
  BY <1>1, <1>3, <1>6, <1>7 DEF Replaced
<1>9. Renewing' /\ \A q \in Procs : At(q, "save")' /\ proc'[q].want.canonical => proc'[q].fresh
  BY <1>2, <1>3, <1>8, OthersRenew DEF At, Held
<1>10. Referred'
  BY <1>2, <1>9 DEF RInv, TokensOK, Referred, keyring
<1>11. QED BY <1>5, <1>8, <1>9, <1>10 DEF TokensOK

\* A release: the holder has no tokens in hand, and the keyring has what it had. Then
\* only the provider's side is left to look at.
LEMMA ReleaseTokens ==
    ASSUME RInv, OneProfile, NEW p \in Procs, proc[p].pc \in Held,
           proc'[p] = Idle, \A q \in Procs \ {p} : proc'[q] = proc[q],
           UNCHANGED <<profile, refreshOf, emptied>>
    PROVE  Renewing' /\ Referred' /\ Distinct'
<1>1. proc'[p].pc = "idle"
  BY IdleOK
<1>2. Renews(p)'
  BY <1>1 DEF Renews, At
<1>3. Renewing' /\ \A q \in Procs : At(q, "save")' /\ proc'[q].want.canonical => proc'[q].fresh
  BY <1>1, <1>2, OthersRenew
<1>4. QED BY <1>3 DEF RInv, TokensOK, Referred, Distinct

LEMMA ExchangeLostTokens ==
    ASSUME RInv, OneProfile, NEW p \in Procs, ExchangeLost(p)
    PROVE  TokensOK'
<1>1. /\ At(p, "exchange") /\ Issue({proc[p].token}) /\ lost' = lost \cup {proc[p].token}
      /\ Release(p) /\ UNCHANGED <<profile, keyring, refused>>
  BY DEF ExchangeLost
<1>2. proc[p].pc \in Held \ {"reload"} /\ proc[p].pc \in Held /\ proc[p].pc # "store_refresh"
  BY <1>1 DEF At, Held
<1>3. Renewing' /\ Referred' /\ Distinct'
  BY <1>1, <1>2, ReleaseOK, ReleaseTokens DEF RInv, keyring
<1>4. RefusedOnlyIfLost'
  BY <1>1 DEF RInv, TokensOK, RefusedOnlyIfLost
<1>5. Numbered'
  <2>1. issued' = issued + 1
    BY <1>1 DEF Issue
  <2>2. \A b \in Bindings : refreshOf[b] <= issued'
    BY <1>2, <2>1, HolderTokens DEF RInv, TokensOK, Numbered
  <2>3. QED BY <1>1, <2>2 DEF RInv, TokensOK, Numbered, keyring
<1>6. Accepted'
  <2>1. \A b \in Bindings : refreshOf[b] \in {0} \cup live \cup lost
    BY <1>2, HolderTokens DEF At
  <2>2. QED BY <1>1, <2>1 DEF Accepted, Issue, keyring
<1>7. QED BY <1>3, <1>4, <1>5, <1>6 DEF TokensOK

\* The provider refuses: the token was the stored one, so its replacement was lost.
LEMMA ExchangeFailedTokens ==
    ASSUME RInv, OneProfile, NEW p \in Procs, ExchangeFailed(p)
    PROVE  TokensOK'
<1>1. /\ At(p, "exchange") /\ refused' = refused \cup ({proc[p].token} \ live)
      /\ Release(p) /\ UNCHANGED <<profile, keyring, live, issued, lost>>
  BY DEF ExchangeFailed
<1>2. proc[p].pc \in Held \ {"reload"} /\ proc[p].pc \in Held /\ proc[p].pc = "exchange"
  BY <1>1 DEF At, Held
<1>3. Renewing' /\ Referred' /\ Distinct'
  BY <1>1, <1>2, ReleaseOK, ReleaseTokens DEF RInv, keyring
<1>4. proc[p].token \in live \cup lost
  <2>1. refreshOf[Target(p)] = proc[p].token
    BY <1>2 DEF RInv, TokensOK, Renewing, Renews
  <2>2. QED BY <1>2, <2>1, HolderTokens DEF At
<1>5. RefusedOnlyIfLost'
  BY <1>1, <1>4 DEF RInv, TokensOK, RefusedOnlyIfLost
<1>6. Numbered'
  BY <1>1 DEF RInv, TokensOK, Numbered, keyring
<1>7. Accepted'
  BY <1>1, <1>2, HolderTokens DEF Accepted, At, keyring
<1>8. QED BY <1>3, <1>5, <1>6, <1>7 DEF TokensOK

\* The replacement comes to grief after the exchange: by the keyring or in a crash.
LEMMA ReplacementLostTokens ==
    ASSUME RInv, OneProfile, NEW p \in Procs, At(p, "store_refresh"),
           lost' = lost \cup {proc[p].token},
           proc'[p] = Idle, \A q \in Procs \ {p} : proc'[q] = proc[q],
           UNCHANGED <<profile, keyring, live, issued, refused>>
    PROVE  TokensOK'
<1>1. proc[p].pc \in Held \ {"reload"} /\ proc[p].pc \in Held
  BY DEF At, Held
<1>2. Renewing' /\ Referred' /\ Distinct'
  BY <1>1, ReleaseTokens DEF keyring
<1>3. RefusedOnlyIfLost' /\ Numbered'
  BY DEF RInv, TokensOK, RefusedOnlyIfLost, Numbered, keyring
<1>4. refreshOf[Target(p)] = proc[p].token
  BY DEF RInv, TokensOK, Renewing, Renews, At
<1>5. Accepted'
  BY <1>1, <1>4, HolderTokens DEF Accepted, keyring
<1>6. QED BY <1>2, <1>3, <1>5 DEF TokensOK

LEMMA CommitReplacementTokens ==
    ASSUME RInv, OneProfile, NEW p \in Procs, CommitReplacement(p)
    PROVE  TokensOK'
<1>1. /\ At(p, "store_refresh") /\ UNCHANGED <<profile, accessOf, emptied, provider, lock>>
      /\ refreshOf' = [refreshOf EXCEPT ![Target(p)] = proc[p].got]
  BY DEF CommitReplacement
<1>2. /\ proc'[p].pc = "store_access" /\ proc'[p].want = proc[p].want
      /\ proc'[p].got = proc[p].got /\ \A q \in Procs \ {p} : proc'[q] = proc[q]
  BY CommitReplacementOK DEF RInv
<1>3. proc[p].pc \in Held \ {"reload"} /\ proc[p].pc \in Held
  BY <1>1 DEF At, Held
<1>4. /\ refreshOf[Target(p)] = proc[p].token
      /\ proc[p].got \in live /\ proc[p].token < proc[p].got /\ proc[p].got <= issued
      /\ \A b \in Bindings : refreshOf[b] # proc[p].got
  BY <1>1 DEF RInv, TokensOK, Renewing, Renews, At
<1>5. Target(p) \in Bindings /\ proc[p].got \in Nat /\ proc[p].token \in Nat
  BY <1>1, <1>3, HolderTokens, HolderFacts, MaxTokensOK DEF RInv, Tokens, At
<1>6. \A b \in Bindings : refreshOf'[b] = IF b = Target(p) THEN proc[p].got ELSE refreshOf[b]
  BY <1>1 DEF RInv, Inv, TypeOK
<1>7. Numbered'
  <2>1. accessOf[Target(p)] \in Nat /\ accessOf[Target(p)] <= proc[p].token
    BY <1>3, <1>4, <1>5, HolderTokens DEF RInv, TokensOK, Numbered
  <2>2. accessOf[Target(p)] <= proc[p].got
    BY <1>4, <1>5, <2>1
  <2>3. QED BY <1>1, <1>4, <1>6, <2>2 DEF RInv, TokensOK, Numbered, provider
<1>8. Distinct'
  BY <1>4, <1>6 DEF RInv, TokensOK, Distinct
<1>9. Accepted'
  BY <1>1, <1>3, <1>4, <1>6, HolderTokens DEF Accepted, provider
<1>10. Renews(p)'
  BY <1>2, <1>5, <1>6 DEF Renews, At, Target
<1>11. Renewing' /\ \A q \in Procs : At(q, "save")' /\ proc'[q].want.canonical => proc'[q].fresh
  BY <1>2, <1>3, <1>10, OthersRenew
<1>12. Referred'
  <2>1. proc[p].got # 0
    BY <1>4, <1>5
  <2>2. \A f \in Profiles : profile[f].binding # None => profile[f].binding \in Bindings
    BY DEF RInv, Inv, TypeOK, Credential
  <2>3. QED BY <1>1, <1>6, <1>11, <2>1, <2>2 DEF RInv, TokensOK, Referred
<1>13. RefusedOnlyIfLost'
  BY <1>1 DEF RInv, TokensOK, RefusedOnlyIfLost, provider
<1>14. QED BY <1>7, <1>8, <1>9, <1>11, <1>12, <1>13 DEF TokensOK

LEMMA CommitAccessTokens ==
    ASSUME RInv, OneProfile, NEW p \in Procs, CommitAccess(p)
    PROVE  TokensOK'
<1>1. /\ At(p, "store_access") /\ Release(p) /\ UNCHANGED <<profile, refreshOf, emptied, provider>>
      /\ accessOf' = IF proc[p].want.access
                     THEN [accessOf EXCEPT ![Target(p)] = proc[p].got] ELSE accessOf
  BY DEF CommitAccess
<1>2. proc[p].pc \in Held \ {"reload"} /\ proc[p].pc \in Held
  BY <1>1 DEF At, Held
<1>3. Renewing' /\ Referred' /\ Distinct'
  BY <1>1, <1>2, ReleaseOK, ReleaseTokens DEF RInv
<1>4. RefusedOnlyIfLost'
  BY <1>1 DEF RInv, TokensOK, RefusedOnlyIfLost, provider
<1>5. refreshOf[Target(p)] = proc[p].got
  BY <1>1 DEF RInv, TokensOK, Renewing, Renews
<1>6. \A b \in Bindings : accessOf'[b] = accessOf[b] \/ (b = Target(p) /\ accessOf'[b] = proc[p].got)
  BY <1>1 DEF RInv, Inv, TypeOK
<1>7. Numbered'
  BY <1>1, <1>2, <1>5, <1>6, HolderTokens DEF RInv, TokensOK, Numbered, provider
<1>8. Accepted'
  BY <1>1, <1>2, HolderTokens DEF Accepted, At, provider
<1>9. QED BY <1>3, <1>4, <1>7, <1>8 DEF TokensOK

\* A save finds the only lock free, so that nobody holds it.
LEMMA NobodyHolds ==
    ASSUME OneProfile, Inv, NEW p \in Procs, At(p, "save"), lock[proc[p].path] = None
    PROVE  \A q \in Procs : proc[q].pc \notin Held
<1> SUFFICES ASSUME NEW q \in Procs, proc[q].pc \in Held
             PROVE  FALSE
  OBVIOUS
<1>1. proc[q].path \in Profiles /\ lock[proc[q].path] = q
  BY DEF Inv, ControlOK, Control, Held
<1>2. proc[p].path \in Profiles
  BY DEF Inv, ControlOK, Control, At
<1>3. proc[q].path = proc[p].path
  BY <1>1, <1>2 DEF OneProfile
<1>4. QED BY <1>1, <1>3, NoneOK

\* A save finds no holder: all stored tokens are accepted or lost, and the new one is
\* like none of them.
LEMMA SaveTokens ==
    ASSUME RInv, OneProfile, NEW p \in Procs, SaveProfile(p)
    PROVE  TokensOK'
<1>1. /\ At(p, "save") /\ lock[proc[p].path] = None
      /\ profile' = [profile EXCEPT ![proc[p].path] = proc[p].want]
      /\ IF proc[p].fresh THEN Issue({}) ELSE UNCHANGED <<live, issued>>
      /\ refreshOf' = Stored(p, refreshOf, proc[p].fresh)
      /\ accessOf' = Stored(p, accessOf, proc[p].fresh /\ proc[p].want.access)
      /\ UNCHANGED <<lost, refused, lock>>
  BY DEF SaveProfile
<1>2. proc'[p] = Idle /\ \A q \in Procs \ {p} : proc'[q] = proc[q]
  BY SaveProfileOK DEF RInv
<1>3. /\ proc[p].path \in Profiles /\ proc[p].want \in Credential
      /\ proc[p].fresh \in BOOLEAN
  BY <1>1 DEF RInv, Inv, TypeOK, ControlOK, Control, Process, At
<1>4. \A q \in Procs : proc[q].pc \notin Held
  BY <1>1, NobodyHolds DEF RInv
<1>5. /\ \A b \in Bindings : /\ refreshOf[b] \in Nat /\ accessOf[b] \in Nat
                             /\ accessOf[b] <= refreshOf[b] /\ refreshOf[b] <= issued
      /\ issued \in Nat
  BY MaxTokensOK DEF RInv, TokensOK, Numbered, Inv, TypeOK, Tokens
<1>6. \A b \in Bindings : refreshOf[b] \in {0} \cup live \cup lost
  BY <1>4 DEF RInv, TokensOK, Accepted, At, Held
<1>7. /\ live \subseteq live' /\ issued' \in Nat /\ issued <= issued'
      /\ proc[p].fresh => issued' = issued + 1 /\ issued + 1 \in live'
  <2>1. CASE proc[p].fresh
    <3>1. issued' = issued + 1 /\ live' = live \cup {issued + 1}
      BY <1>1, <2>1 DEF Issue
    <3>2. issued <= issued + 1 /\ issued + 1 \in Nat
      BY <1>5
    <3>3. QED BY <3>1, <3>2
  <2>2. CASE ~proc[p].fresh
    BY <1>1, <1>5, <2>2
  <2>3. QED BY <2>1, <2>2
<1>8. \A b \in Bindings : refreshOf'[b] = IF proc[p].fresh /\ b = Target(p) THEN issued + 1
                                          ELSE IF b \in proc[p].free THEN 0 ELSE refreshOf[b]
  BY <1>1 DEF Stored
<1>9. \A b \in Bindings : accessOf'[b] = IF proc[p].fresh /\ proc[p].want.access /\ b = Target(p)
                                         THEN issued + 1
                                         ELSE IF b \in proc[p].free THEN 0 ELSE accessOf[b]
  BY <1>1 DEF Stored
<1>10. Numbered'
  <2> SUFFICES ASSUME NEW b \in Bindings
               PROVE  accessOf'[b] <= refreshOf'[b] /\ refreshOf'[b] <= issued'
    BY DEF Numbered
  <2>1. CASE proc[p].fresh /\ b = Target(p)
    <3>1. refreshOf'[b] = issued + 1 /\ issued' = issued + 1
      BY <1>7, <1>8, <2>1
    <3>2. accessOf'[b] \in {issued + 1, 0, accessOf[b]}
      BY <1>9
    <3>3. QED BY <1>5, <3>1, <3>2
  <2>2. CASE ~(proc[p].fresh /\ b = Target(p))
    <3>1. \/ refreshOf'[b] = 0 /\ accessOf'[b] = 0
          \/ refreshOf'[b] = refreshOf[b] /\ accessOf'[b] = accessOf[b]
      BY <1>8, <1>9, <2>2
    <3>2. QED BY <1>5, <1>7, <3>1
  <2>3. QED BY <2>1, <2>2
<1>11. Distinct'
  <2> SUFFICES ASSUME NEW b \in Bindings, NEW c \in Bindings, refreshOf'[b] = refreshOf'[c],
                      refreshOf'[b] # 0, b # c
               PROVE  FALSE
    BY DEF Distinct
  <2>1. refreshOf[b] # issued + 1 /\ refreshOf[c] # issued + 1
    BY <1>5
  <2>2. refreshOf[b] = refreshOf[c] /\ refreshOf[b] # 0
    BY <1>8, <2>1
  <2>3. QED BY <2>2 DEF RInv, TokensOK, Distinct
<1>12. Accepted'
  BY <1>1, <1>6, <1>7, <1>8 DEF Accepted
<1>13. \A q \in Procs : proc'[q].pc \notin Held /\ (proc'[q] = proc[q] \/ proc'[q].pc = "idle")
  BY <1>2, <1>4, IdleOK DEF Held
<1>14. Renewing'
  BY <1>13 DEF Renewing, Renews, At, Held
<1>15. Referred'
  <2>1. \A q \in Procs : At(q, "save")' /\ proc'[q].want.canonical => proc'[q].fresh
    BY <1>13 DEF At, RInv, TokensOK, Referred
  <2>2. ASSUME NEW f \in Profiles, profile'[f].binding # None, profile'[f].canonical
        PROVE  refreshOf'[profile'[f].binding] # 0
    <3>1. f = proc[p].path
      BY <1>3 DEF OneProfile
    <3>2. profile'[f] = proc[p].want
      BY <1>1, <1>3, <3>1 DEF RInv, Inv, TypeOK
    <3>3. proc[p].fresh /\ Target(p) \in Bindings
      BY <1>1, <1>3, <2>2, <3>2 DEF RInv, TokensOK, Referred, Target, Credential
    <3>4. refreshOf'[Target(p)] = issued + 1 /\ issued + 1 # 0
      BY <1>5, <1>8, <3>3
    <3>5. QED BY <3>2, <3>4 DEF Target
  <2>3. QED BY <2>1, <2>2 DEF Referred
<1>16. RefusedOnlyIfLost'
  BY <1>1 DEF RInv, TokensOK, RefusedOnlyIfLost
<1>17. QED BY <1>10, <1>11, <1>12, <1>14, <1>15, <1>16 DEF TokensOK

\* A save that is undone takes tokens away and gives none. What it leaves the profile
\* with is there as before, or is marked as emptied.
LEMMA SaveUndoneTokens ==
    ASSUME RInv, OneProfile, NEW p \in Procs, SaveUndone(p)
    PROVE  TokensOK'
<1>1. /\ At(p, "save") /\ lock[proc[p].path] = None
      /\ IF proc[p].fresh THEN Issue({}) ELSE UNCHANGED <<live, issued>>
      /\ UNCHANGED <<lost, refused, lock>>
  BY DEF SaveUndone
<1>2. proc'[p] = Idle /\ \A q \in Procs \ {p} : proc'[q] = proc[q]
  BY SaveUndoneOK DEF RInv
<1>3. \A q \in Procs : proc[q].pc \notin Held
  BY <1>1, NobodyHolds DEF RInv
<1>4. /\ \A b \in Bindings : refreshOf[b] \in Nat /\ accessOf[b] \in Nat
      /\ issued \in Nat
  BY MaxTokensOK DEF RInv, Inv, TypeOK, Tokens
<1>5. \A b \in Bindings :
          \/ refreshOf'[b] = 0 /\ accessOf'[b] = 0 /\ b \in proc[p].free
          \/ refreshOf'[b] = refreshOf[b] /\ accessOf'[b] = accessOf[b]
  BY DEF SaveUndone, Undone
<1>6. live \subseteq live' /\ issued' \in {issued, issued + 1}
  BY <1>1 DEF Issue
<1>7. Numbered'
  <2>1. \A b \in Bindings : accessOf[b] <= refreshOf[b] /\ refreshOf[b] <= issued
    BY DEF RInv, TokensOK, Numbered
  <2>2. QED BY <1>4, <1>5, <1>6, <2>1 DEF Numbered
<1>8. Distinct'
  BY <1>5 DEF RInv, TokensOK, Distinct
<1>9. Accepted'
  <2>1. \A b \in Bindings : refreshOf[b] \in {0} \cup live \cup lost
    BY <1>3 DEF RInv, TokensOK, Accepted, At, Held
  <2>2. QED BY <1>1, <1>5, <1>6, <2>1 DEF Accepted
<1>10. \A q \in Procs : proc'[q].pc \notin Held /\ (proc'[q] = proc[q] \/ proc'[q].pc = "idle")
  BY <1>2, <1>3, IdleOK DEF Held
<1>11. Renewing'
  BY <1>10 DEF Renewing, Renews, At, Held
<1>12. Referred'
  <2>1. \A q \in Procs : At(q, "save")' /\ proc'[q].want.canonical => proc'[q].fresh
    BY <1>10 DEF At, RInv, TokensOK, Referred
  <2>2. ASSUME NEW f \in Profiles, profile'[f].binding # None, profile'[f].canonical
        PROVE  refreshOf'[profile'[f].binding] # 0 \/ profile'[f].binding \in emptied'
    <3>1. CASE emptied' = emptied \cup proc[p].free /\ UNCHANGED profile
      <4>1. profile[f].binding \in Bindings
        BY <2>2, <3>1 DEF RInv, Inv, TypeOK, Credential
      <4>2. refreshOf[profile[f].binding] # 0 \/ profile[f].binding \in emptied
        BY <2>2, <3>1 DEF RInv, TokensOK, Referred
      <4>3. QED BY <1>5, <3>1, <4>1, <4>2
    <3>2. CASE /\ emptied' = emptied \cup {b \in Bindings : b = Target(p) /\ refreshOf'[b] = 0}
               /\ profile' = [profile EXCEPT ![proc[p].path] = proc[p].want]
      <4>1. proc[p].path \in Profiles /\ proc[p].want \in Credential
        BY <1>1 DEF RInv, Inv, TypeOK, ControlOK, Control, Process, At
      <4>2. profile'[f] = proc[p].want
        BY <3>2, <4>1 DEF OneProfile, RInv, Inv, TypeOK
      <4>3. profile'[f].binding = Target(p) /\ Target(p) \in Bindings
        BY <2>2, <4>1, <4>2 DEF Target, Credential
      <4>4. QED BY <3>2, <4>3
    <3>3. QED BY <3>1, <3>2 DEF SaveUndone
  <2>3. QED BY <2>1, <2>2 DEF Referred
<1>13. RefusedOnlyIfLost'
  BY <1>1 DEF RInv, TokensOK, RefusedOnlyIfLost
<1>14. QED BY <1>7, <1>8, <1>9, <1>11, <1>12, <1>13 DEF TokensOK

LEMMA CrashTokens ==
    ASSUME RInv, OneProfile, NEW p \in Procs, Crash(p)
    PROVE  TokensOK'
<1>1. /\ proc'[p] = Idle /\ \A q \in Procs \ {p} : proc'[q] = proc[q]
      /\ UNCHANGED <<profile, keyring, live, issued, refused>>
      /\ lost' = IF At(p, "store_refresh") THEN lost \cup {proc[p].token} ELSE lost
  BY BecomesOK, IdleOK DEF Crash, RInv, Inv
<1>2. CASE At(p, "store_refresh")
  BY <1>1, <1>2, ReplacementLostTokens
<1>3. CASE ~At(p, "store_refresh")
  BY <1>1, <1>3, IdleOK, QuietOK DEF At, provider
<1>4. QED BY <1>2, <1>3

\* The steps before and after a renewal that touch no token.
LEMMA QuietStepsOK ==
    ASSUME RInv, NEW p \in Procs,
           \/ Command(p) \/ AcquireRefresh(p) \/ Reload(p) \/ ReloadRefused(p)
           \/ AccessFailed(p) \/ GiveUp(p)
    PROVE  TokensOK'
<1>1. CASE \E f \in Profiles : FromConfig(p, f)
  <2>1. PICK f \in Profiles : FromConfig(p, f)
    BY <1>1
  <2> DEFINE r == [Idle EXCEPT !.pc = "acquire", !.path = f, !.want = profile[f]]
  <2>2. profile[f] \in Credential
    BY DEF RInv, Inv, TypeOK
  <2>3. r \in Process /\ r.pc = "acquire"
    BY <2>1, <2>2, IdleOK DEF Idle, Process
  <2>4. /\ Becomes(p, r) /\ proc[p].pc = "idle"
        /\ UNCHANGED <<profile, keyring, provider>>
    BY <2>1 DEF FromConfig, At
  <2> HIDE DEF r
  <2>5. QED BY <2>3, <2>4, BecomesOK, QuietOK DEF RInv, Inv
<1>2. CASE \E f \in Profiles : Login(p, f) \/ Logout(p, f) \/ SwitchWorkspace(p, f)
  <2>1. proc[p].pc = "idle"
    BY <1>2 DEF Login, Logout, SwitchWorkspace, BeginSave, At
  <2>2. /\ UNCHANGED <<profile, keyring, provider>>
        /\ proc'[p].pc = "save" /\ (proc'[p].want.canonical => proc'[p].fresh)
        /\ \A q \in Procs \ {p} : proc'[q] = proc[q]
    BY <1>2, CommandSavesOK DEF RInv
  <2>3. QED BY <2>1, <2>2, QuietOK
<1>3. CASE AcquireRefresh(p)
  BY <1>3, AcquireRefreshOK, QuietOK DEF AcquireRefresh, At, RInv
<1>4. CASE Reload(p)
  BY <1>4, ReloadOK, QuietOK DEF Reload, At, RInv
<1>5. CASE ReloadRefused(p) \/ AccessFailed(p)
  <2>1. /\ Release(p) /\ proc[p].pc \in Held /\ proc[p].pc # "store_refresh"
        /\ UNCHANGED <<profile, keyring, provider>>
    BY <1>5 DEF ReloadRefused, AccessFailed, At, Held
  <2>2. proc'[p] = Idle /\ \A q \in Procs \ {p} : proc'[q] = proc[q]
    BY <2>1, ReleaseOK DEF RInv
  <2>3. QED BY <2>1, <2>2, IdleOK, QuietOK
<1>6. CASE GiveUp(p)
  BY <1>6, BecomesOK, IdleOK, QuietOK DEF GiveUp, At, RInv, Inv
<1>7. QED BY <1>1, <1>2, <1>3, <1>4, <1>5, <1>6 DEF Command

LEMMA RStepOK ==
    ASSUME OneProfile, RInv, [Next]_vars
    PROVE  RInv'
<1>1. Inv'
  BY StepOK DEF RInv
<1>2. CASE UNCHANGED vars
  BY <1>1, <1>2 DEF vars, keyring, provider, RInv, TokensOK, Numbered, Distinct, Accepted,
                    Renewing, Renews, Referred, RefusedOnlyIfLost, At, Target
<1>3. CASE Next
  <2>1. PICK p \in Procs : \/ Command(p) \/ AcquireRefresh(p) \/ HolderStep(p)
                           \/ SaveProfile(p) \/ SaveUndone(p) \/ GiveUp(p) \/ Crash(p)
    BY <1>3 DEF Next
  <2>2. CASE HolderStep(p)
    <3>1. CASE ReplacementFailed(p)
      <4>1. /\ At(p, "store_refresh") /\ Release(p) /\ lost' = lost \cup {proc[p].token}
            /\ UNCHANGED <<profile, keyring, live, issued, refused>>
        BY <3>1 DEF ReplacementFailed
      <4>2. proc'[p] = Idle /\ \A q \in Procs \ {p} : proc'[q] = proc[q]
        BY <4>1, ReleaseOK DEF RInv, At, Held
      <4>3. QED BY <1>1, <4>1, <4>2, ReplacementLostTokens DEF RInv
    <3>2. CASE ~ReplacementFailed(p)
      BY <1>1, <2>2, <3>2, QuietStepsOK, CompareTokens, ExchangeTokens, ExchangeLostTokens,
         ExchangeFailedTokens, CommitReplacementTokens, CommitAccessTokens DEF HolderStep, RInv
    <3>3. QED BY <3>1, <3>2
  <2>3. QED BY <1>1, <2>1, <2>2, QuietStepsOK, SaveTokens, SaveUndoneTokens, CrashTokens
            DEF RInv
<1>4. QED BY <1>2, <1>3

\* With one profile, whatever happens to processes, replies and keyring: the provider
\* refuses a refresh token only when the exchange that spent it lost its replacement. Two
\* commands never spend one token.
THEOREM RefusesOnlyLost == OneProfile => (Spec => []RefusedOnlyIfLost)
<1> SUFFICES ASSUME OneProfile PROVE Spec => []RefusedOnlyIfLost
  OBVIOUS
<1>1. RInv /\ [Next]_vars => RInv'
  BY RStepOK
<1>2. RInv => RefusedOnlyIfLost
  BY DEF RInv, TokensOK
<1>3. QED BY RInitOK, <1>1, <1>2, PTL DEF Spec

\* With one profile, what it refers to while no process holds its lock can be used unless
\* its replacement was lost, and is there unless a save that failed past its stores has
\* removed it.
THEOREM StoredCanBeUsed == OneProfile => (Spec => []StoredIsUsable)
<1> SUFFICES ASSUME OneProfile PROVE Spec => []StoredIsUsable
  OBVIOUS
<1>1. RInv /\ [Next]_vars => RInv'
  BY RStepOK
<1>2. ASSUME RInv PROVE StoredIsUsable
  <2> SUFFICES ASSUME NEW f \in Profiles, lock[f] = None, profile[f].binding # None,
                      profile[f].canonical
               PROVE  LET b == profile[f].binding
                      IN  \/ refreshOf[b] \in live \cup lost
                          \/ refreshOf[b] = 0 /\ b \in emptied
    BY DEF StoredIsUsable
  <2>1. /\ profile[f].binding \in Bindings
        /\ refreshOf[profile[f].binding] # 0 \/ profile[f].binding \in emptied
    BY <1>2 DEF RInv, TokensOK, Referred, Inv, TypeOK, Credential
  <2>2. \A p \in Procs : ~At(p, "store_refresh")
    <3> SUFFICES ASSUME NEW p \in Procs, At(p, "store_refresh")
                 PROVE  FALSE
      OBVIOUS
    <3>1. proc[p].path \in Profiles /\ lock[proc[p].path] = p
      BY <1>2, HolderFacts DEF RInv, At, Held
    <3>2. QED BY <3>1, NoneOK DEF OneProfile
  <2>3. QED BY <1>2, <2>1, <2>2 DEF RInv, TokensOK, Accepted
<1>3. QED BY RInitOK, <1>1, <1>2, PTL DEF Spec

\* With one profile, a crash or a failure between the two stores of a renewal leaves no
\* access token newer than the refresh token beside it.
THEOREM AccessStaysBehind == OneProfile => (Spec => []AccessNotAhead)
<1> SUFFICES ASSUME OneProfile PROVE Spec => []AccessNotAhead
  OBVIOUS
<1>1. RInv /\ [Next]_vars => RInv'
  BY RStepOK
<1>2. RInv => AccessNotAhead
  BY DEF RInv, TokensOK, Numbered, AccessNotAhead
<1>3. QED BY RInitOK, <1>1, <1>2, PTL DEF Spec
=============================================================================
