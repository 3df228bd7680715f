-------------------------- MODULE TabSessionProofs --------------------------
(***************************************************************************)
(* Two invariants of the tabs of a browser.  Whatever the tabs, accounts,  *)
(* tokens and races, a pin holds a token of the account it names (Inv):    *)
(* every answer the host gave, and every pin a request captured, does so   *)
(* too.  While a tab starts no operation before its last one has ended     *)
(* (Overlap = FALSE), what it sends is the pin it still has (SerialInv),   *)
(* so what a pinned page shows is what its requests act as.                *)
(***************************************************************************)
EXTENDS TabSession, TLAPS

GoodPin(p)    == p # None => p \in Pin /\ Owner[p.token] = p.did
GoodAnswer(a) == a # None /\ a.ok => a.token \in Token /\ a.account = Owner[a.token]

GoodTask(r) ==
    /\ r \in Task
    /\ GoodPin(r.pin)
    /\ GoodAnswer(r.answer)

Inv ==
    /\ TypeOK
    /\ \A t \in Tab : GoodPin(pin[t])
    /\ \A x \in Tab \X Slots : GoodTask(task[x])

-----------------------------------------------------------------------------
(* What a task is built from. *)

(* A captured pin, a wanted account and no answer make a task. *)
LEMMA RequestGood ==
    ASSUME NEW kind \in Kind, NEW p \in Pin \union {None}, GoodPin(p),
           NEW a \in Account \union {None}
    PROVE  GoodTask(Request(kind, p, a))
BY DEF Request, GoodTask, Task, GoodAnswer

(* The task of an idle slot. *)
LEMMA IdleGood == GoodTask(Idle)
BY DEF Idle, GoodTask, Task, Kind, GoodAnswer, GoodPin

(* What the host says of a token of its roster. *)
LEMMA ForGood ==
    ASSUME live \subseteq Token, NEW tk
    PROVE  For(tk) \in Answer /\ GoodAnswer(For(tk))
BY TabAssumption DEF For, Yes, No, Answer, GoodAnswer

(* A task that receives an answer. *)
LEMMA ReplyGood ==
    ASSUME NEW r, GoodTask(r), NEW a \in Answer, GoodAnswer(a)
    PROVE  GoodTask([r EXCEPT !.answer = a])
BY DEF GoodTask, Task

(* A slot given another task leaves the others as they were. *)
LEMMA BecomesGood ==
    ASSUME \A x \in Tab \X Slots : GoodTask(task[x]), task \in [Tab \X Slots -> Task],
           NEW t \in Tab, NEW k \in Slots, NEW r, GoodTask(r), Becomes(t, k, r)
    PROVE  /\ task' \in [Tab \X Slots -> Task]
           /\ \A x \in Tab \X Slots : GoodTask(task'[x])
BY DEF Becomes, GoodTask

(* A tab whose pin is dropped or replaced by a good one. *)
LEMMA PinGood ==
    ASSUME pin \in [Tab -> Pin \union {None}], \A x \in Tab : GoodPin(pin[x]),
           NEW t \in Tab, NEW p \in Pin \union {None}, GoodPin(p),
           pin' = [pin EXCEPT ![t] = p]
    PROVE  /\ pin' \in [Tab -> Pin \union {None}]
           /\ \A x \in Tab : GoodPin(pin'[x])
           /\ pin'[t] = p
OBVIOUS

-----------------------------------------------------------------------------
(* The initial states satisfy the invariant. *)
LEMMA InitInv == Init => Inv
<1> SUFFICES ASSUME Init PROVE Inv
    OBVIOUS
<1>1. TypeOK
    BY IdleGood, TabAssumption DEF Init, TypeOK, GoodTask
<1>2. \A t \in Tab : GoodPin(pin[t])
    BY DEF Init, GoodPin
<1>3. \A x \in Tab \X Slots : GoodTask(task[x])
    BY IdleGood DEF Init
<1> QED
    BY <1>1, <1>2, <1>3 DEF Inv

(* The host's own actions keep the invariant: what it answers is good. *)
LEMMA HostInv ==
    ASSUME Inv, Host
    PROVE  Inv'
<1> USE DEF Inv, TypeOK
<1>1. ASSUME NEW tk \in Token, SignIn(tk) PROVE Inv'
    BY <1>1 DEF SignIn, pageVars, GoodPin
<1>2. ASSUME NEW tk \in Token, EndSession(tk) PROVE Inv'
    BY <1>2 DEF EndSession, pageVars, GoodPin
<1>3. ASSUME NEW t \in Tab, NEW k \in Slots, NEW a \in Answer, GoodAnswer(a),
             Replies(t, k, a), cookie' \in Token \union {None}, live' \subseteq Token
      PROVE  Inv'
    <2>1. GoodTask([task[<<t, k>>] EXCEPT !.answer = a])
        BY <1>3, ReplyGood
    <2>2. /\ task' \in [Tab \X Slots -> Task]
          /\ \A x \in Tab \X Slots : GoodTask(task'[x])
        BY <1>3, <2>1, BecomesGood DEF Replies
    <2> QED
        BY <1>3, <2>2 DEF Replies, pageVars, GoodPin
<1>4. ASSUME NEW t \in Tab, NEW k \in Slots, HostReads(t, k) PROVE Inv'
    BY <1>3, <1>4, ForGood DEF HostReads
<1>5. ASSUME NEW t \in Tab, NEW k \in Slots, HostMints(t, k) PROVE Inv'
    <2> DEFINE a == IF cookie \notin live THEN No
                    ELSE IF task[<<t, k>>].kind = "hint" /\ honours
                    THEN For(TokenOf(task[<<t, k>>].want)) ELSE Yes(cookie)
    <2>1. No \in Answer /\ GoodAnswer(No)
        BY DEF No, Answer, GoodAnswer
    <2>2. cookie \in live => Yes(cookie) \in Answer /\ GoodAnswer(Yes(cookie))
        BY TabAssumption DEF Yes, Answer, GoodAnswer
    <2>3. a \in Answer /\ GoodAnswer(a)
        BY <2>1, <2>2, ForGood
    <2> QED
        BY <1>3, <1>5, <2>3 DEF HostMints
<1>6. ASSUME NEW t \in Tab, NEW k \in Slots, HostSwitches(t, k) PROVE Inv'
    <2>1. TokenOf(task[<<t, k>>].want) \in Token \union {None}
        BY DEF TokenOf
    <2> QED
        BY <1>3, <1>6, <2>1, ForGood DEF HostSwitches
<1>7. ASSUME NEW t \in Tab, NEW k \in Slots, HostSignsOut(t, k) PROVE Inv'
    BY <1>3, <1>7, ForGood DEF HostSignsOut
<1> QED
    BY <1>1, <1>2, <1>4, <1>5, <1>6, <1>7 DEF Host

(* Starting an operation keeps it: the request carries the tab's pin. *)
LEMMA PersonInv ==
    ASSUME Inv, NEW t \in Tab, Person(t)
    PROVE  Inv'
<1> USE DEF Inv, TypeOK
<1>1. ASSUME NEW adopt \in BOOLEAN, NEW hint \in Hint \union {None}, Load(t, adopt, hint)
      PROVE  Inv'
    <2>1. /\ pin' \in [Tab -> Pin \union {None}]
          /\ \A u \in Tab : GoodPin(pin'[u])
        BY <1>1 DEF Load, GoodPin
    <2>2. PICK k \in Slot :
            task' = [x \in Tab \X Slots |->
                     IF x = <<t, k>>
                     THEN IF hint # None /\ ~(pin'[t] # None /\ pin'[t].did = hint)
                          THEN Request("hint", None, hint) ELSE Me(pin'[t])
                     ELSE IF x[1] = t THEN Idle ELSE task[x]]
        BY <1>1 DEF Load
    <2>3. GoodTask(Request("hint", None, hint))
        BY RequestGood, TabAssumption DEF Kind, GoodPin
    <2>4. GoodTask(Me(pin'[t]))
        BY <2>1, RequestGood DEF Me, Kind
    <2>5. \A x \in Tab \X Slots : GoodTask(task'[x])
        BY <2>2, <2>3, <2>4, IdleGood
    <2>6. task' \in [Tab \X Slots -> Task]
        BY <2>2, <2>5 DEF GoodTask
    <2>7. loads' \in 0 .. MaxLoads
        BY <1>1, TabAssumption DEF Load
    <2> QED
        BY <1>1, <2>1, <2>5, <2>6, <2>7 DEF Load, hostVars
<1>2. ASSUME NEW k \in Slot, NEW kind \in Kind, NEW a \in Account \union {None},
             Starts(t, k, Request(kind, pin[t], a))
      PROVE  Inv'
    <2>1. GoodTask(Request(kind, pin[t], a))
        BY RequestGood
    <2>2. /\ task' \in [Tab \X Slots -> Task]
          /\ \A x \in Tab \X Slots : GoodTask(task'[x])
        BY <1>2, <2>1, BecomesGood DEF Starts, Slots
    <2> QED
        BY <1>2, <2>2 DEF Starts, hostVars, pageVars, GoodPin
<1>3. ASSUME NEW k \in Slot, Refresh(t, k) PROVE Inv'
    BY <1>2, <1>3 DEF Refresh, Me, Kind
<1>4. ASSUME NEW k \in Slot, SetDisplay(t, k) PROVE Inv'
    BY <1>2, <1>4 DEF SetDisplay, Kind
<1>5. ASSUME NEW k \in Slot, NEW a \in Account, Switch(t, k, a) PROVE Inv'
    BY <1>2, <1>5 DEF Switch, Kind
<1>6. ASSUME NEW k \in Slot, NEW kind \in {"signOutAll", "signOutCurrent"},
             SignOut(t, k, kind)
      PROVE  Inv'
    BY <1>2, <1>6 DEF SignOut, Kind
<1> QED
    BY <1>1, <1>3, <1>4, <1>5, <1>6 DEF Person

(* Resuming keeps it: a pin is only written from an answer whose account   *)
(* it names, and the answer's token is that account's.                     *)
LEMMA PageInv ==
    ASSUME Inv, NEW t \in Tab, Page(t)
    PROVE  Inv'
<1> USE DEF Inv, TypeOK
<1> DEFINE R(k) == task[<<t, k>>]
<1>0. \A k \in Slots : GoodTask(R(k))
    OBVIOUS
<1>p. ASSUME NEW k \in Slots, R(k).answer # None, R(k).answer.ok
      PROVE  /\ R(k).answer.token \in Token
             /\ R(k).answer.account = Owner[R(k).answer.token]
             /\ R(k).answer.account \in Account
             /\ GoodPin([token |-> R(k).answer.token, did |-> R(k).answer.account])
             /\ [token |-> R(k).answer.token, did |-> R(k).answer.account] \in Pin
    BY <1>0, <1>p, TabAssumption DEF GoodTask, GoodAnswer, GoodPin, Pin
<1>n. GoodPin(None)
    BY DEF GoodPin
<1>q. ASSUME NEW p \in Pin \union {None}, GoodPin(p)
      PROVE  GoodTask(Me(p)) /\ GoodTask(Request("meAgain", None, None))
    BY <1>q, <1>n, RequestGood DEF Me, Kind
<1>s. Slot \subseteq Slots /\ Pinner \in Slots
    BY DEF Slots
<1>1. ASSUME NEW k \in Slots, MeRejectsPin(t, k) PROVE Inv'
    <2>1. /\ task' \in [Tab \X Slots -> Task]
          /\ \A x \in Tab \X Slots : GoodTask(task'[x])
        BY <1>1, <1>q, <1>n, BecomesGood DEF MeRejectsPin
    <2> QED
        BY <1>1, <2>1, <1>n DEF MeRejectsPin, hostVars
<1>2. ASSUME NEW k \in Slots, MeSaysNobody(t, k) PROVE Inv'
    <2>1. /\ task' \in [Tab \X Slots -> Task]
          /\ \A x \in Tab \X Slots : GoodTask(task'[x])
        BY <1>2, IdleGood, BecomesGood DEF MeSaysNobody
    <2> QED
        BY <1>2, <2>1 DEF MeSaysNobody, hostVars, GoodPin
<1>3. ASSUME NEW k \in Slots, MeSays(t, k) PROVE Inv'
    <2> DEFINE r    == task[<<t, k>>]
               kept == r.pin # None /\ r.pin.did = r.answer.account
               next == IF ~kept /\ pin'[t] = None /\ task[<<t, Pinner>>].kind = "idle"
                       THEN Request("tab", None, r.answer.account)
                       ELSE task[<<t, Pinner>>]
    <2>1. r.answer.account \in Account
        BY <1>3, <1>p DEF MeSays, Answered
    <2>2. GoodTask(Request("tab", None, r.answer.account))
        BY <2>1, <1>n, RequestGood DEF Kind
    <2>3. \A x \in Tab \X Slots :
             task'[x] = task[x] \/ task'[x] = Idle
             \/ task'[x] = Request("tab", None, r.answer.account)
        BY <1>3, <1>s DEF MeSays
    <2>4. DOMAIN task' = Tab \X Slots /\ task' = [x \in Tab \X Slots |-> task'[x]]
        BY <1>3 DEF MeSays
    <2>5. \A x \in Tab \X Slots : GoodTask(task'[x])
        BY <2>2, <2>3, IdleGood
    <2>6. task' \in [Tab \X Slots -> Task]
        BY <2>4, <2>5 DEF GoodTask
    <2>7. /\ pin' \in [Tab -> Pin \union {None}]
          /\ \A u \in Tab : GoodPin(pin'[u])
        BY <1>3, <1>n DEF MeSays
    <2>8. shown' \in [Tab -> Account \union {None}]
        BY <1>3, <2>1 DEF MeSays
    <2>9. tabPinned' \in [Tab -> BOOLEAN]
        BY <1>3 DEF MeSays
    <2> QED
        BY <1>3, <2>5, <2>6, <2>7, <2>8, <2>9 DEF MeSays, hostVars
<1>4. ASSUME TabMinted(t) PROVE Inv'
    <2>1. /\ task' \in [Tab \X Slots -> Task]
          /\ \A x \in Tab \X Slots : GoodTask(task'[x])
        BY <1>4, <1>s, IdleGood, BecomesGood DEF TabMinted
    <2>2. /\ pin' \in [Tab -> Pin \union {None}]
          /\ \A u \in Tab : GoodPin(pin'[u])
        BY <1>4, <1>s, <1>p DEF TabMinted, Answered
    <2> QED
        BY <1>4, <2>1, <2>2 DEF TabMinted, hostVars
<1>5. ASSUME NEW k \in Slots, HintMinted(t, k) PROVE Inv'
    <2>1. /\ pin' \in [Tab -> Pin \union {None}]
          /\ \A u \in Tab : GoodPin(pin'[u])
        BY <1>5, <1>p DEF HintMinted, Answered
    <2>2. /\ task' \in [Tab \X Slots -> Task]
          /\ \A x \in Tab \X Slots : GoodTask(task'[x])
        BY <1>5, <2>1, <1>q, BecomesGood DEF HintMinted
    <2> QED
        BY <1>5, <2>1, <2>2 DEF HintMinted, hostVars
<1>6. ASSUME NEW k \in Slots, Switched(t, k) PROVE Inv'
    <2>1. /\ pin' \in [Tab -> Pin \union {None}]
          /\ \A u \in Tab : GoodPin(pin'[u])
        BY <1>6, <1>p DEF Switched, Answered
    <2>2. /\ task' \in [Tab \X Slots -> Task]
          /\ \A x \in Tab \X Slots : GoodTask(task'[x])
        BY <1>6, <2>1, <1>q, BecomesGood DEF Switched
    <2> QED
        BY <1>6, <2>1, <2>2 DEF Switched, hostVars
<1>7. ASSUME NEW k \in Slots, DisplaySet(t, k) PROVE Inv'
    <2>1. /\ pin' \in [Tab -> Pin \union {None}]
          /\ \A u \in Tab : GoodPin(pin'[u])
        BY <1>7, <1>p DEF DisplaySet, Answered, GoodPin
    <2>2. /\ task' \in [Tab \X Slots -> Task]
          /\ \A x \in Tab \X Slots : GoodTask(task'[x])
        BY <1>7, <2>1, <1>q, BecomesGood DEF DisplaySet
    <2> QED
        BY <1>7, <2>1, <2>2 DEF DisplaySet, hostVars
<1>8. ASSUME NEW k \in Slots, SignedOut(t, k) PROVE Inv'
    <2>1. /\ task' \in [Tab \X Slots -> Task]
          /\ \A x \in Tab \X Slots : GoodTask(task'[x])
        <3>1. Becomes(t, k, Me(None)) \/ Becomes(t, k, Idle)
            BY <1>8 DEF SignedOut
        <3> QED
            BY <3>1, <1>q, <1>n, IdleGood, BecomesGood
    <2> QED
        BY <1>8, <2>1, <1>n DEF SignedOut, hostVars
<1>9. ASSUME NEW k \in Slots, MeFails(t, k) PROVE Inv'
    <2>1. /\ task' \in [Tab \X Slots -> Task]
          /\ \A x \in Tab \X Slots : GoodTask(task'[x])
        BY <1>9, IdleGood, BecomesGood DEF MeFails
    <2> QED
        BY <1>9, <2>1 DEF MeFails, hostVars, GoodPin
<1>10. ASSUME NEW k \in Slots, RequestFails(t, k) PROVE Inv'
    <2>1. GoodTask(Me(pin[t]))
        BY <1>q
    <2>2. /\ task' \in [Tab \X Slots -> Task]
          /\ \A x \in Tab \X Slots : GoodTask(task'[x])
        BY <1>10, <2>1, IdleGood, BecomesGood DEF RequestFails
    <2> QED
        BY <1>10, <2>2 DEF RequestFails, hostVars, pageVars, GoodPin
<1> QED
    BY <1>1, <1>2, <1>3, <1>4, <1>5, <1>6, <1>7, <1>8, <1>9, <1>10 DEF Page, Resumes

(* A step that changes nothing keeps the invariant. *)
LEMMA StutterInv == Inv /\ UNCHANGED vars => Inv'
BY DEF Inv, TypeOK, vars, hostVars, pageVars, GoodPin, GoodTask, GoodAnswer

(* The invariant holds in every reachable state. *)
THEOREM Invariance == Spec => []Inv
<1>1. Inv /\ [Next]_vars => Inv'
    BY HostInv, PersonInv, PageInv, StutterInv DEF Next
<1> QED
    BY <1>1, InitInv, PTL DEF Spec

-----------------------------------------------------------------------------
(* Every variable keeps its type, for any tabs, accounts and bounds. *)
THEOREM TypeCorrect == Spec => []TypeOK
<1>1. Inv => TypeOK
    BY DEF Inv
<1> QED
    BY <1>1, Invariance, PTL

(* A pin always holds a token of the account it names, however many tabs   *)
(* and operations race.                                                    *)
THEOREM PinsNameTheirAccount == Spec => []PinNamesItsAccount
<1>1. Inv => PinNamesItsAccount
    BY DEF Inv, GoodPin, PinNamesItsAccount
<1> QED
    BY <1>1, Invariance, PTL

-----------------------------------------------------------------------------
(* While a tab starts no operation before the last one has ended, what it  *)
(* sends is the pin it still has.  The invariant behind that: one          *)
(* operation at a time, and what each of them may rest on.                 *)

Sending == {"me", "meAgain", "switch", "display", "signOutAll", "signOutCurrent"}

KindOf(t, k) == task[<<t, k>>].kind

(* An operation sends the tab's pin, and is answered for that pin's        *)
(* account; pinThisTab's, which is the pinner's, asks for a pin of the     *)
(* account the tab shows while it has none.                                *)
OperationOK(t, k) ==
    LET r == task[<<t, k>>] IN
    /\ r.kind = "tab" => k = Pinner
    /\ k = Pinner => r.kind \in {"idle", "tab"}
    /\ r.kind \in Sending => r.pin = pin[t]
    /\ r.kind = "meAgain" => r.pin = None
    /\ r.kind = "me" /\ r.pin # None /\ honours /\ r.answer # None /\ r.answer.ok =>
          r.answer.account = r.pin.did
    /\ r.kind = "tab" =>
          status[t] = "authenticated" /\ pin[t] = None /\ r.want = shown[t]

(* What the page shows is its pin's account, or, showing nobody, it has    *)
(* none.                                                                   *)
ShowsItsPin(t) ==
    /\ status[t] = "authenticated" /\ pin[t] # None => shown[t] = pin[t].did
    /\ status[t] = "anonymous" => pin[t] = None

Resolving(t) == \E k \in Slots : KindOf(t, k) \in {"me", "meAgain"}

SerialTab(t) ==
    /\ \A j, k \in Slots : KindOf(t, j) # "idle" /\ KindOf(t, k) # "idle" => j = k
    /\ \A k \in Slots : OperationOK(t, k)
    /\ Resolving(t) \/ ShowsItsPin(t)

SerialInv == \A t \in Tab : SerialTab(t)

LEMMA InitSerial == Init => SerialInv
<1> SUFFICES ASSUME Init, NEW t \in Tab PROVE SerialTab(t)
    BY DEF SerialInv
<1>1. \A k \in Slots : task[<<t, k>>] = Idle
    BY DEF Init
<1> QED
    BY <1>1 DEF Init, SerialTab, OperationOK, ShowsItsPin, KindOf, Idle, Sending

(* A step of one tab's one operation leaves the other tabs as they were.   *)
LEMMA OneOperation ==
    ASSUME SerialInv, NEW t \in Tab, NEW k \in Slots, honours' = honours,
           \A u \in Tab \ {t} : /\ pin'[u] = pin[u] /\ shown'[u] = shown[u]
                                /\ status'[u] = status[u]
                                /\ \A j \in Slots : task'[<<u, j>>] = task[<<u, j>>],
           \A j \in Slots \ {k} : task'[<<t, j>>].kind = "idle",
           OperationOK(t, k)',
           KindOf(t, k)' \in {"me", "meAgain"} \/ ShowsItsPin(t)'
    PROVE  SerialInv'
<1>1. SerialTab(t)'
    <2>1. \A j \in Slots \ {k} : OperationOK(t, j)' \/ j = Pinner
        BY DEF OperationOK, Sending
    <2>2. \A j \in Slots \ {k} : OperationOK(t, j)'
        BY <2>1 DEF OperationOK, Sending
    <2> QED
        BY <2>2 DEF SerialTab, KindOf, Resolving
<1>2. ASSUME NEW u \in Tab \ {t} PROVE SerialTab(u)'
    <2>1. SerialTab(u)
        BY DEF SerialInv
    <2> QED
        BY <2>1 DEF SerialTab, KindOf, OperationOK, Resolving, ShowsItsPin
<1> QED
    BY <1>1, <1>2 DEF SerialInv

(* The same of one that is under way, or of one that a quiet tab starts.   *)
LEMMA NextOperation ==
    ASSUME SerialInv, task \in [Tab \X Slots -> Task],
           NEW t \in Tab, NEW k \in Slots, NEW r, KindOf(t, k) # "idle" \/ Quiet(t),
           Becomes(t, k, r), honours' = honours,
           \A u \in Tab \ {t} : /\ pin'[u] = pin[u] /\ shown'[u] = shown[u]
                                /\ status'[u] = status[u],
           OperationOK(t, k)',
           r.kind \in {"me", "meAgain"} \/ ShowsItsPin(t)'
    PROVE  SerialInv'
<1>1. \A j \in Slots \ {k} : task[<<t, j>>].kind = "idle"
    BY DEF SerialInv, SerialTab, KindOf, Quiet
<1>2. /\ task'[<<t, k>>] = r
      /\ \A j \in Slots \ {k} : task'[<<t, j>>] = task[<<t, j>>]
      /\ \A u \in Tab \ {t}, j \in Slots : task'[<<u, j>>] = task[<<u, j>>]
    BY DEF Becomes
<1> QED
    BY <1>1, <1>2, OneOperation DEF KindOf

-----------------------------------------------------------------------------
(* The host answers a request for the account of the pin it carries.       *)
LEMMA HostSerial ==
    ASSUME Inv, SerialInv, Host
    PROVE  SerialInv'
<1>0. task \in [Tab \X Slots -> Task]
    BY DEF Inv, TypeOK
<1>1. ASSUME UNCHANGED <<honours, pageVars, task>> PROVE SerialInv'
    BY <1>1 DEF pageVars, SerialInv, SerialTab, KindOf, OperationOK, Resolving, ShowsItsPin
<1>2. ASSUME NEW t \in Tab, NEW k \in Slots, NEW a, KindOf(t, k) # "idle", Replies(t, k, a),
             LET r == task[<<t, k>>] IN
             r.kind = "me" /\ r.pin # None /\ honours /\ a # None /\ a.ok =>
                 a.account = r.pin.did
      PROVE  SerialInv'
    <2> DEFINE r == task[<<t, k>>]
    <2>1. OperationOK(t, k) /\ (Resolving(t) \/ ShowsItsPin(t)) /\ r \in Task
        BY <1>0 DEF SerialInv, SerialTab
    <2>2. /\ task'[<<t, k>>] = [r EXCEPT !.answer = a]
          /\ UNCHANGED <<honours, pin, shown, status>>
        BY <1>0, <1>2 DEF Replies, Becomes, pageVars
    <2>3. /\ task'[<<t, k>>].kind = r.kind /\ task'[<<t, k>>].pin = r.pin
          /\ task'[<<t, k>>].want = r.want /\ task'[<<t, k>>].answer = a
        BY <2>1, <2>2 DEF Task
    <2>4. OperationOK(t, k)'
        BY <1>2, <2>1, <2>2, <2>3 DEF OperationOK
    <2>5. r.kind \in {"me", "meAgain"} \/ ShowsItsPin(t)'
        <3>1. \A j \in Slots : KindOf(t, j) # "idle" => j = k
            BY <1>2 DEF SerialInv, SerialTab
        <3>2. Resolving(t) => r.kind \in {"me", "meAgain"}
            BY <3>1 DEF Resolving, KindOf
        <3> QED
            BY <2>1, <2>2, <3>2 DEF ShowsItsPin
    <2> QED
        BY <1>0, <1>2, <2>2, <2>3, <2>4, <2>5, NextOperation DEF Replies
<1>3. ASSUME NEW t \in Tab, NEW k \in Slots, HostReads(t, k) PROVE SerialInv'
    <2> DEFINE r == task[<<t, k>>]
               a == For(Presented(r))
    <2>1. GoodTask(r)
        BY DEF Inv
    <2>2. r.pin # None /\ honours /\ a.ok => a.account = r.pin.did
        BY <2>1 DEF GoodTask, GoodPin, Presented, For, Yes, No
    <2> QED
        BY <1>2, <1>3, <2>2 DEF HostReads, Asks, KindOf
<1>4. ASSUME NEW t \in Tab, NEW k \in Slots,
             HostMints(t, k) \/ HostSwitches(t, k) \/ HostSignsOut(t, k)
      PROVE  SerialInv'
    BY <1>2, <1>4 DEF HostMints, HostSwitches, HostSignsOut, Asks, KindOf
<1> QED
    BY <1>1, <1>3, <1>4 DEF Host, SignIn, EndSession

(* A page loads with one operation, and a quiet tab starts one.            *)
LEMMA PersonSerial ==
    ASSUME Overlap = FALSE, Inv, SerialInv, NEW t \in Tab, Person(t)
    PROVE  SerialInv'
<1>0. /\ task \in [Tab \X Slots -> Task] /\ pin \in [Tab -> Pin \union {None}]
      /\ shown \in [Tab -> Account \union {None}] /\ DOMAIN status = Tab
      /\ Slot \subseteq Slots /\ Pinner \notin Slot
    BY TabAssumption DEF Inv, TypeOK, Slots
<1>1. ASSUME NEW adopt \in BOOLEAN, NEW hint \in Hint \union {None}, Load(t, adopt, hint)
      PROVE  SerialInv'
    <2>1. PICK k \in Slot :
            task' = [x \in Tab \X Slots |->
                     IF x = <<t, k>>
                     THEN IF hint # None /\ ~(pin'[t] # None /\ pin'[t].did = hint)
                          THEN Request("hint", None, hint) ELSE Me(pin'[t])
                     ELSE IF x[1] = t THEN Idle ELSE task[x]]
        BY <1>1 DEF Load
    <2>2. /\ task'[<<t, k>>] \in {Request("hint", None, hint), Me(pin'[t])}
          /\ \A j \in Slots \ {k} : task'[<<t, j>>].kind = "idle"
          /\ \A u \in Tab \ {t}, j \in Slots : task'[<<u, j>>] = task[<<u, j>>]
        BY <1>0, <2>1 DEF Idle
    <2>3. status'[t] = "loading" /\ honours' = honours
        BY <1>0, <1>1 DEF Load, hostVars
    <2>4. \A u \in Tab \ {t} : /\ pin'[u] = pin[u] /\ shown'[u] = shown[u]
                               /\ status'[u] = status[u]
        BY <1>0, <1>1 DEF Load
    <2>5. OperationOK(t, k)'
        BY <1>0, <2>2 DEF OperationOK, Request, Me, Sending
    <2>6. ShowsItsPin(t)'
        BY <2>3 DEF ShowsItsPin
    <2> QED
        BY <1>0, <2>2, <2>3, <2>4, <2>5, <2>6, OneOperation
<1>2. ASSUME NEW k \in Slot, NEW kind \in Sending \ {"meAgain"}, NEW a,
             Starts(t, k, Request(kind, pin[t], a))
      PROVE  SerialInv'
    <2> DEFINE r == Request(kind, pin[t], a)
    <2>1. Quiet(t) /\ Becomes(t, k, r) /\ UNCHANGED <<honours, pin, shown, status>>
        BY <1>2 DEF Starts, MayStart, hostVars, pageVars
    <2>2. task'[<<t, k>>] = r
        BY <1>0, <2>1 DEF Becomes
    <2>3. OperationOK(t, k)'
        BY <1>0, <2>1, <2>2 DEF OperationOK, Request, Sending
    <2>4. ShowsItsPin(t)'
        BY <2>1 DEF SerialInv, SerialTab, Quiet, Resolving, KindOf, ShowsItsPin
    <2> QED
        BY <1>0, <2>1, <2>3, <2>4, NextOperation
<1>3. ASSUME NEW k \in Slot, Refresh(t, k) PROVE SerialInv'
    BY <1>2, <1>3 DEF Refresh, Me, Sending
<1>4. ASSUME NEW k \in Slot, SetDisplay(t, k) PROVE SerialInv'
    BY <1>2, <1>4 DEF SetDisplay, Sending
<1>5. ASSUME NEW k \in Slot, NEW a \in Account, Switch(t, k, a) PROVE SerialInv'
    BY <1>2, <1>5 DEF Switch, Sending
<1>6. ASSUME NEW k \in Slot, NEW kind \in {"signOutAll", "signOutCurrent"},
             SignOut(t, k, kind)
      PROVE  SerialInv'
    BY <1>2, <1>6 DEF SignOut, Sending
<1> QED
    BY <1>1, <1>3, <1>4, <1>5, <1>6 DEF Person

-----------------------------------------------------------------------------
(* Resuming keeps it: an answer is read into the pin and the page at once, *)
(* and the /me that follows sends the pin just written.                    *)
LEMMA PageSerial ==
    ASSUME Inv, SerialInv, NEW t \in Tab, Page(t)
    PROVE  SerialInv'
<1> DEFINE R(k) == task[<<t, k>>]
<1>0. /\ task \in [Tab \X Slots -> Task] /\ pin \in [Tab -> Pin \union {None}]
      /\ shown \in [Tab -> Account \union {None}] /\ DOMAIN status = Tab
      /\ Pinner \in Slots
    BY DEF Inv, TypeOK, Slots
<1>a. \A k \in Slots : OperationOK(t, k)
    BY DEF SerialInv, SerialTab
<1>b. ASSUME NEW k \in Slots, KindOf(t, k) # "idle"
      PROVE  /\ KindOf(t, k) \in {"me", "meAgain"} \/ ShowsItsPin(t)
             /\ \A j \in Slots \ {k} : KindOf(t, j) = "idle"
    BY <1>b DEF SerialInv, SerialTab, Resolving
<1>m. ASSUME NEW k \in Slots, k # Pinner, KindOf(t, k) # "idle", honours' = honours,
             \A u \in Tab \ {t} : /\ pin'[u] = pin[u] /\ shown'[u] = shown[u]
                                  /\ status'[u] = status[u],
             \/ Becomes(t, k, Me(pin'[t]))
             \/ pin'[t] = None /\ Becomes(t, k, Request("meAgain", None, None))
      PROVE  SerialInv'
    <2>1. PICK r \in {Me(pin'[t]), Request("meAgain", pin'[t], None)} :
             Becomes(t, k, r) /\ (r.kind = "meAgain" => pin'[t] = None)
        BY <1>m DEF Me, Request
    <2>2. task'[<<t, k>>] = r
        BY <1>0, <2>1 DEF Becomes
    <2>3. OperationOK(t, k)'
        BY <1>m, <2>1, <2>2 DEF OperationOK, Request, Me, Sending
    <2>4. r.kind \in {"me", "meAgain"}
        BY DEF Me, Request
    <2> QED
        BY <1>0, <1>m, <2>1, <2>3, <2>4, NextOperation
<1>i. ASSUME NEW k \in Slots, KindOf(t, k) # "idle", honours' = honours,
             \A u \in Tab \ {t} : /\ pin'[u] = pin[u] /\ shown'[u] = shown[u]
                                  /\ status'[u] = status[u],
             Becomes(t, k, Idle), ShowsItsPin(t)'
      PROVE  SerialInv'
    <2>1. task'[<<t, k>>] = Idle
        BY <1>0, <1>i DEF Becomes
    <2>2. OperationOK(t, k)'
        BY <2>1 DEF OperationOK, Idle, Sending
    <2> QED
        BY <1>0, <1>i, <2>2, NextOperation
<1>k. ASSUME NEW k \in Slots, KindOf(t, k) \notin {"idle", "tab"} PROVE k # Pinner
    BY <1>a, <1>k DEF OperationOK, KindOf
<1>1. ASSUME NEW k \in Slots, MeRejectsPin(t, k) PROVE SerialInv'
    <2>1. /\ KindOf(t, k) = "me" /\ pin'[t] = None /\ honours' = honours
          /\ \A u \in Tab \ {t} : /\ pin'[u] = pin[u] /\ shown'[u] = shown[u]
                                  /\ status'[u] = status[u]
        BY <1>0, <1>1 DEF MeRejectsPin, Answered, KindOf, hostVars
    <2> QED
        BY <1>1, <1>k, <1>m, <2>1 DEF MeRejectsPin
<1>2. ASSUME NEW k \in Slots, MeSaysNobody(t, k) PROVE SerialInv'
    <2>1. /\ KindOf(t, k) # "idle" /\ honours' = honours
          /\ \A u \in Tab \ {t} : /\ pin'[u] = pin[u] /\ shown'[u] = shown[u]
                                  /\ status'[u] = status[u]
        BY <1>0, <1>2 DEF MeSaysNobody, Answered, KindOf, hostVars
    <2>2. pin'[t] = None
        BY <1>2, <1>a DEF MeSaysNobody, Answered, OperationOK, Sending
    <2>3. ShowsItsPin(t)'
        BY <1>0, <1>2, <2>2 DEF MeSaysNobody, ShowsItsPin
    <2> QED
        BY <1>2, <1>i, <2>1, <2>3 DEF MeSaysNobody
<1>3. ASSUME NEW k \in Slots, MeSays(t, k) PROVE SerialInv'
    <2> DEFINE r == task[<<t, k>>]
               kept == r.pin # None /\ r.pin.did = r.answer.account
               asks == ~kept /\ pin'[t] = None /\ task[<<t, Pinner>>].kind = "idle"
               next == Request("tab", None, r.answer.account)
    <2>1. /\ r.kind \in {"me", "meAgain"} /\ honours' = honours
          /\ \A u \in Tab \ {t} : /\ pin'[u] = pin[u] /\ shown'[u] = shown[u]
                                  /\ status'[u] = status[u]
          /\ shown'[t] = r.answer.account /\ status'[t] = "authenticated"
          /\ pin'[t] = IF r.pin # None /\ ~kept THEN None ELSE pin[t]
        BY <1>0, <1>3 DEF MeSays, Answered, hostVars
    <2>2. k # Pinner /\ r.pin = pin[t]
        BY <1>a, <1>k, <2>1 DEF OperationOK, Sending, KindOf
    <2>3. \A j \in Slots \ {k} : task[<<t, j>>].kind = "idle"
        BY <1>b, <2>1 DEF KindOf
    <2>4. /\ task'[<<t, k>>] = Idle
          /\ task'[<<t, Pinner>>] = IF asks THEN next ELSE task[<<t, Pinner>>]
          /\ \A j \in Slots \ {k, Pinner} : task'[<<t, j>>] = task[<<t, j>>]
          /\ \A u \in Tab \ {t}, j \in Slots : task'[<<u, j>>] = task[<<u, j>>]
        BY <1>0, <1>3, <2>2 DEF MeSays
    <2>5. ShowsItsPin(t)'
        BY <2>1, <2>2 DEF ShowsItsPin
    <2>6. CASE asks
        <3>1. OperationOK(t, Pinner)'
            BY <2>1, <2>4, <2>6 DEF OperationOK, Request, Sending
        <3>2. \A j \in Slots \ {Pinner} : task'[<<t, j>>].kind = "idle"
            BY <2>3, <2>4 DEF Idle
        <3> QED
            BY <1>0, <2>1, <2>4, <2>5, <3>1, <3>2, OneOperation
    <2>7. CASE ~asks
        <3>1. OperationOK(t, k)'
            BY <2>4, <2>2 DEF OperationOK, Idle, Sending
        <3>2. \A j \in Slots \ {k} : task'[<<t, j>>].kind = "idle"
            BY <2>3, <2>4, <2>7, <1>0
        <3> QED
            BY <1>0, <2>1, <2>4, <2>5, <3>1, <3>2, OneOperation
    <2> QED
        BY <2>6, <2>7
<1>4. ASSUME TabMinted(t) PROVE SerialInv'
    <2> DEFINE r == task[<<t, Pinner>>]
    <2>1. /\ KindOf(t, Pinner) = "tab" /\ honours' = honours
          /\ UNCHANGED <<shown, status>>
          /\ \A u \in Tab \ {t} : pin'[u] = pin[u]
          /\ pin'[t] # pin[t] => pin'[t].did = r.want
        BY <1>0, <1>4 DEF TabMinted, Answered, KindOf, hostVars
    <2>2. status[t] = "authenticated" /\ pin[t] = None /\ r.want = shown[t]
        BY <1>0, <1>a, <2>1 DEF OperationOK, KindOf
    <2>3. ShowsItsPin(t)'
        BY <2>1, <2>2 DEF ShowsItsPin
    <2> QED
        BY <1>0, <1>4, <1>i, <2>1, <2>3 DEF TabMinted
<1>5. ASSUME NEW k \in Slots, HintMinted(t, k) \/ Switched(t, k) \/ DisplaySet(t, k)
      PROVE  SerialInv'
    <2>1. /\ KindOf(t, k) \notin {"idle", "tab"} /\ honours' = honours
          /\ \A u \in Tab \ {t} : /\ pin'[u] = pin[u] /\ shown'[u] = shown[u]
                                  /\ status'[u] = status[u]
          /\ Becomes(t, k, Me(pin'[t]))
        BY <1>0, <1>5 DEF HintMinted, Switched, DisplaySet, Answered, KindOf, hostVars
    <2> QED
        BY <1>k, <1>m, <2>1
<1>6. ASSUME NEW k \in Slots, SignedOut(t, k) PROVE SerialInv'
    <2>1. /\ KindOf(t, k) \notin {"idle", "tab"} /\ honours' = honours /\ pin'[t] = None
          /\ \A u \in Tab \ {t} : /\ pin'[u] = pin[u] /\ shown'[u] = shown[u]
                                  /\ status'[u] = status[u]
          /\ Becomes(t, k, Me(None)) \/ Becomes(t, k, Idle)
        BY <1>0, <1>6 DEF SignedOut, Answered, KindOf, hostVars
    <2>2. ShowsItsPin(t)'
        BY <1>0, <1>b, <1>6, <2>1 DEF SignedOut, ShowsItsPin
    <2> QED
        BY <1>k, <1>m, <1>i, <2>1, <2>2
<1>7. ASSUME NEW k \in Slots, MeFails(t, k) PROVE SerialInv'
    <2>1. /\ KindOf(t, k) # "idle" /\ honours' = honours /\ status'[t] = "error"
          /\ \A u \in Tab \ {t} : /\ pin'[u] = pin[u] /\ shown'[u] = shown[u]
                                  /\ status'[u] = status[u]
        BY <1>0, <1>7 DEF MeFails, KindOf, hostVars
    <2>2. ShowsItsPin(t)'
        BY <2>1 DEF ShowsItsPin
    <2> QED
        BY <1>7, <1>i, <2>1, <2>2 DEF MeFails
<1>8. ASSUME NEW k \in Slots, RequestFails(t, k) PROVE SerialInv'
    <2>1. /\ KindOf(t, k) \notin {"idle", "me", "meAgain"} /\ honours' = honours
          /\ UNCHANGED <<pin, shown, status>>
        BY <1>8 DEF RequestFails, KindOf, hostVars, pageVars
    <2>2. CASE KindOf(t, k) = "hint"
        BY <1>8, <1>k, <1>m, <2>1, <2>2 DEF RequestFails, KindOf
    <2>3. CASE KindOf(t, k) # "hint"
        <3>1. Becomes(t, k, Idle)
            BY <1>8, <2>3 DEF RequestFails, KindOf
        <3>2. ShowsItsPin(t)'
            BY <1>b, <2>1 DEF ShowsItsPin
        <3> QED
            BY <1>i, <2>1, <3>1, <3>2
    <2> QED
        BY <2>2, <2>3
<1> QED
    BY <1>1, <1>2, <1>3, <1>4, <1>5, <1>6, <1>7, <1>8 DEF Page, Resumes

LEMMA StutterSerial == SerialInv /\ UNCHANGED vars => SerialInv'
BY DEF vars, hostVars, pageVars, SerialInv, SerialTab, KindOf, OperationOK, Resolving,
       ShowsItsPin

(* With one operation of a tab at a time, whichever tabs interleave and    *)
(* whatever the host answers, both invariants hold.                        *)
THEOREM SerialInvariance ==
    ASSUME Overlap = FALSE
    PROVE  Spec => [](Inv /\ SerialInv)
<1>1. Inv /\ SerialInv /\ [Next]_vars => (Inv /\ SerialInv)'
    BY HostInv, PersonInv, PageInv, StutterInv, HostSerial, PersonSerial, PageSerial,
       StutterSerial DEF Next
<1> QED
    BY <1>1, InitInv, InitSerial, PTL DEF Spec

(* A tab with no operation under way is not waiting for /me. *)
LEMMA QuietShowsItsPin ==
    ASSUME SerialInv, NEW t \in Tab, Quiet(t)
    PROVE  ShowsItsPin(t)
BY DEF SerialInv, SerialTab, Resolving, Quiet, KindOf

(* A quiet page that shows an account beside a pin shows the pin's: what   *)
(* its requests act as.  When operations of a tab overlap it is false: TLC *)
(* finds a pin that arrives after a later /me.                             *)
THEOREM PinnedTabsShowTheirAccount ==
    ASSUME Overlap = FALSE
    PROVE  Spec => []PinnedTabShowsItsAccount
<1>1. SerialInv => PinnedTabShowsItsAccount
    BY QuietShowsItsPin DEF ShowsItsPin, PinnedTabShowsItsAccount
<1> QED
    BY <1>1, SerialInvariance, PTL

(* A quiet page that shows nobody has no pin left. *)
THEOREM PinsEndWithSignOut ==
    ASSUME Overlap = FALSE
    PROVE  Spec => []PinEndsWithSignOut
<1>1. SerialInv => PinEndsWithSignOut
    BY QuietShowsItsPin DEF ShowsItsPin, PinEndsWithSignOut
<1> QED
    BY <1>1, SerialInvariance, PTL

(* No step of anybody turns a page that shows its live pin's account into  *)
(* another account's: only the answer to a /me does, which the host gave   *)
(* for the pin the tab has.                                                *)
THEOREM NoTabEverYanked ==
    ASSUME Overlap = FALSE
    PROVE  Spec => NoTabIsYanked
<1> DEFINE Stays == \A t \in Tab :
                 honours /\ pin[t] # None /\ pin[t].token \in live
                 /\ shown[t] = pin[t].did => shown'[t] \in {shown[t], None}
<1>1. ASSUME Inv, SerialInv, [Next]_vars PROVE [Stays]_vars
    <2> SUFFICES ASSUME NEW u \in Tab, honours, pin[u] # None, shown[u] = pin[u].did
                 PROVE  shown'[u] \in {shown[u], None}
        OBVIOUS
    <2>0. shown \in [Tab -> Account \union {None}]
        BY <1>1 DEF Inv, TypeOK
    <2>1. ASSUME shown' = shown PROVE shown'[u] \in {shown[u], None}
        BY <2>1
    <2>2. CASE UNCHANGED vars
        BY <2>1, <2>2 DEF vars, pageVars
    <2>3. CASE Host
        BY <2>1, <2>3 DEF Host, SignIn, EndSession, HostReads, HostMints, HostSwitches,
                          HostSignsOut, Replies, pageVars
    <2>4. ASSUME NEW t \in Tab, NEW k \in Slots, MeSays(t, k)
          PROVE  shown'[u] \in {shown[u], None}
        <3> DEFINE r == task[<<t, k>>]
        <3>1. /\ r.kind \in {"me", "meAgain"} /\ r.answer # None /\ r.answer.ok
              /\ shown' = [shown EXCEPT ![t] = r.answer.account]
            BY <2>4 DEF MeSays, Answered
        <3>2. OperationOK(t, k)
            BY <1>1 DEF SerialInv, SerialTab
        <3>3. t = u => r.pin = pin[u] /\ r.pin # None
            BY <3>1, <3>2 DEF OperationOK, Sending
        <3>4. t = u => r.answer.account = shown[u]
            BY <3>1, <3>2, <3>3 DEF OperationOK
        <3> QED
            BY <2>0, <3>1, <3>4
    <2>5. ASSUME NEW t \in Tab, NEW k \in Slots, Resumes(t, k) \/ MeFails(t, k)
                                                \/ RequestFails(t, k),
                 ~MeSays(t, k)
          PROVE  shown'[u] \in {shown[u], None}
        BY <2>0, <2>5 DEF Resumes, MeRejectsPin, MeSaysNobody, HintMinted, Switched,
                          DisplaySet, SignedOut, MeFails, RequestFails, pageVars
    <2>6. ASSUME NEW t \in Tab, Person(t) PROVE shown'[u] \in {shown[u], None}
        BY <2>0, <2>6 DEF Person, Load, Refresh, SetDisplay, Switch, SignOut, Starts, pageVars
    <2>7. ASSUME NEW t \in Tab, TabMinted(t) PROVE shown'[u] \in {shown[u], None}
        BY <2>1, <2>7 DEF TabMinted
    <2> QED
        BY <1>1, <2>2, <2>3, <2>4, <2>5, <2>6, <2>7 DEF Next, Page
<1>2. NoTabIsYanked <=> [][Stays]_vars
    BY PTL DEF NoTabIsYanked
<1> QED
    BY <1>1, <1>2, SerialInvariance, PTL DEF Spec
=============================================================================
