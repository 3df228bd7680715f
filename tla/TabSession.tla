----------------------------- MODULE TabSession -----------------------------
(***************************************************************************)
(* Which account each tab of one browser acts as: the provider of          *)
(* auth-client/src/provider.tsx and the pin of auth-client's               *)
(* tab-session.ts.                                                         *)
(*                                                                         *)
(* The browser holds one session cookie, shared by every tab.  A tab may   *)
(* pin itself to an account by keeping that account's session token in its *)
(* sessionStorage and sending it along.  Every operation of the provider   *)
(* spans one or two requests; a task is one such operation of one tab,     *)
(* waiting for the host's answer, and an action of the page is what runs   *)
(* when an answer is there, up to the next request.                        *)
(*                                                                         *)
(* The roster of other accounts, the display names and the fragments that  *)
(* only restore a scroll position are left out.                            *)
(***************************************************************************)
EXTENDS Naturals, FiniteSets

CONSTANTS
    Tab,       \* the browser's tabs
    Account,   \* the person's accounts (did:oc)
    Token,     \* session tokens the host may issue
    Owner,     \* the account of a token
    Slot,      \* a tab's operations under way at once
    Pinner,    \* the slot of pinThisTab, which no caller awaits
    Hint,      \* accounts a link to a tab may name (#oc-as)
    Overlap,   \* whether a tab starts an operation while another runs
    MaxLoads,  \* bound: pages loaded in the tabs
    None       \* no pin, token, account or answer

ASSUME TabAssumption ==
    /\ Owner \in [Token -> Account]
    /\ Pinner \notin Slot
    /\ Hint \subseteq Account
    /\ Overlap \in BOOLEAN
    /\ MaxLoads \in Nat

Slots == Slot \union {Pinner}
Pin   == [token : Token, did : Account]

ASSUME NoneAssumption == None \notin Pin /\ None \notin Token /\ None \notin Account

Kind   == {"idle", "hint", "me", "meAgain", "tab", "switch", "display",
           "signOutAll", "signOutCurrent"}
Answer == [ok : BOOLEAN, token : Token \union {None}, account : Account \union {None}]
Task   == [kind : Kind, pin : Pin \union {None}, want : Account \union {None},
           answer : Answer \union {None}]

VARIABLES
    honours,    \* whether the host and the site read the pin's header
    cookie,     \* the browser's session token
    live,       \* the tokens of the browser's roster that have not ended
    issued,     \* every token issued
    pin,        \* a tab's sessionStorage
    shown,      \* account: what the page shows
    status,     \* status: "loading", "authenticated", "anonymous", "error"
    tabPinned,  \* tabPinned: whether the page says it is pinned
    task,       \* the operations under way
    loads       \* pages loaded so far

hostVars == <<honours, cookie, live, issued>>
pageVars == <<pin, shown, status, tabPinned>>
vars == <<hostVars, pageVars, task, loads>>

Idle == [kind |-> "idle", pin |-> None, want |-> None, answer |-> None]
Request(kind, p, want) == [kind |-> kind, pin |-> p, want |-> want, answer |-> None]

(* Mutant of Me: the pin is not sent. *)
MeUnpinned(p) == Request("me", None, None)

(* refresh, up to its first request: it captures the pin it sends. *)
Me(p) == Request("me", p, None)

Becomes(t, k, x) == task' = [task EXCEPT ![<<t, k>>] = x]
Quiet(t) == \A k \in Slots : task[<<t, k>>].kind = "idle"

Init ==
    /\ honours \in BOOLEAN
    /\ cookie = None
    /\ live = {}
    /\ issued = {}
    /\ pin = [t \in Tab |-> None]
    /\ shown = [t \in Tab |-> None]
    /\ status = [t \in Tab |-> "unloaded"]
    /\ tabPinned = [t \in Tab |-> FALSE]
    /\ task = [x \in Tab \X Slots |-> Idle]
    /\ loads = 0

-----------------------------------------------------------------------------
(* The auth host and the site's own /me, which read the same tokens. *)

(* A sign-in, in a page of the host: the account's new session replaces    *)
(* its old one and becomes the browser's default.                          *)
SignIn(tk) ==
    /\ tk \notin issued
    /\ issued' = issued \union {tk}
    /\ live' = {l \in live : Owner[l] # Owner[tk]} \union {tk}
    /\ cookie' = tk
    /\ UNCHANGED <<honours, pageVars, task, loads>>

(* A session ends elsewhere: it expired, or was revoked. *)
EndSession(tk) ==
    /\ tk \in live
    /\ live' = live \ {tk}
    /\ UNCHANGED <<honours, cookie, issued, pageVars, task, loads>>

(* The token a request presents: its pin's, or the cookie. *)
Presented(r) == IF r.pin # None /\ honours THEN r.pin.token ELSE cookie

Yes(tk) == [ok |-> TRUE, token |-> tk, account |-> Owner[tk]]
No      == [ok |-> FALSE, token |-> None, account |-> None]
For(tk) == IF tk \in live THEN Yes(tk) ELSE No

(* The live token of an account, or None. *)
TokenOf(a) == IF \E l \in live : Owner[l] = a
              THEN CHOOSE l \in live : Owner[l] = a ELSE None

Replies(t, k, a) ==
    /\ Becomes(t, k, [task[<<t, k>>] EXCEPT !.answer = a])
    /\ UNCHANGED <<honours, issued, pageVars, loads>>

Asks(t, k, kinds) == task[<<t, k>>].kind \in kinds /\ task[<<t, k>>].answer = None

(* /me and PATCH /account answer for the token presented. *)
HostReads(t, k) ==
    /\ Asks(t, k, {"me", "meAgain", "display"})
    /\ Replies(t, k, For(Presented(task[<<t, k>>])))
    /\ UNCHANGED <<cookie, live>>

(* POST /tab mints for the cookie's account, or for the one named if it is *)
(* in the roster; a host that predates naming mints for the cookie's.      *)
HostMints(t, k) ==
    /\ Asks(t, k, {"tab", "hint"})
    /\ Replies(t, k, IF cookie \notin live THEN No
                     ELSE IF task[<<t, k>>].kind = "hint" /\ honours
                     THEN For(TokenOf(task[<<t, k>>].want)) ELSE Yes(cookie))
    /\ UNCHANGED <<cookie, live>>

(* POST /switch makes a roster account the browser's default. *)
HostSwitches(t, k) ==
    /\ Asks(t, k, {"switch"})
    /\ Replies(t, k, For(TokenOf(task[<<t, k>>].want)))
    /\ cookie' = IF TokenOf(task[<<t, k>>].want) = None THEN cookie
                 ELSE TokenOf(task[<<t, k>>].want)
    /\ live' = live

(* POST /logout ends every session of the roster, or the one presented,    *)
(* whose place as the default a peer may take.                             *)
HostSignsOut(t, k) ==
    LET tk == Presented(task[<<t, k>>]) IN
    /\ Asks(t, k, {"signOutAll", "signOutCurrent"})
    /\ Replies(t, k, For(tk))
    /\ IF tk \notin live THEN UNCHANGED <<cookie, live>>
       ELSE IF task[<<t, k>>].kind = "signOutAll" THEN live' = {} /\ cookie' = None
       ELSE /\ live' = live \ {tk}
            /\ IF cookie # tk THEN cookie' = cookie
               ELSE cookie' \in IF live' = {} THEN {None} ELSE live'

-----------------------------------------------------------------------------
(* The page starts an operation. *)

(* A page loads in a tab: what ran in the old page is gone, the tab's pin  *)
(* is not.  The adoption marker drops the pin; a link may name an account, *)
(* which is then asked for before the first /me, unless it is the pin's.   *)
Load(t, adopt, hint) ==
    /\ loads < MaxLoads /\ loads' = loads + 1
    /\ adopt => hint = None
    /\ pin' = IF adopt THEN [pin EXCEPT ![t] = None] ELSE pin
    /\ shown' = [shown EXCEPT ![t] = None]
    /\ status' = [status EXCEPT ![t] = "loading"]
    /\ tabPinned' = [tabPinned EXCEPT ![t] = FALSE]
    /\ \E k \in Slot :
          task' = [x \in Tab \X Slots |->
                     IF x = <<t, k>>
                     THEN IF hint # None /\ ~(pin'[t] # None /\ pin'[t].did = hint)
                          THEN Request("hint", None, hint) ELSE Me(pin'[t])
                     ELSE IF x[1] = t THEN Idle ELSE task[x]]
    /\ UNCHANGED hostVars

MayStart(t, k) ==
    /\ status[t] \notin {"unloaded", "loading"}
    /\ task[<<t, k>>].kind = "idle"
    /\ Overlap \/ Quiet(t)

Starts(t, k, r) ==
    /\ MayStart(t, k)
    /\ Becomes(t, k, r)
    /\ UNCHANGED <<hostVars, pageVars, loads>>

(* refresh, switchAccount, setDisplayIdentity and trySignOut, each sending *)
(* the pin the tab has now.                                                *)
Refresh(t, k)       == Starts(t, k, Me(pin[t]))
Switch(t, k, a)     == Starts(t, k, Request("switch", pin[t], a))
SetDisplay(t, k)    == Starts(t, k, Request("display", pin[t], None))
SignOut(t, k, kind) == Starts(t, k, Request(kind, pin[t], None))

-----------------------------------------------------------------------------
(* The page resumes with an answer. *)

Answered(t, k, kinds) == task[<<t, k>>].kind \in kinds /\ task[<<t, k>>].answer # None

(* refresh after /me: 401 with a pin drops the pin and asks once more. *)
MeRejectsPin(t, k) ==
    /\ Answered(t, k, {"me"})
    /\ ~task[<<t, k>>].answer.ok /\ task[<<t, k>>].pin # None
    /\ pin' = [pin EXCEPT ![t] = None]
    /\ tabPinned' = [tabPinned EXCEPT ![t] = FALSE]
    /\ Becomes(t, k, Request("meAgain", None, None))
    /\ UNCHANGED <<hostVars, shown, status, loads>>

MeSaysNobody(t, k) ==
    /\ Answered(t, k, {"me", "meAgain"})
    /\ ~task[<<t, k>>].answer.ok /\ task[<<t, k>>].pin = None
    /\ shown' = [shown EXCEPT ![t] = None]
    /\ status' = [status EXCEPT ![t] = "anonymous"]
    /\ Becomes(t, k, Idle)
    /\ UNCHANGED <<hostVars, pin, tabPinned, loads>>

(* Mutant of MeSays: a pin the host did not honour is kept. *)
MeSaysKeepsPin(t, k) ==
    LET r == task[<<t, k>>] IN
    /\ Answered(t, k, {"me", "meAgain"}) /\ r.answer.ok
    /\ tabPinned' = [tabPinned EXCEPT ![t] = r.pin # None]
    /\ shown' = [shown EXCEPT ![t] = r.answer.account]
    /\ status' = [status EXCEPT ![t] = "authenticated"]
    /\ Becomes(t, k, Idle)
    /\ UNCHANGED <<hostVars, pin, loads>>

(* An account other than the pin's drops the pin; an unpinned tab then     *)
(* asks for a pin of the account it just resolved.                         *)
MeSays(t, k) ==
    LET r    == task[<<t, k>>]
        kept == r.pin # None /\ r.pin.did = r.answer.account
    IN
    /\ Answered(t, k, {"me", "meAgain"}) /\ r.answer.ok
    /\ pin' = IF r.pin # None /\ ~kept THEN [pin EXCEPT ![t] = None] ELSE pin
    /\ tabPinned' = [tabPinned EXCEPT ![t] = kept]
    /\ shown' = [shown EXCEPT ![t] = r.answer.account]
    /\ status' = [status EXCEPT ![t] = "authenticated"]
    /\ task' = [task EXCEPT
         ![<<t, k>>] = Idle,
         ![<<t, Pinner>>] = IF ~kept /\ pin'[t] = None /\ task[<<t, Pinner>>].kind = "idle"
                        THEN Request("tab", None, r.answer.account) ELSE @]
    /\ UNCHANGED <<hostVars, loads>>

(* Mutant of TabMinted: whatever the host minted becomes the pin. *)
TabMintedUnchecked(t) ==
    LET r == task[<<t, Pinner>>] IN
    /\ Answered(t, Pinner, {"tab"})
    /\ IF r.answer.ok
       THEN /\ pin' = [pin EXCEPT ![t] = [token |-> r.answer.token, did |-> r.want]]
            /\ tabPinned' = [tabPinned EXCEPT ![t] = TRUE]
       ELSE UNCHANGED <<pin, tabPinned>>
    /\ Becomes(t, Pinner, Idle)
    /\ UNCHANGED <<hostVars, shown, status, loads>>

(* pinThisTab after /tab: only a token minted for the account this tab     *)
(* resolved becomes its pin.                                               *)
TabMinted(t) ==
    LET r == task[<<t, Pinner>>] IN
    /\ Answered(t, Pinner, {"tab"})
    /\ IF r.answer.ok /\ r.answer.account = r.want
       THEN /\ pin' = [pin EXCEPT ![t] = [token |-> r.answer.token, did |-> r.want]]
            /\ tabPinned' = [tabPinned EXCEPT ![t] = TRUE]
       ELSE UNCHANGED <<pin, tabPinned>>
    /\ Becomes(t, Pinner, Idle)
    /\ UNCHANGED <<hostVars, shown, status, loads>>

(* consumeTabAccountHint after /tab, then the first /me. *)
HintMinted(t, k) ==
    LET r == task[<<t, k>>] IN
    /\ Answered(t, k, {"hint"})
    /\ pin' = IF r.answer.ok /\ r.answer.account = r.want
              THEN [pin EXCEPT ![t] = [token |-> r.answer.token, did |-> r.want]]
              ELSE pin
    /\ Becomes(t, k, Me(pin'[t]))
    /\ UNCHANGED <<hostVars, shown, status, tabPinned, loads>>

(* Mutant of Switched: a refusal is read as an answer. *)
SwitchedUnchecked(t, k) ==
    LET r == task[<<t, k>>] IN
    /\ Answered(t, k, {"switch"})
    /\ pin' = [pin EXCEPT ![t] = [token |-> r.answer.token, did |-> r.answer.account]]
    /\ tabPinned' = [tabPinned EXCEPT ![t] = TRUE]
    /\ Becomes(t, k, Me(pin'[t]))
    /\ UNCHANGED <<hostVars, shown, status, loads>>

(* switchAccount after /switch: the tab is pinned to the account the host  *)
(* switched to, unless the body cannot be read, and asks /me.              *)
Switched(t, k) ==
    LET r == task[<<t, k>>] IN
    /\ Answered(t, k, {"switch"}) /\ r.answer.ok
    /\ \/ /\ pin' = [pin EXCEPT ![t] = [token |-> r.answer.token,
                                        did |-> r.answer.account]]
          /\ tabPinned' = [tabPinned EXCEPT ![t] = TRUE]
       \/ UNCHANGED <<pin, tabPinned>>
    /\ Becomes(t, k, Me(pin'[t]))
    /\ UNCHANGED <<hostVars, shown, status, loads>>

(* setDisplayIdentity after PATCH: the pin is renewed if it is still the   *)
(* account that answered and the body can be read; then /me.               *)
DisplaySet(t, k) ==
    LET r == task[<<t, k>>] IN
    /\ Answered(t, k, {"display"}) /\ r.answer.ok
    /\ \/ /\ pin[t] # None /\ pin[t].did = r.answer.account
          /\ pin' = [pin EXCEPT ![t] = [token |-> r.answer.token, did |-> @.did]]
       \/ pin' = pin
    /\ Becomes(t, k, Me(pin'[t]))
    /\ UNCHANGED <<hostVars, shown, status, tabPinned, loads>>

(* Mutant of SignedOut: the pin is left behind. *)
SignedOutKeepsPin(t, k) ==
    /\ Answered(t, k, {"signOutAll", "signOutCurrent"})
    /\ Becomes(t, k, Idle)
    /\ shown' = [shown EXCEPT ![t] = None]
    /\ status' = [status EXCEPT ![t] = "anonymous"]
    /\ UNCHANGED <<hostVars, pin, tabPinned, loads>>

(* trySignOut after /logout: the pin goes; signing out of one account asks *)
(* /me which account is next, signing out of all shows nobody.             *)
SignedOut(t, k) ==
    LET r == task[<<t, k>>] IN
    /\ Answered(t, k, {"signOutAll", "signOutCurrent"})
    /\ pin' = [pin EXCEPT ![t] = None]
    /\ tabPinned' = [tabPinned EXCEPT ![t] = FALSE]
    /\ IF r.kind = "signOutCurrent" /\ r.answer.ok
       THEN Becomes(t, k, Me(None)) /\ UNCHANGED <<shown, status>>
       ELSE /\ Becomes(t, k, Idle)
            /\ shown' = [shown EXCEPT ![t] = None]
            /\ status' = [status EXCEPT ![t] = "anonymous"]
    /\ UNCHANGED <<hostVars, loads>>


(* A refresh fails: no answer within its time limit, or not one to read. *)
MeFails(t, k) ==
    /\ task[<<t, k>>].kind \in {"me", "meAgain"}
    /\ status' = [status EXCEPT ![t] = "error"]
    /\ Becomes(t, k, Idle)
    /\ UNCHANGED <<hostVars, pin, shown, tabPinned, loads>>

(* Another request fails or is refused: a hint gives way to the first /me, *)
(* the rest change nothing.                                                *)
RequestFails(t, k) ==
    /\ task[<<t, k>>].kind \notin {"idle", "me", "meAgain"}
    /\ Becomes(t, k, IF task[<<t, k>>].kind = "hint" THEN Me(pin[t]) ELSE Idle)
    /\ UNCHANGED <<hostVars, pageVars, loads>>

-----------------------------------------------------------------------------
Host == \/ \E tk \in Token : SignIn(tk) \/ EndSession(tk)
        \/ \E t \in Tab, k \in Slots :
             HostReads(t, k) \/ HostMints(t, k) \/ HostSwitches(t, k) \/ HostSignsOut(t, k)

Person(t) ==
    \/ \E adopt \in BOOLEAN, hint \in Hint \union {None} : Load(t, adopt, hint)
    \/ \E k \in Slot :
         \/ Refresh(t, k)
         \/ SetDisplay(t, k)
         \/ \E a \in Account : Switch(t, k, a)
         \/ \E kind \in {"signOutAll", "signOutCurrent"} : SignOut(t, k, kind)

Resumes(t, k) ==
    \/ MeRejectsPin(t, k) \/ MeSaysNobody(t, k) \/ MeSays(t, k)
    \/ HintMinted(t, k) \/ Switched(t, k) \/ DisplaySet(t, k) \/ SignedOut(t, k)

Page(t) == \/ TabMinted(t)
           \/ \E k \in Slots : Resumes(t, k) \/ MeFails(t, k) \/ RequestFails(t, k)

Next == Host \/ \E t \in Tab : Person(t) \/ Page(t)

Spec == Init /\ [][Next]_vars

(* A refresh ends: its request carries a time limit.  An answer that is    *)
(* there is read.  The other requests carry no limit, and the host is      *)
(* under no obligation.                                                    *)
Fairness ==
    \A t \in Tab, k \in Slot : WF_vars(MeFails(t, k)) /\ WF_vars(Resumes(t, k))

FairSpec == Spec /\ Fairness

-----------------------------------------------------------------------------
(* Properties. *)

(* Every variable keeps its type. *)
TypeOK ==
    /\ honours \in BOOLEAN
    /\ cookie \in Token \union {None}
    /\ live \subseteq Token /\ issued \subseteq Token
    /\ pin \in [Tab -> Pin \union {None}]
    /\ shown \in [Tab -> Account \union {None}]
    /\ status \in [Tab -> {"unloaded", "loading", "authenticated", "anonymous", "error"}]
    /\ tabPinned \in [Tab -> BOOLEAN]
    /\ task \in [Tab \X Slots -> Task]
    /\ loads \in 0 .. MaxLoads

(* A pin holds a token of the account it names, whichever requests race:   *)
(* a cookie that flips between /me and /tab, a host that ignores the       *)
(* account a link names, a switch during either ("must not pin the WRONG   *)
(* account").                                                              *)
PinNamesItsAccount ==
    \A t \in Tab : pin[t] # None => Owner[pin[t].token] = pin[t].did

(* Once a tab is quiet, the account a pinned page shows is its pin's, the   *)
(* one its requests act as ("the UI must never display an account the      *)
(* server isn't acting as").                                               *)
PinnedTabShowsItsAccount ==
    \A t \in Tab : Quiet(t) /\ status[t] = "authenticated" /\ pin[t] # None =>
                  shown[t] = pin[t].did

(* A quiet page that shows nobody holds no token ("The signed-out          *)
(* account's token is dead - the pin must not outlive it").                *)
PinEndsWithSignOut ==
    \A t \in Tab : Quiet(t) /\ status[t] = "anonymous" => pin[t] = None

(* What other tabs do never turns a pinned page into another account's: a  *)
(* page that shows its live pin's account goes on showing it, or nobody.   *)
NoTabIsYanked ==
    [][ \A t \in Tab :
          honours /\ pin[t] # None /\ pin[t].token \in live /\ shown[t] = pin[t].did =>
            shown'[t] \in {shown[t], None} ]_vars

=============================================================================
