----------------------------- MODULE WalletPage -----------------------------
(***************************************************************************)
(* The wallet's page, Wallet/main.js over Wallet/index.html: what is       *)
(* visible, the wallet in memory, the two kinds of timer, and what a user  *)
(* can restore in a later session.  A handler runs to its end; timers and  *)
(* clicks come in any order.  An element can be clicked while it is        *)
(* visible.  Keys are derived from phrase and passphrase by the WASM       *)
(* library, without collisions.                                            *)
(***************************************************************************)
EXTENDS Naturals, FiniteSets

CONSTANTS
  Texts,        \* passphrases of at least 8 characters, without outer spaces
  MaxWallets,   \* bound on the number of phrases generated
  MaxTimers,    \* bound on the pending timers of each kind
  Null

VARIABLES
  wasm,         \* "loading", "ready" (events attached) or "failed"
  wallet,       \* Null or [phrase, key]; the phrase is Null after a private key
  page,         \* the document
  toasts,       \* pending timers of showToast
  deploys,      \* pending timers of handleDeploy
  clipboard,
  made,         \* number of phrases generated, in all sessions
  typed,        \* history: the passphrase field when wallet was made, or Null
  log           \* history: the wallets generated, in all sessions

vars == <<wasm, wallet, page, toasts, deploys, clipboard, made, typed, log>>

Sections == {"setup", "backup", "wallet"}
RestoreTabs == {"mnemonic", "privkey"}
WalletTabs == {"keys", "deploy"}

\* A passphrase as typed, perhaps between spaces; "" is an empty field.
Typed == [text : Texts \cup {"", "short"}, spaces : BOOLEAN]
trim(t) == [t EXCEPT !.spaces = FALSE]

\* The keys of a phrase and a passphrase; undefined counts as "".
Key(phrase, pass) == <<phrase, pass>>
KeysOf(n) == {Key(m, trim(t)) : m \in 1..n, t \in Typed}
Keys == KeysOf(made)

\* No wallet is mistaken for none.
ASSUME WalletAssumption ==
  /\ MaxWallets \in Nat /\ MaxTimers \in Nat
  /\ Null \notin 1..MaxWallets
  /\ Null \notin [phrase : 1..MaxWallets \cup {Null}, key : KeysOf(MaxWallets)]

\* The document as index.html describes it.
Loaded ==
  [visible |-> {"setup"}, area |-> FALSE, active |-> {"mnemonic", "keys"},
   content |-> {"mnemonic", "keys"}, grid |-> Null, shown |-> Null, blur |-> TRUE,
   banner |-> FALSE, toast |-> FALSE]

Init ==
  /\ wasm = "loading" /\ wallet = Null /\ page = Loaded /\ toasts = 0 /\ deploys = 0
  /\ clipboard = Null /\ made = 0 /\ typed = Null /\ log = {}

-----------------------------------------------------------------------------
\* Slip: a message that follows another one clears its timer and starts none.
showToast_ClearsTimer(doc) ==
  /\ page' = [doc EXCEPT !.toast = TRUE]
  /\ toasts' = IF toasts > 0 THEN 0 ELSE 1

\* showToast, on the document a handler leaves: shown, and hidden by its own timer.
showToast(doc) ==
  /\ toasts < MaxTimers
  /\ page' = [doc EXCEPT !.toast = TRUE]
  /\ toasts' = toasts + 1

\* A handler that returns early, or catches an exception, only says so.
Refused == showToast(page) /\ UNCHANGED <<wasm, wallet, deploys, clipboard, made, typed, log>>

\* One section is hidden and the next one shown.
Show(old, new) == [page EXCEPT !.visible = (@ \ {old}) \cup {new}]

Clickable(section) == wasm = "ready" /\ section \in page.visible

\* start: attachEvents after init, or a message and no events at all.
start ==
  /\ wasm = "loading"
  /\ \/ wasm' = "ready" /\ UNCHANGED <<page, toasts>>
     \/ wasm' = "failed" /\ showToast(page)
  /\ UNCHANGED <<wallet, deploys, clipboard, made, typed, log>>

\* renderWalletInfo
renderWalletInfo(doc, w) == [doc EXCEPT !.shown = w.key]

\* createWallet: refused without a passphrase of 8 characters, or if generation fails.
createWallet ==
  /\ Clickable("setup")
  /\ \/ Refused
     \/ /\ made < MaxWallets
        /\ \E t \in Typed :
             LET w == [phrase |-> made + 1, key |-> Key(made + 1, trim(t))] IN
             /\ trim(t).text \in Texts
             /\ wallet' = w /\ typed' = t
             /\ page' = renderWalletInfo([Show("setup", "backup") EXCEPT !.grid = w.phrase], w)
             /\ log' = log \cup {[phrase |-> w.phrase, typed |-> t, key |-> w.key]}
        /\ made' = made + 1
        /\ UNCHANGED <<wasm, toasts, deploys, clipboard>>

\* Restore Wallet: toggles the area with the two tabs.
ToggleRestore ==
  /\ Clickable("setup")
  /\ page' = [page EXCEPT !.area = ~@]
  /\ UNCHANGED <<wasm, wallet, toasts, deploys, clipboard, made, typed, log>>

\* Slip: the tab's content appears but the other one's stays.
switchRestoreTab_Adds(mode) == [page EXCEPT !.content = @ \cup {mode}]

\* switchRestoreTab: the active tab and its content.
switchRestoreTab(mode) ==
  [page EXCEPT !.active = (@ \ RestoreTabs) \cup {mode},
               !.content = (@ \ RestoreTabs) \cup {mode}]

\* The listener on every .tab-btn: the only active tab of the page is this one,
\* all .tab-content is hidden.
ActivateTab(doc, tab) == [doc EXCEPT !.active = {tab}, !.content = @ \ WalletTabs]

\* A restore tab has both listeners; the second ends in a TypeError, since the
\* tab has no data-tab, after its effect on the page.
ClickRestoreTab ==
  /\ Clickable("setup") /\ page.area
  /\ \E mode \in RestoreTabs : page' = ActivateTab(switchRestoreTab(mode), mode)
  /\ UNCHANGED <<wasm, wallet, toasts, deploys, clipboard, made, typed, log>>

ClickWalletTab ==
  /\ Clickable("wallet")
  /\ \E tab \in WalletTabs : page' = [ActivateTab(page, tab) EXCEPT !.content = @ \cup {tab}]
  /\ UNCHANGED <<wasm, wallet, toasts, deploys, clipboard, made, typed, log>>

\* Slip: the passphrase is not trimmed here, as it is in createWallet.
Restorable_NoTrim ==
  IF "mnemonic" \in page.active
  THEN {[phrase |-> n, typed |-> t, key |-> Key(n, t)] :
          n \in 1..made, t \in Typed}
  ELSE {[phrase |-> Null, typed |-> Null, key |-> k] : k \in Keys}

\* The wallets restoreWallet can make of what is typed: the active tab decides
\* which field is read.  Anything else is refused.
Restorable ==
  IF "mnemonic" \in page.active
  THEN {[phrase |-> n, typed |-> t, key |-> Key(n, trim(t))] : n \in 1..made, t \in Typed}
  ELSE {[phrase |-> Null, typed |-> Null, key |-> k] : k \in Keys}

\* Slip: the keys of the restored wallet are not rendered.
restoreWallet_NoRender ==
  /\ Clickable("setup") /\ page.area
  /\ \/ Refused
     \/ /\ \E r \in Restorable :
             /\ wallet' = [phrase |-> r.phrase, key |-> r.key]
             /\ showToast(Show("setup", "wallet"))
             /\ typed' = r.typed
        /\ UNCHANGED <<wasm, deploys, clipboard, made, log>>

\* Slip: the setup section stays visible next to the wallet.
restoreWallet_KeepsSetup ==
  /\ Clickable("setup") /\ page.area
  /\ \/ Refused
     \/ /\ \E r \in Restorable :
             LET w == [phrase |-> r.phrase, key |-> r.key] IN
             /\ wallet' = w
             /\ showToast(renderWalletInfo([page EXCEPT !.visible = @ \cup {"wallet"}], w))
             /\ typed' = r.typed
        /\ UNCHANGED <<wasm, deploys, clipboard, made, log>>

\* restoreWallet: empty or invalid input is refused.
restoreWallet ==
  /\ Clickable("setup") /\ page.area
  /\ \/ Refused
     \/ /\ \E r \in Restorable :
             LET w == [phrase |-> r.phrase, key |-> r.key] IN
             /\ wallet' = w
             /\ showToast(renderWalletInfo(Show("setup", "wallet"), w))
             /\ typed' = r.typed
        /\ UNCHANGED <<wasm, deploys, clipboard, made, log>>

\* Copy to Clipboard on the backup screen.  writeText is not awaited: the message
\* appears also when it fails.
CopyMnemonic ==
  /\ Clickable("backup")
  /\ clipboard' \in {clipboard, [phrase |-> wallet.phrase]}
  /\ showToast(page)
  /\ UNCHANGED <<wasm, wallet, deploys, made, typed, log>>

\* I Saved It - Enter Wallet: the phrase stays in the hidden grid.
ConfirmBackup ==
  /\ Clickable("backup")
  /\ showToast(Show("backup", "wallet"))
  /\ UNCHANGED <<wasm, wallet, deploys, clipboard, made, typed, log>>

\* REVEAL or HIDE
Reveal ==
  /\ Clickable("wallet") /\ "keys" \in page.content
  /\ page' = [page EXCEPT !.blur = ~@]
  /\ UNCHANGED <<wasm, wallet, toasts, deploys, clipboard, made, typed, log>>

CopyAddress ==
  /\ Clickable("wallet")
  /\ clipboard' \in {clipboard, [address |-> page.shown]}
  /\ showToast(page)
  /\ UNCHANGED <<wasm, wallet, deploys, made, typed, log>>

\* handleDeploy: a banner, a message and a timer.
handleDeploy ==
  /\ Clickable("wallet") /\ "deploy" \in page.content /\ deploys < MaxTimers
  /\ showToast([page EXCEPT !.banner = TRUE])
  /\ deploys' = deploys + 1
  /\ UNCHANGED <<wasm, wallet, clipboard, made, typed, log>>

\* Its timer hides the wallet; showing the dashboard is then a TypeError, since
\* index.html has none.
DeployTimer ==
  /\ deploys > 0
  /\ deploys' = deploys - 1
  /\ page' = [page EXCEPT !.visible = @ \ {"wallet"}]
  /\ UNCHANGED <<wasm, wallet, toasts, clipboard, made, typed, log>>

ToastTimer ==
  /\ toasts > 0
  /\ toasts' = toasts - 1
  /\ page' = [page EXCEPT !.toast = FALSE]
  /\ UNCHANGED <<wasm, wallet, deploys, clipboard, made, typed, log>>

\* The page starts anew: memory, timers and document are gone.
Reload ==
  /\ wasm' = "loading" /\ wallet' = Null /\ typed' = Null /\ page' = Loaded /\ toasts' = 0 /\ deploys' = 0
  /\ UNCHANGED <<clipboard, made, log>>

\* confirmLogout, confirmed; a refusal changes nothing.
confirmLogout == Clickable("wallet") /\ Reload

\* The user reloads the page or restarts the application.
BrowserReload == wasm # "loading" /\ Reload

Next ==
  \/ start \/ createWallet \/ ToggleRestore \/ ClickRestoreTab \/ ClickWalletTab
  \/ restoreWallet \/ CopyMnemonic \/ ConfirmBackup \/ Reveal \/ CopyAddress
  \/ handleDeploy \/ DeployTimer \/ ToastTimer \/ confirmLogout \/ BrowserReload

Spec == Init /\ [][Next]_vars

\* The browser fires its timers.
FairSpec == Spec /\ WF_vars(ToastTimer)

-----------------------------------------------------------------------------
Tabs == RestoreTabs \cup WalletTabs
Pages ==
  [visible : SUBSET Sections, area : BOOLEAN, active : SUBSET Tabs, content : SUBSET Tabs,
   grid : 1..made \cup {Null}, shown : Keys \cup {Null}, blur : BOOLEAN, banner : BOOLEAN,
   toast : BOOLEAN]

TypeOK ==
  /\ wasm \in {"loading", "ready", "failed"}
  /\ wallet = Null \/ wallet \in [phrase : 1..made \cup {Null}, key : Keys]
  /\ page \in Pages
  /\ toasts \in 0..MaxTimers /\ deploys \in 0..MaxTimers /\ made \in 0..MaxWallets
  /\ clipboard = Null \/ clipboard \in [phrase : 1..made] \cup [address : Keys]

(***************************************************************************)
(* restoreWallet decides by the class `active` of a tab what to read; two  *)
(* listeners, one of them shared with the wallet's tabs, keep that class.  *)
(* While the setup section is shown it agrees with the field on the screen.*)
(***************************************************************************)
RestoreModeShown ==
  "setup" \in page.visible =>
    \A mode \in RestoreTabs : mode \in page.active <=> page.content \cap RestoreTabs = {mode}

(***************************************************************************)
(* The screen and the wallet in memory agree: setup exactly while there is *)
(* none, the backup screen with its phrase, the wallet screen with its     *)
(* keys, and an empty page only after handleDeploy.                        *)
(***************************************************************************)
ScreenMatchesWallet ==
  /\ Cardinality(page.visible) <= 1
  /\ "setup" \in page.visible <=> wallet = Null
  /\ "backup" \in page.visible => page.grid = wallet.phrase /\ page.shown = wallet.key
  /\ "wallet" \in page.visible => page.shown = wallet.key
  /\ page.visible = {} => page.banner

(***************************************************************************)
(* createWallet and restoreWallet agree: a generated phrase, restored in   *)
(* any later session with the same passphrase, spaces around it or not,    *)
(* gives the keys it was generated with.                                   *)
(***************************************************************************)
SamePhraseSameKeys ==
  wallet # Null => \A r \in log :
    wallet.phrase = r.phrase /\ typed.text = r.typed.text => wallet.key = r.key

(***************************************************************************)
(* A wallet, whose phrase may not be saved yet, is given up only by leaving*)
(* the session; no click or timer puts another in its place.               *)
(***************************************************************************)
WalletNotReplaced == [][wallet # Null => wallet' = wallet \/ wasm' = "loading"]_vars

\* Every message is taken off the screen in the end.
ToastHides == page.toast ~> ~page.toast
=============================================================================
