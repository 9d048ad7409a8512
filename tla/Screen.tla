------------------------------- MODULE Screen -------------------------------
(***************************************************************************)
(* What is in front of the user: the tab MainTabBarController shows, or    *)
(* the detail screen pushed over the list with the tab bar hidden, and     *)
(* the alert or sheet presented over it.  A presented alert takes every    *)
(* touch, the tab bar's included.  Presenting over an alert does nothing,  *)
(* without an error.  When the presenting controller is covered by another *)
(* tab, UIKit presents from a container it shares with that tab or refuses *)
(* as well; which of the two is left open.                                 *)
(*                                                                         *)
(* Of the menu only what it does to this screen is here; what it does to   *)
(* the session is module Session's.                                        *)
(***************************************************************************)

CONSTANT PlainTabs  \* bound: the tabs besides the list that are ever shown

ASSUME ScreenAssumption == "home" \in PlainTabs /\ PlainTabs \subseteq {"home", "menu"}

VARIABLES tab, alert

screenVars == <<tab, alert>>

Tabs   == {"home", "warning", "detail", "menu"}
Alerts == {"none", "fill", "registered", "saved", "wrong", "filter", "error"}

ScreenTypeOK == tab \in Tabs /\ alert \in Alerts

ScreenInit == tab = "home" /\ alert = "none"

\* Mutant: a message takes the place of the alert on screen.
Present_Anyway(owner, message) == alert' = message

\* Alert.getAlert called by the controller of screen `owner'.
Present(owner, message) ==
  IF tab = owner /\ alert = "none" THEN alert' = message
  ELSE alert' = alert \/ (alert = "none" /\ alert' = message)

\* The user can touch what screen `owner' shows.
Touchable(owner) == tab = owner /\ alert = "none"

\* The tab bar, to Home or to the menu: these two do nothing when they appear.
SwitchTab ==
  /\ alert = "none"
  /\ tab # "detail"
  /\ tab' \in PlainTabs \ {tab}
  /\ UNCHANGED alert

\* The refusal of a removal the user asked for in the menu comes when it comes,
\* whatever is shown by then.  The menu's questions are left out: what they
\* keep from being presented may be refused behind the menu itself.
MenuAlert ==
  /\ "menu" \in PlainTabs
  /\ Present("menu", "error")
  /\ UNCHANGED tab
=============================================================================
