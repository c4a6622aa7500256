---------------------------- MODULE MCNotifications ----------------------------
(* Small instances of Notifications for TLC. *)
EXTENDS Notifications

CONSTANTS r1, r2, w1, free

Channel(type, complete) == [type |-> type, complete |-> complete]
Email == Channel("email", TRUE)
Graph == Channel("m365", TRUE)
Scenario(role1, role2, watched, channelSet) ==
    [role |-> r1 :> role1 @@ r2 :> role2, watched |-> watched, channels |-> channelSet]

Outlets == {
    Scenario("failed", "saved", {w1}, {}),
    Scenario("failed", "unmounted", {w1}, {}),
    Scenario("failed", "absent", {w1}, {Email}),
    Scenario("failed", "debouncer", {}, {Email, Graph}),
    Scenario("saved", "saved", {}, {Email, Channel("m365", FALSE)}),
    Scenario("unmounted", "absent", {}, {Channel("discord", TRUE), Channel("gotcode_dispatch", TRUE), Channel("webhook", TRUE)}),
    Scenario("unmounted", "saved", {}, {Email, Channel("smtp", FALSE), Channel("webhook", FALSE)})}

Typo == {Scenario("unmounted", "absent", {}, {Channel("webhook", TRUE), Channel("e-mail", TRUE)})}

All == Outlets \cup Typo
===============================================================================
