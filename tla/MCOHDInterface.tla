--------------------------- MODULE MCOHDInterface ---------------------------
(***************************************************************************)
(* Four air units and six ground units, each with the hardware and the     *)
(* configuration one question needs.                                       *)
(***************************************************************************)
EXTENDS OHDInterface

Settings == [mode |-> "hotspot", hs |-> "auto", hsif |-> None, clif |-> None, ssid |-> "a", cred |-> TRUE]

Unit == [air |-> FALSE, link |-> "wifi", find |-> "auto", hotspotOnly |-> FALSE,
         manual |-> << >>, manualSpare |-> None, localnet |-> FALSE, noHotspot |-> FALSE,
         eth |-> "external", cards |-> {"w1"}, set |-> Settings,
         names |-> {}, outside |-> {}]

MCCardOrder == << "w1", "w2", "b", "q" >>
MCCardType == [w1 |-> "88xxau", w2 |-> "88x2bu", b |-> "broadcom",
               q |-> "qualcomm"]
MCClientIp == [c1 |-> "ip1", c2 |-> "host"]

Names == {"w1", "w2", "b"}
MCUnits ==
    { \* an air unit with a card to spare; one with its cards named in the configuration
      [Unit EXCEPT !.air = TRUE, !.cards = {"w1", "b"}, !.names = {"b"}, !.outside = {"fc", "user"}],
      [Unit EXCEPT !.air = TRUE, !.cards = {"w1"}, !.find = "manual", !.manual = << "w1" >>,
                   !.manualSpare = "w1", !.names = {"w1", "b"}, !.outside = {"cards", "user"}],
      [Unit EXCEPT !.air = TRUE, !.outside = {"tcp"}],
      [Unit EXCEPT !.air = TRUE, !.outside = {"control"}],
      \* a ground unit where the legacy setting makes it a client; one with a Qualcomm card
      [Unit EXCEPT !.cards = {"w1", "w2", "b"}, !.localnet = TRUE, !.eth = "untouched",
                   !.names = Names, !.outside = {"user"}],
      [Unit EXCEPT !.cards = {"w1", "q"}, !.names = {"q"}, !.eth = "untouched", !.outside = {"cards"}],
      \* without a hotspot; with an emulated card
      [Unit EXCEPT !.cards = {"w1", "b"}, !.noHotspot = TRUE, !.names = {"b"}, !.outside = {"fc", "user"}],
      [Unit EXCEPT !.cards = {"b"}, !.find = "emulate", !.hotspotOnly = TRUE,
                   !.names = {"b"}, !.outside = {"user"}],
      \* devices, with and without WiFi
      [Unit EXCEPT !.outside = {"usb", "eth", "tcp"}],
      [Unit EXCEPT !.link = "microhard", !.cards = {"b"}, !.outside = {"usb", "tcp"}] }
=============================================================================
