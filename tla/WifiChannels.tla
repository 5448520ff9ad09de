---------------------------- MODULE WifiChannels ----------------------------
(***************************************************************************)
(* The channels OpenHD knows (wifi_channel.h), which of them a card can be *)
(* tuned to, which frequency a request may ask for and which channels a    *)
(* scan or an analyze visits.                                              *)
(*                                                                         *)
(* A card has a type, the frequencies iw lists as not disabled, whether iw *)
(* answers, and whether it sits in an X20.                                 *)
(***************************************************************************)
EXTENDS Integers

Steps(first, last, step) == {first + step * i : i \in 0 .. (last - first) \div step}

get_channels_2G ==
  {2312, 2332, 2352, 2372, 2392, 2412, 2432, 2452, 2472, 2484, 2492, 2512, 2612, 2692, 2712}
get_channels_5G == Steps(5080, 5480, 20) \cup Steps(5500, 5720, 20) \cup Steps(5745, 6085, 20)

legal_2G == {2412, 2432, 2452, 2472, 2484}
legal_5G == get_channels_5G \ Steps(5340, 5480, 20)
legal_5G_without_illegal ==
  legal_5G \ (Steps(5080, 5160, 20) \cup Steps(5885, 6085, 20))
is_legal_any_country_40Mhz == (legal_2G \cup legal_5G) \ {2484}
in_40Mhz_ht40_plus ==
  {2412, 2452} \cup Steps(5080, 5160, 20) \cup Steps(5180, 5300, 40)
    \cup Steps(5500, 5700, 40) \cup Steps(5745, 5865, 40) \cup Steps(5905, 6085, 20)

get_openhd_channels_1_to_7 == {5700, 5745, 5785, 5825, 5865, 5260, 5280}

-----------------------------------------------------------------------------
CardTypes == {"88x2au", "88x2bu", "other"}  \* "88x2au" stands for all of OpenHD's but one

\* If iw does not answer, every channel counts as supported.
iw_get_supported_frequencies(card, channels) ==
  IF card.answers THEN channels \cap card.iw ELSE channels

supported_frequencies_2G(card) ==
  IF card.type = "other" THEN iw_get_supported_frequencies(card, get_channels_2G) ELSE legal_2G
supported_frequencies_5G(card) ==
  CASE card.type = "88x2au" -> legal_5G
    [] card.type = "88x2bu" -> legal_5G_without_illegal
    [] card.type = "other"  -> iw_get_supported_frequencies(card, get_channels_5G)

wifi_card_supports_frequency(card, f) ==
  f \in supported_frequencies_2G(card) \cup supported_frequencies_5G(card)
wifi_card_supports_frequency_channel_width(card, f, width) ==
  (width = 40 => f \in is_legal_any_country_40Mhz) /\ wifi_card_supports_frequency(card, f)

all_cards_support_frequency(f, cards) == \A c \in cards : wifi_card_supports_frequency(c, f)
all_cards_support_frequency_and_channel_width(f, width, cards) ==
  \A c \in cards : wifi_card_supports_frequency_channel_width(c, f, width)
any_card_support_frequency(f, cards) == \E c \in cards : wifi_card_supports_frequency(c, f)

\* Unless a file in the configuration directory turns the checks off.
validate_frequency_change(f, width, cards) ==
  /\ ~(f = 2484 /\ width = 40)
  /\ all_cards_support_frequency(f, cards)
  /\ all_cards_support_frequency_and_channel_width(f, width, cards)

-----------------------------------------------------------------------------
\* What a scan or an analyze of the given kind visits; the first card counts.
get_scan_channels_frequencies(card, kind) ==
  CASE kind = 0 -> get_openhd_channels_1_to_7
    [] kind = 1 -> supported_frequencies_2G(card)
    [] OTHER    -> supported_frequencies_5G(card)

get_analyze_channels_frequencies(card, kind) ==
  CASE kind = 0 -> get_openhd_channels_1_to_7
    [] kind = 1 -> supported_frequencies_2G(card)
    [] OTHER    -> supported_frequencies_5G(card) \cap in_40Mhz_ht40_plus
=============================================================================
