------------------------------- MODULE Keywords --------------------------------
(***************************************************************************)
(* How a query is resolved by its words: the local keyword router of the   *)
(* orchestrator (router/router.c) and the keyword rules that the intent    *)
(* classifier falls back on (intent-classifier/main.c).                    *)
(*                                                                         *)
(* All that the code asks of a query is strstr(query, word), so a query is *)
(* the set of words written in it, and it contains these words and those   *)
(* inside them.  Letters outside ASCII are written as two letters (ch for  *)
(* c with cedilla, eh for schwa, sh, ih, gh, oe, ue), as many as the bytes *)
(* they have in the source.                                                *)
(***************************************************************************)
EXTENDS Naturals, Sequences

CONSTANTS
  NoCapability,
  MaxKeywords,      \* size of the router's table (MAX_KEYWORDS)
  MaxKeywordRules   \* size of the classifier's table (MAX_KEYWORD_RULES)

\* The words that are inside others, each with the other.
Inside ==
  {<<"bagla", "baglan">>, <<"bagla", "baglat">>, <<"baghla", "baghlan">>,
   <<"baghla", "baghlat">>, <<"connect", "disconnect">>, <<"start", "restart">>,
   <<"ses", "sessiz">>, <<"down", "shutdown">>, <<"install", "uninstall">>,
   <<"mute", "unmute">>, <<"up", "update">>, <<"up", "upgrade">>,
   <<"brightness", "brightness down">>, <<"down", "brightness down">>,
   <<"brightness", "brightness up">>, <<"up", "brightness up">>,
   <<"ekran", "ekranih kilitle">>, <<"kilitle", "ekranih kilitle">>,
   <<"hazihrda", "hazihrda beklet">>, <<"status", "network status">>,
   <<"kapat", "oturumu kapat">>, <<"ses", "sesi kapat">>, <<"kapat", "sesi kapat">>,
   <<"volume", "volume down">>, <<"down", "volume down">>, <<"volume", "volume up">>,
   <<"up", "volume up">>, <<"wifi", "wifi on">>, <<"wifi", "wifi off">>,
   <<"yeniden", "yeniden baslat">>, <<"bashlat", "yenidehn bashlat">>}

Contained(words) == words \cup {p[1] : p \in {q \in Inside : q[2] \in words}}

-------------------------------------------------------------------------------
(* The router.                                                                *)

Pairs == <<
  <<"ac", "open_application">>, <<"ach", "open_application">>,
  <<"bagla", "close_application">>, <<"baghla", "close_application">>,
  <<"qur", "install_package">>, <<"kur", "install_package">>,
  <<"install", "install_package">>,
  <<"sil", "remove_package">>, <<"remove", "remove_package">>,
  <<"ara", "search_package">>, <<"search", "search_package">>,
  <<"wifi", "network_management">>,
  <<"shutdown", "system_management">>, <<"reboot", "system_management">>,
  <<"baglat", "system_management">>, <<"baghlat", "system_management">>,
  <<"yeniden baslat", "system_management">>, <<"yenidehn bashlat", "system_management">>,
  <<"kilidle", "system_management">>, <<"kilidleh", "system_management">>,
  <<"lock", "system_management">>,
  <<"ses", "audio_control">>, <<"sehs", "audio_control">>,
  <<"volume", "audio_control">>, <<"mute", "audio_control">>,
  <<"parlaqliq", "brightness_control">>, <<"parlaqlihq", "brightness_control">>,
  <<"brightness", "brightness_control">>,
  <<"screenshot", "screenshot">>, <<"ekran", "screenshot">>,
  <<"update", "system_update">>, <<"yenile", "system_update">>,
  <<"yenileh", "system_update">> >>

\* Mutant of RouterTable: one entry too few.
RouterTableShort == SubSeq(Pairs, 1, MaxKeywords - 1)

\* router_init fills its table from the front and drops what has no room.
RouterTable == SubSeq(Pairs, 1, IF Len(Pairs) < MaxKeywords THEN Len(Pairs) ELSE MaxKeywords)

Hits(table, heard) == {i \in DOMAIN table : table[i][1] \in heard}

\* router_resolve: the first keyword of the table that the query contains.
RouterResolve(words) ==
  LET hits == Hits(RouterTable, Contained(words)) IN
  IF hits = {} THEN NoCapability
  ELSE RouterTable[CHOOSE i \in hits : \A k \in hits : i <= k][2]

-------------------------------------------------------------------------------
(* The classifier's keyword rules.                                            *)

KeywordRules == <<
  <<"open", "open_application">>, <<"launch", "open_application">>,
  <<"start", "open_application">>, <<"run", "open_application">>,
  <<"close", "close_application">>, <<"quit", "close_application">>,
  <<"exit", "close_application">>, <<"kill", "close_application">>,
  <<"shutdown", "system_shutdown">>, <<"power off", "system_shutdown">>,
  <<"reboot", "system_reboot">>, <<"restart", "system_reboot">>,
  <<"volume up", "volume_increase">>, <<"volume down", "volume_decrease">>,
  <<"mute", "volume_mute">>, <<"unmute", "volume_unmute">>,
  <<"brightness up", "brightness_increase">>, <<"brightness down", "brightness_decrease">>,
  <<"wifi on", "wifi_enable">>, <<"wifi off", "wifi_disable">>,
  <<"bluetooth on", "bluetooth_enable">>, <<"bluetooth off", "bluetooth_disable">>,
  <<"screenshot", "screenshot">>,
  <<"install", "install_package">>, <<"uninstall", "remove_package">>,
  <<"remove", "remove_package">>,
  <<"update", "update_system">>, <<"upgrade", "update_system">>,
  <<"network status", "network_status">>, <<"battery", "battery_status">>,
  <<"lock", "lock_screen">>, <<"suspend", "system_suspend">> >>

RuleTable == SubSeq(KeywordRules, 1,
  IF Len(KeywordRules) < MaxKeywordRules THEN Len(KeywordRules) ELSE MaxKeywordRules)

\* keyword_classify: the longest keyword that the query contains, of equals
\* the first.
KeywordClassify(words) ==
  LET hits == Hits(RuleTable, Contained(words))
      length(i) == Len(RuleTable[i][1])
  IN IF hits = {} THEN NoCapability
     ELSE RuleTable[CHOOSE i \in hits : \A k \in hits :
            length(k) < length(i) \/ (length(k) = length(i) /\ i <= k)][2]
===============================================================================
