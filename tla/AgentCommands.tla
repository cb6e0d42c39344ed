----------------------------- MODULE AgentCommands -----------------------------
(***************************************************************************)
(* What the five agents announce, and which command each of them runs for  *)
(* the words of a task (handle_client in agents/.../main.c).  An agent     *)
(* goes through its commands in order and takes the first whose words the  *)
(* query contains: every word of "all" and some word of "any".             *)
(***************************************************************************)
EXTENDS Keywords

Command(does, any) == [does |-> does, all |-> {}, any |-> any]
CommandWith(does, all, any) == [does |-> does, all |-> all, any |-> any]

PowerAnnounces == {"system_management"}
DesktopAnnounces == {"open_application", "close_application"}
PackageAnnounces == {"install_package", "remove_package", "search_package", "system_update"}
NetworkAnnounces == {"network_management"}
AudioAnnounces == {"audio_control"}

AgentNames == {"power-agent", "desktop-agent", "package-agent", "network-agent", "audio-agent"}
Announces == [a \in AgentNames |->
  CASE a = "power-agent"   -> PowerAnnounces
    [] a = "desktop-agent" -> DesktopAnnounces
    [] a = "package-agent" -> PackageAnnounces
    [] a = "network-agent" -> NetworkAnnounces
    [] a = "audio-agent"   -> AudioAnnounces]

\* Mutant of PowerCommands: rebooting is asked for first, and by 'down' too.
PowerCommandsSwapped == <<
  Command("reboot", {"reboot", "yeniden", "bashlat", "down"}),
  Command("poweroff", {"shutdown", "kapat", "sondur", "soenduer"}) >>

\* With 'wifi' in it a request to turn off is not for this agent, and nothing
\* further is looked for.
PowerCommands ==
  LET off == {"shutdown", "kapat", "sondur", "soenduer"} IN <<
  CommandWith("nothing", {"wifi"}, off),
  Command("poweroff", off),
  Command("reboot", {"reboot", "yeniden", "bashlat"}),
  Command("suspend", {"suspend", "uyku", "askihda"}),
  Command("hibernate", {"hibernate", "hazihrda", "hazihrda beklet"}),
  Command("lock", {"lock", "kilitle", "ekranih kilitle"}),
  Command("logout", {"logout", "cik", "chihk", "oturumu kapat"}) >>

PackageCommands == <<
  Command("install", {"install", "yukle", "yuekle", "kur"}),
  Command("remove", {"remove", "kaldir", "kaldihr", "sil", "uninstall"}),
  Command("search", {"search", "ara", "find"}),
  Command("update", {"update", "guncelle", "guencelle", "upgrade"}) >>

NetworkCommands == <<
  CommandWith("wifi_enable", {"wifi"}, {"open", "ac", "ach", "enable", "etkinle"}),
  CommandWith("wifi_disable", {"wifi"}, {"close", "kapat", "disable", "devre di"}),
  Command("network_status", {"status", "durum"}),
  Command("connect", {"connect", "baglan", "baghlan"}) >>

AudioCommands == <<
  CommandWith("volume_up", {"volume"}, {"up", "arttir", "arttihr", "yukari", "yukarih", "ach"}),
  CommandWith("volume_down", {"volume"},
              {"down", "azalt", "asagi", "ashaghih", "kis", "kihs"}),
  CommandWith("volume_set", {"volume"}, {"set", "ayarla", "%"}),
  Command("mute", {"mute", "sessiz", "sesi kapat"}),
  Command("audio_status", {"status", "durum"}) >>

\* The desktop agent looks for a word that opens and, whatever comes of it,
\* for one that closes; closing is acknowledged and not carried out.
DesktopOpens == {"ach", "ac", "open"}
DesktopCloses == {"bagla", "baghla", "sondur", "soenduer", "close", "kill"}

\* Commands that do nothing without an argument, and those whose failure is
\* not looked at.
WantArgument == {"install", "remove", "search", "connect", "volume_set"}
AlwaysSucceed == {"search", "network_status", "audio_status"}

\* How a command can end: well, which is said of one killed by a signal too;
\* badly; or it does not run, since there is no such program or system() or
\* fork() fails.
Ends == {"well", "badly", "not run"}

\* What runs, and whether the reply says success.
Outcome(does, success) == [runs |-> does, success |-> success]

Chosen(commands, heard) ==
  LET fit == {i \in DOMAIN commands : commands[i].all \subseteq heard
                                      /\ commands[i].any \cap heard # {}}
  IN IF fit = {} THEN "nothing"
     ELSE commands[CHOOSE i \in fit : \A k \in fit : i <= k].does

\* A command that always succeeds does so without running, too.
Carried(does, argument, end) ==
  IF does = "nothing" \/ (does \in WantArgument /\ ~argument)
    THEN Outcome("nothing", FALSE)
    ELSE Outcome(IF end = "not run" THEN "nothing" ELSE does,
                 end = "well" \/ does \in AlwaysSucceed)

\* An application is opened once fork() has returned, whatever becomes of it.
DesktopTask(heard, argument, end) ==
  LET opens == heard \cap DesktopOpens # {} /\ argument
      closes == heard \cap DesktopCloses # {}
  IN Outcome(IF opens /\ end = "well" THEN "open" ELSE "nothing",
             closes \/ (opens /\ end # "not run"))

Task(agent, heard, argument, end) ==
  CASE agent = "desktop-agent" -> DesktopTask(heard, argument, end)
    [] agent = "power-agent"   -> Carried(Chosen(PowerCommands, heard), argument, end)
    [] agent = "package-agent" -> Carried(Chosen(PackageCommands, heard), argument, end)
    [] agent = "network-agent" -> Carried(Chosen(NetworkCommands, heard), argument, end)
    [] agent = "audio-agent"   -> Carried(Chosen(AudioCommands, heard), argument, end)
===============================================================================
