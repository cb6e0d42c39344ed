----------------------------- MODULE MCCommandPath -----------------------------
(***************************************************************************)
(* Every query of one word, and of two, out of all the words in the tables *)
(* of the router, the classifier and the agents.                           *)
(***************************************************************************)
EXTENDS CommandPath

Vocabulary ==
  {"%", "ac", "ara", "arttir", "arttihr", "asagi", "askihda", "ayarla",
   "azalt", "ach", "ashaghih", "bagla", "baglan", "baglat", "battery",
   "baghla", "baghlan", "baghlat", "bashlat", "bluetooth off", "bluetooth on",
   "brightness", "brightness down", "brightness up", "cik", "close", "connect",
   "devre di", "disable", "disconnect", "down", "durum", "ekran",
   "ekranih kilitle", "enable", "etkinle", "exit", "find", "guncelle",
   "guencelle", "hazihrda", "hazihrda beklet", "hibernate", "install",
   "kaldir", "kaldihr", "kapat", "kilidle", "kilidleh", "kilitle", "kill",
   "kis", "kur", "kihs", "launch", "lock", "logout", "mute", "network status",
   "open", "oturumu kapat", "parlaqliq", "parlaqlihq", "power off", "quit",
   "qur", "reboot", "remove", "restart", "run", "screenshot", "search", "ses",
   "sesi kapat", "sessiz", "set", "shutdown", "sil", "sondur", "start",
   "status", "suspend", "soenduer", "sehs", "uninstall", "unmute", "up",
   "update", "upgrade", "uyku", "volume", "volume down", "volume up", "wifi",
   "wifi off", "wifi on", "yeniden", "yeniden baslat", "yenidehn bashlat",
   "yenile", "yenileh", "yukari", "yukarih", "yukle", "yuekle", "chihk"}

OneOrTwoWords == {{v, w} : v, w \in Vocabulary}

\* The patterns of the default rules: every agent, and one by its name.
DefaultPatterns == ({"*"} \X DOMAIN Announces) \cup {<<"package-agent", "package-agent">>}
===============================================================================
