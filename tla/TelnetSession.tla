---------------------------- MODULE TelnetSession ----------------------------
(***************************************************************************)
(* A session of an operator with the daemon: how lines that arrive in      *)
(* pieces are put together in a buffer of fixed size and executed one      *)
(* after the other, and what becomes of the routers meanwhile.             *)
(*                                                                         *)
(* A cell of the buffer holds a word with the blank after it, or one       *)
(* of the characters newline and NUL.  A line is a sequence of words.      *)
(*                                                                         *)
(* The loop over the lines of one read is a sequence of ServeLine steps:   *)
(* it need not end.  The daemon, with its one thread, does nothing else    *)
(* until it does.                                                          *)
(***************************************************************************)
EXTENDS TelnetCommand, FiniteSets

CONSTANTS
  Lines,       \* the lines an operator may type, without the newline
  BufferSize,  \* cells of m_buffer
  Restored,    \* what the configuration file may hold at a start (VrrpConfiguration)
  MaxAhead     \* bound: lines that a session's operator types before their prompt

NL   == "newline"
NUL  == "NUL"
\* Whatever earlier lines left behind the ones that are in the buffer.
Junk == "junk"

\* No word is a newline, a NUL or what else may be in the buffer; a file has routers
\* with their VLANs.
ASSUME SessionAssumption ==
  /\ BufferSize \in Nat \ {0}
  /\ MaxAhead \in Nat
  /\ \A line \in Lines : line \in Seq(STRING \ {NL, NUL, Junk})
  /\ \A known \in Restored :
       /\ DOMAIN known \subseteq Interfaces \X (1..255) \X Families
       /\ known \in [DOMAIN known -> Int]

\* What sendFormatted leaves at the front of m_buffer: the end of the reply.
Reply == <<"Errors:", "0", NL, NUL>>

VARIABLES
  services,   \* VrrpManager::m_services: the VLAN of each router there is
  call,       \* what the lines of the latest read called last
  daemon,     \* "running", "stopped", or "crashed"
  open,       \* the session exists
  hungUp,     \* the client has closed its end
  wire,       \* what the client has sent and the daemon not read
  buffer, bufferSize, overflow,
  size,       \* what the latest read returned
  nl,         \* position of the newline being served, 0 outside the loop
  owed,       \* history: the lines of a waiting operator, not executed yet
  ahead       \* history: the lines typed before the prompt for them

client == <<hungUp, wire, owed, ahead>>
session == <<open, buffer, bufferSize, overflow, size, nl>>
vars == <<services, call, daemon, client, session>>

Cells == 1..BufferSize

Emptied == [i \in Cells |-> Junk]

NoServices == [k \in {} |-> 0]

-----------------------------------------------------------------------------
(* The operator *)

Text(line) == line \o <<NL>>

\* A waiting operator types when the prompt is there, another one at any time.
Type(line) ==
  /\ open /\ ~hungUp
  /\ \/ owed = <<>> /\ ahead = 0 /\ owed' = <<line>> /\ UNCHANGED ahead
     \/ /\ owed # <<>> \/ ahead > 0
        /\ ahead < MaxAhead
        /\ ahead' = ahead + 1
        /\ owed' = <<>>
  /\ wire' = wire \o Text(line)
  /\ UNCHANGED <<services, call, daemon, session, hungUp>>

HangUp ==
  /\ open /\ ~hungUp
  /\ hungUp' = TRUE
  /\ UNCHANGED <<services, call, daemon, session, wire, owed, ahead>>

-----------------------------------------------------------------------------
(* TelnetServer *)

\* Accepts a connection: a session with an empty buffer.
onIncomingConnection ==
  /\ daemon = "running" /\ ~open
  /\ open' = TRUE
  /\ hungUp' = FALSE
  /\ wire' = <<>>
  /\ buffer' = Emptied
  /\ bufferSize' = 0
  /\ overflow' = FALSE
  /\ size' = 0
  /\ nl' = 0
  /\ owed' = <<>>
  /\ ahead' = 0
  /\ UNCHANGED <<services, call, daemon>>

\* delete this: the descriptor is closed, and what was on its way is lost.
Close ==
  /\ open' = FALSE
  /\ nl' = 0
  /\ bufferSize' = 0
  /\ wire' = <<>>
  /\ owed' = <<>>
  /\ buffer' = Emptied
  /\ UNCHANGED <<overflow, size, hungUp, ahead>>

\* main() returns: the server stops with its sessions, the routers are cleaned up.
stop ==
  /\ daemon = "running" /\ nl = 0
  /\ daemon' = "stopped"
  /\ services' = NoServices
  /\ Close
  /\ UNCHANGED call

start ==
  /\ daemon \in {"stopped", "crashed"}
  /\ daemon' = "running"
  /\ services' \in Restored
  /\ call' = Refused
  /\ UNCHANGED <<session, client>>

-----------------------------------------------------------------------------
(* receiveChunk *)

FirstNewline_ShortByOne(b, first, last) ==
  IF \E i \in first..(last - 1) : b[i] = NL
  THEN CHOOSE i \in first..(last - 1) : b[i] = NL /\ \A j \in first..(i - 1) : b[j] # NL
  ELSE 0

FirstNewline(b, first, last) ==
  IF \E i \in first..last : b[i] = NL
  THEN CHOOSE i \in first..last : b[i] = NL /\ \A j \in first..(i - 1) : b[j] # NL
  ELSE 0

Remaining == BufferSize - bufferSize

\* The fill after a read without a newline.
FillAfter_Discards(filled) == IF filled = BufferSize THEN 0 ELSE filled
FillAfter(filled)          == IF overflow THEN 0 ELSE filled

\* read() returned 0: the client is gone, or there was no room to read into.
EndOfFile ==
  /\ Remaining = 0 \/ (hungUp /\ wire = <<>>)
  /\ wire # <<>> \/ hungUp
  /\ Close
  /\ UNCHANGED <<services, call, daemon>>

\* read() returned n cells.
Chunk(n) ==
  LET filled == bufferSize + n
      b == [i \in Cells |-> IF i \in (bufferSize + 1)..filled THEN wire[i - bufferSize]
                                                              ELSE buffer[i]]
  IN /\ n <= Remaining
     /\ buffer' = b
     /\ size' = n
     /\ wire' = SubSeq(wire, n + 1, Len(wire))
     /\ nl' = FirstNewline(b, bufferSize + 1, filled)
     /\ IF nl' # 0
        THEN bufferSize' = filled /\ UNCHANGED overflow
        ELSE /\ bufferSize' = FillAfter(filled)
             /\ overflow' = (overflow \/ filled = BufferSize)
     /\ call' = Refused
     /\ UNCHANGED <<services, daemon, open, hungUp, owed, ahead>>

receiveChunk ==
  /\ daemon = "running" /\ open /\ nl = 0
  /\ EndOfFile \/ \E n \in 1..Len(wire) : Chunk(n)

\* The words before the first NUL.
splitCommand(b) ==
  LET end == CHOOSE i \in Cells : b[i] = NUL /\ \A j \in 1..(i - 1) : b[j] # NUL
  IN SubSeq(b, 1, end - 1)

Terminated == [buffer EXCEPT ![nl] = NUL]

\* The line at the front of the buffer; an overlong one is answered only.
Asked ==
  LET argv == splitCommand(Terminated)
  IN IF overflow \/ argv = <<>> THEN Refused ELSE onCommand(argv, DOMAIN services)

\* A router may not be created and a file not be written, and what is read past the
\* end of the words may be taken for anything that names no router.
Outcomes(c) ==
  IF c[1] \in {"getService", "writeConfiguration", "undefined"} THEN {c, Refused} ELSE {c}

ServicesAfter(c) ==
  CASE c[1] = "getService" ->
         [k \in DOMAIN services \cup {c[2]} |-> IF k \in DOMAIN services THEN services[k] ELSE c[3]]
    [] c[1] = "removeService" -> [k \in DOMAIN services \ {c[2]} |-> services[k]]
    [] OTHER -> services

\* sendFormatted composes the reply in m_buffer, whatever is there.
Answered(c) ==
  IF c[1] = "showStats" \/ (c[1] = "showRouter" /\ c[2] # {})
  THEN [i \in Cells |-> IF i <= Len(Reply) THEN Reply[i] ELSE Terminated[i]]
  ELSE Terminated

MoreThanTheLine_OrTheLine == nl <= bufferSize
MoreThanTheLine           == nl < bufferSize

\* m_bufferSize - size - 1: the size of the last read is taken off, where the line
\* should be.  The count is unsigned.
Moved(b) ==
  [i \in Cells |-> IF i < bufferSize - size
                   THEN IF nl + i <= BufferSize THEN b[nl + i] ELSE Junk
                   ELSE b[i]]

MovesTooMuch == MoreThanTheLine /\ bufferSize = size

\* On to the next line in the buffer, whose fill is not reduced by the line.
NextLine(b) ==
  /\ buffer' = IF MoreThanTheLine THEN Moved(b) ELSE Emptied
  /\ bufferSize' = IF MoreThanTheLine THEN bufferSize ELSE 0
  /\ nl' = IF MoreThanTheLine THEN FirstNewline(Moved(b), 1, bufferSize) ELSE 0
  /\ overflow' = FALSE
  /\ owed' = <<>>
  /\ UNCHANGED <<open, size, hungUp, wire, ahead>>

\* Calls for which the kernel makes, removes or looks up a device: where it refuses,
\* Netlink frees a socket twice, or uses a socket or a cache that there is not.
KernelCalls == {"getService", "removeService", "enable"}

\* Words are read that are not there, or memory is moved that is not the buffer's.
Overruns(c) == c = Undefined \/ (c # Ends /\ MovesTooMuch)

\* Nothing handles the SIGPIPE of a reply to a client that hung up.
MayDie(c) == c # Ends /\ (hungUp \/ c[1] \in KernelCalls)

\* One turn of the loop over the lines of a read.
ServeLine ==
  /\ nl # 0
  /\ \E c \in Outcomes(Asked), dies \in BOOLEAN :
       /\ Overruns(c) => dies
       /\ dies => Overruns(c) \/ MayDie(c)
       /\ call' = c
       /\ services' = IF dies THEN NoServices ELSE ServicesAfter(c)
       /\ daemon' = IF dies THEN "crashed" ELSE daemon
       /\ IF dies \/ c = Ends THEN Close ELSE NextLine(Answered(c))

-----------------------------------------------------------------------------

Init ==
  /\ services = NoServices
  /\ call = Refused
  /\ daemon = "running"
  /\ open = FALSE
  /\ hungUp = FALSE
  /\ wire = <<>>
  /\ buffer = Emptied
  /\ bufferSize = 0
  /\ overflow = FALSE
  /\ size = 0
  /\ nl = 0
  /\ owed = <<>>
  /\ ahead = 0

Next ==
  \/ \E line \in Lines : Type(line)
  \/ HangUp
  \/ onIncomingConnection
  \/ receiveChunk
  \/ ServeLine
  \/ stop
  \/ start

\* epoll_wait returns while a descriptor is ready, and a loop in the code runs on.
Spec == Init /\ [][Next]_vars /\ WF_vars(receiveChunk) /\ WF_vars(ServeLine)

-----------------------------------------------------------------------------
(* Properties *)

Words == UNION {{l[i] : i \in DOMAIN l} : l \in Lines}
Contents == Words \cup {NL, NUL, Junk} \cup {Reply[i] : i \in DOMAIN Reply}
Keys == Interfaces \X (1..255) \X Families
Methods ==
  {"getService", "removeService", "enable", "disable", "addIpAddress", "removeIpAddress",
   "setPrimaryIpAddress", "setPriority", "setAdvertisementInterval", "setAcceptMode",
   "setPreemptMode", "setMasterCommand", "setBackupCommand", "writeConfiguration",
   "showRouter", "showStats"}

DaemonTypeOK ==
  /\ DOMAIN services \subseteq Keys
  /\ \A k \in DOMAIN services : services[k] \in Int
  /\ call[1] \in Methods \/ call \in {Refused, Ends, Undefined}
  /\ daemon \in {"running", "stopped", "crashed"}

SessionTypeOK ==
  /\ open \in BOOLEAN /\ hungUp \in BOOLEAN /\ overflow \in BOOLEAN /\ ahead \in 0..MaxAhead
  /\ wire \in Seq(Words \cup {NL})
  /\ buffer \in [Cells -> Contents]
  /\ bufferSize \in 0..BufferSize /\ size \in 0..BufferSize /\ nl \in 0..bufferSize
  /\ owed = <<>> \/ \E l \in Lines : owed = <<l>>

TelnetTypeOK == DaemonTypeOK /\ SessionTypeOK

\* However the network cuts the line of an operator who waits for the prompt, what
\* is in the buffer and what is still to come are that line, and nothing is left of
\* the lines before it.
LineStaysWhole ==
  open /\ ahead = 0 =>
    SubSeq(buffer, 1, bufferSize) \o wire = IF owed = <<>> THEN <<>> ELSE Text(owed[1])

\* No line of an operator who waits for the prompt, and for the answer, kills the daemon:
\* but for a "set router" without a router, and for what the kernel is asked for and may
\* refuse, the devices of a router that is added or removed and the link of one enabled.
OnlyHasteKills ==
  daemon = "crashed" =>
    ahead > 0 \/ hungUp \/ call = Undefined \/ call[1] \in KernelCalls

\* The settings of the usage messages with the calls that they stand for, but "status",
\* which is documented and not implemented.
RouterIds == {w \in DOMAIN Numbers \ DOMAIN FamilyOf : Numbers[w] \in 1..255}
Suffix(k) == IF k[3] = "IPv6" THEN <<"ipv6">> ELSE <<>>
Settings(f) ==
  {<<<<"primary", a>>, "setPrimaryIpAddress", a>> : a \in {w \in DOMAIN FamilyOf : FamilyOf[w] = f}}
    \cup {<<<<"priority", n>>, "setPriority", Numbers[n]>> : n \in RouterIds}
    \cup {<<<<"interval", w>>, "setAdvertisementInterval", Numbers[w] \div 10>> :
            w \in {x \in DOMAIN Numbers : ValidInterval(Numbers[x])}}
    \cup {<<<<"accept", b>>, "setAcceptMode", IsTrue(b)>> : b \in TrueValues \cup FalseValues}
    \cup {<<<<"preempt", b>>, "setPreemptMode", IsTrue(b)>> : b \in TrueValues \cup FalseValues}
    \cup {<<<<"master", "command", w>>, "setMasterCommand", <<w>>>> : w \in RouterIds}
    \cup {<<<<"backup", "command", w>>, "setBackupCommand", <<w>>>> : w \in RouterIds}

\* At any time, a form in which the usage messages add, remove, set (but "status"), enable
\* or disable is understood as what it says, for the router, the family and the VLAN that
\* it names, wherever the words for these stand.  The forms of "show" are left out, whose
\* family the code does not understand, and so is "save", which names nothing.
ManualIsUnderstood ==
  \A i \in Interfaces, n \in RouterIds, f \in Families :
    LET k == <<i, Numbers[n], f>>
        router == <<"router", i, n>> \o Suffix(k)
        Reaches(line, name, value) ==
          onCommand(line, DOMAIN services)
            = IF k \in DOMAIN services THEN <<name, k, value>> ELSE Refused
    IN /\ onCommand(<<"add">> \o router, DOMAIN services) = <<"getService", k, 0>>
       /\ \A v \in DOMAIN Numbers :
            onCommand(<<"add", "router", i, n, "vlan", v>> \o Suffix(k), DOMAIN services)
              = <<"getService", k, Numbers[v]>>
       /\ Reaches(<<"remove">> \o router, "removeService", "")
       /\ Reaches(<<"enable">> \o router, "enable", "")
       /\ Reaches(<<"disable">> \o router, "disable", "")
       /\ \A s \in Settings(f) : Reaches(<<"set">> \o router \o s[1], s[2], s[3])
       /\ \A a \in {w \in DOMAIN FamilyOf : FamilyOf[w] = f} :
            /\ Reaches(<<"add", "address", i, n>> \o Suffix(k) \o <<a>>, "addIpAddress", a)
            /\ Reaches(<<"remove", "address", i, n>> \o Suffix(k) \o <<a>>, "removeIpAddress", a)

\* The line of an operator who waits is executed, or the session ends: in a daemon that
\* has this session only.  The lines that another one's operator typed ahead may keep the
\* daemon for ever.
Responds == open /\ owed # <<>> ~> ~open \/ owed = <<>>

=============================================================================
