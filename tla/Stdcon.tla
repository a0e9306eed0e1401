-------------------------------- MODULE Stdcon --------------------------------
(***************************************************************************)
(* The console device and the logger (stdcon.c) with the drivers that      *)
(* attach to them: the early console and the serial console of sifive,     *)
(* mega_avr and ibex, and the log buffer in memory (stdlog_membuf.c).      *)
(* "drv" sets drivers up and takes them down; "usr" prints, reads and      *)
(* logs, on another core or in an interrupt as well as in drv's thread.    *)
(***************************************************************************)
EXTENDS Naturals, FiniteSets

CONSTANT MEMBUF_SIZE   \* the size of the log buffer

ASSUME StdconConstants == MEMBUF_SIZE \in Nat \ {0}

VARIABLES
  con,         \* con: the driver attached, "null", "early" or "serial"
  conAtt,      \* console_attached
  conLive,     \* the drivers whose console_t and port are allocated
  conMeth,     \* the methods each driver's console_t holds
  conStale,    \* what the freed console_t of the last driver still holds
  conDrv,      \* drv: <<step, driver>>
  conUsr,      \* usr: <<step, method, the con it has loaded>>
  conFault,    \* "none", "null", "dangling" or "stale": what a call went through
  met,         \* auxiliary: the call under way, or the last, met a driver's exit
  serialGone,  \* the serial console has been taken down once
  logAtt,      \* logger_attached
  memPtr,      \* membuf_writeb: pointer
  memRead,     \* membuf_read: pread
  dumping,     \* logger_dprint is running
  dump         \* the cells it has printed so far

conVars == <<con, conAtt, conLive, conMeth, conStale, conDrv, conUsr, conFault, met, serialGone>>
logVars == <<logAtt, memPtr, memRead, dumping, dump>>
stdVars == <<conVars, logVars>>

Drivers == {"early", "serial"}
DrvIdle == <<"idle", "null">>
UsrIdle == <<"idle", "none", "null">>
Runs == conFault = "none"
DrvFree == Runs /\ conDrv = DrvIdle
Meet == met' = (met \/ conUsr # UsrIdle)

-----------------------------------------------------------------------------
(* The drivers. *)

\* The methods a driver sets in its console_t, which malloc does not clear.
EarlyMethods == {"write"}
SerialMethods == {"write", "read", "payload"}

\* Driver setup: the memory of console_t may be the block freed last, with the
\* fields it still holds; when the port's setup fails the driver's exit follows.
DriverSetup(d, methods) ==
  /\ DrvFree /\ d \notin conLive /\ con = "null"
  /\ conLive' = conLive \cup {d}
  /\ \E old \in {{}, conStale} : conMeth' = [conMeth EXCEPT ![d] = methods \cup old]
  /\ \E next \in {"attach", "release"} : conDrv' = <<next, d>>
  /\ UNCHANGED <<con, conAtt, conStale, conUsr, conFault, met, serialGone, logVars>>
EarlyconDriverSetup == DriverSetup("early", EarlyMethods)
ConsoleDriverSetup == DriverSetup("serial", SerialMethods)

\* console_attach_device, its assignments one by one.
ConsoleAttachDevice ==
  /\ Runs
  /\ \/ /\ conDrv[1] = "attach" /\ conAtt' = FALSE
        /\ conDrv' = <<"link", conDrv[2]>> /\ UNCHANGED con
     \/ /\ conDrv[1] = "link" /\ con' = conDrv[2]
        /\ conDrv' = <<"flag", conDrv[2]>> /\ UNCHANGED conAtt
     \/ /\ conDrv[1] = "flag" /\ conAtt' = TRUE
        /\ conDrv' = DrvIdle /\ UNCHANGED con
  /\ UNCHANGED <<conLive, conMeth, conStale, conUsr, conFault, met, serialGone, logVars>>

DriverExit(d) ==
  /\ DrvFree /\ d \in conLive
  /\ conDrv' = <<"release", d>>
  /\ Meet
  /\ UNCHANGED <<con, conAtt, conLive, conMeth, conStale, conUsr, conFault, serialGone, logVars>>
EarlyconDriverExit == DriverExit("early")
ConsoleDriverExit == DriverExit("serial")

\* Mutant of ConsoleReleaseDevice: the flag is left set.
ReleaseKeepsFlag ==
  /\ Runs /\ conDrv[1] = "release"
  /\ con' = "null" /\ conDrv' = <<"free", conDrv[2]>> /\ UNCHANGED conAtt
  /\ Meet
  /\ UNCHANGED <<conLive, conMeth, conStale, conUsr, conFault, serialGone, logVars>>
\* console_release_device: the pointer first, then the flag.
ConsoleReleaseDevice ==
  /\ Runs
  /\ \/ /\ conDrv[1] = "release" /\ con' = "null"
        /\ conDrv' = <<"unflag", conDrv[2]>> /\ UNCHANGED conAtt
     \/ /\ conDrv[1] = "unflag" /\ conAtt' = FALSE
        /\ conDrv' = <<"free", conDrv[2]>> /\ UNCHANGED con
  /\ Meet
  /\ UNCHANGED <<conLive, conMeth, conStale, conUsr, conFault, serialGone, logVars>>

\* The driver's exit frees its memory, which keeps its contents.
DriverFree ==
  /\ Runs /\ conDrv[1] = "free"
  /\ conLive' = conLive \ {conDrv[2]}
  /\ conStale' = conMeth[conDrv[2]]
  /\ serialGone' = (serialGone \/ conDrv[2] = "serial")
  /\ conDrv' = DrvIdle
  /\ Meet
  /\ UNCHANGED <<con, conAtt, conMeth, conUsr, conFault, logVars>>

-----------------------------------------------------------------------------
(* console_putc, console_getc, console_flush, console_get_payload_size. *)
\* The flag is tested ...
Use(m) ==
  /\ Runs /\ conUsr = UsrIdle
  /\ conUsr' = IF conAtt THEN <<"load", m, "null">> ELSE UsrIdle
  /\ met' = (conDrv[1] \in {"release", "unflag", "free"})
  /\ UNCHANGED <<con, conAtt, conLive, conMeth, conStale, conDrv, conFault, serialGone, logVars>>
ConsolePutc == Use("write")
ConsoleGetc == Use("read")
ConsoleFlush == Use("flush")
ConsoleGetPayloadSize == Use("payload")

\* ... the pointer loaded, its method tested ...
LoadCon ==
  /\ Runs /\ conUsr[1] = "load"
  /\ conFault' = CASE con = "null" -> "null" [] con \notin conLive -> "dangling" [] OTHER -> "none"
  /\ conUsr' = IF conFault' = "none" /\ conUsr[2] \in conMeth[con]
               THEN <<"call", conUsr[2], con>> ELSE UsrIdle
  /\ UNCHANGED <<con, conAtt, conLive, conMeth, conStale, conDrv, met, serialGone, logVars>>

\* ... and the method called: it uses the port of the driver it belongs to.
CallMethod ==
  /\ Runs /\ conUsr[1] = "call"
  /\ conFault' = CASE conUsr[3] \notin conLive -> "dangling"
                   [] conUsr[3] = "early" /\ conUsr[2] \notin EarlyMethods -> "stale"
                   [] OTHER -> "none"
  /\ conUsr' = UsrIdle
  /\ UNCHANGED <<con, conAtt, conLive, conMeth, conStale, conDrv, met, serialGone, logVars>>

-----------------------------------------------------------------------------
(* The logger and the log buffer. *)
LoggerAttachDevice ==
  /\ Runs /\ ~logAtt /\ logAtt' = TRUE
  /\ UNCHANGED <<conVars, memPtr, memRead, dumping, dump>>
LoggerReleaseDevice ==
  /\ Runs /\ logAtt /\ ~dumping /\ logAtt' = FALSE
  /\ UNCHANGED <<conVars, memPtr, memRead, dumping, dump>>

\* membuf_writeb: a backspace steps back; a full buffer starts over.
MembufWriteb(backspace) ==
  memPtr' = IF backspace /\ memPtr > 0 THEN memPtr - 1
            ELSE IF memPtr = MEMBUF_SIZE THEN 1 ELSE memPtr + 1
\* logger_putc.
LoggerPutc ==
  /\ Runs /\ logAtt /\ \E b \in BOOLEAN : MembufWriteb(b)
  /\ UNCHANGED <<conVars, logAtt, memRead, dumping, dump>>

\* Mutant of MembufRead: the reading position is not taken back.
MembufReadRunsOn ==
  /\ dump' = dump \cup {memRead}
  /\ memRead' = memRead + 1
  /\ dumping' = (memRead + 1 # MEMBUF_SIZE)
\* membuf_read: returns success, which ends the loop, with the last cell.
MembufRead ==
  /\ dump' = dump \cup {memRead}
  /\ memRead' = (memRead + 1) % MEMBUF_SIZE
  /\ dumping' = (memRead + 1 # MEMBUF_SIZE)

\* syslog_print, logger_dprint.
LoggerDprint ==
  /\ Runs /\ logAtt
  /\ \/ ~dumping /\ dumping' = TRUE /\ dump' = {} /\ UNCHANGED memRead
     \/ dumping /\ MembufRead
  /\ UNCHANGED <<conVars, logAtt, memPtr>>

-----------------------------------------------------------------------------
StdInit ==
  /\ con = "null" /\ conAtt = FALSE /\ conLive = {} /\ conStale = {}
  /\ conMeth = [d \in Drivers |-> {}]
  /\ conDrv = DrvIdle /\ conUsr = UsrIdle /\ conFault = "none" /\ met = FALSE /\ serialGone = FALSE
  /\ logAtt = FALSE /\ memPtr = 0 /\ memRead = 0 /\ dumping = FALSE /\ dump = {}

StdNext ==
  \/ EarlyconDriverSetup \/ ConsoleDriverSetup \/ EarlyconDriverExit \/ ConsoleDriverExit
  \/ ConsoleAttachDevice \/ ConsoleReleaseDevice \/ DriverFree
  \/ ConsolePutc \/ ConsoleGetc \/ ConsoleFlush \/ ConsoleGetPayloadSize \/ LoadCon \/ CallMethod
  \/ LoggerAttachDevice \/ LoggerReleaseDevice \/ LoggerPutc \/ LoggerDprint

StdSpec == StdInit /\ [][StdNext]_stdVars

-----------------------------------------------------------------------------
\* console_putc, console_getc, console_flush and console_get_payload_size, over
\* every order of driver setups and exits: a call goes to the attached driver
\* while its memory is allocated, also when a setup on another core or in the
\* interrupted thread is half way; through NULL or freed memory only when it met
\* an exit (neither takes a lock); a method the driver did not set is called
\* only once a serial console was taken down and its console_t reused; and a
\* dump of the log reads each cell once and leaves the next dump at cell 0,
\* whatever was logged meanwhile.
StdconSafe ==
  /\ conFault \in {"null", "dangling"} => met
  /\ conFault = "stale" => serialGone
  /\ IF dumping THEN dump = 0 .. memRead - 1
     ELSE memRead = 0 /\ dump \in {{}, 0 .. MEMBUF_SIZE - 1}
  /\ memRead < MEMBUF_SIZE /\ memPtr <= MEMBUF_SIZE
=============================================================================
