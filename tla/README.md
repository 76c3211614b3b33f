# OpenConnect: models, checks and proofs

TLA+ models of the OpenConnect VPN client, the TLC runs that check them on small
instances, and theorems about them that TLAPS proves for every value of the
constants. Paths are relative to `src/`. `PROJECT.json` lists, for every
definition that models code, the lines it stands for.

    tlc -config Loop.cfg MCLoop.tla              # one run
    tlapm Loop_proofs.tla                        # one module of proofs

## 1. The system

OpenConnect obtains an authentication cookie over HTTPS, makes a tunnel over TLS
in one of several vendors' protocols, optionally a second one over UDP (DTLS or
ESP) beside it, and then runs one loop that moves packets between a tun device
and whichever tunnel is up. Nearly everything happens in one thread, in
non-blocking steps. What makes it hard is not parallelism inside the program but
everything that happens between two steps of it: connections that stall, fail
and are replaced while packets are half sent, two transports that share a queue
and a buffer, servers that redirect, challenge and repeat themselves, commands from
signal handlers and other threads, a second process during the start, the kernel's
threads behind the tun device, and timers that all have to shorten the same sleep.

### Components

| component | state it keeps | operations | modules |
|---|---|---|---|
| main loop (`mainloop.c`, `ssl.c:1264`) | `did_work`, `timeout`, `quit_reason`, `delay_tunnel_reason`, `delay_close`, reconnect time and interval | a round; `ssl_reconnect()`; sleeping; closing | `MainLoop` |
| command pipe and signals (`ssl.c:947-1025`, `main.c:809`, `library.c:1349`) | pipe, `need_poll_cmd_fd`, `got_cancel_cmd`, `got_pause_cmd`, `cancel_type` | write, flag, poll, read, obey | `MainLoop`, `Client` |
| command line client (`main.c`), pid file, background | two processes, the pid file, `ret` | signal handlers to exit code, `background_self()` | `Client` |
| AnyConnect connection (`cstp.c:226-799`, `dtls.c:99-201`), MTU (`dtls.c:473`) | `dtls_state`, session ids, `ip_info.mtu`, the interval of the search | CONNECT with its answers, DTLS handshakes, probes | `CstpConnect` |
| AnyConnect data path (`cstp.c`, `dtls.c`) | `outgoing_queue`, `current_ssl_pkt`, `deflate_pkt`, `dtls_state`, session ids | both mainloops, reconnection, rekeying, BYE | `CstpDtls` |
| timers (`mainloop.c:424-521`) | `struct keepalive_info` | `keepalive_action()`, `ka_stalled_action()`, `ka_check_deadline()` | `Keepalive` |
| ESP replay filter (`esp-seqno.c`) | `seq`, `seq_backlog` | `verify_packet_seqno()` | `EspSeqno`, `EspReplay` |
| Network Connect, Pulse, GlobalProtect, Array (`oncp.c`, `pulse.c`, `gpst.c`, `array.c`, `esp.c`) | `dtls_state`, probes, keys, `tcp_control_queue`, the time of the last host check | the protocols' TLS and UDP loops, connecting, keys, HIP checks | `TunnelBase`, `TunnelEsp`, `TunnelNc`, `TunnelPulse`, `TunnelGp`, `TunnelArray`, `Tunnels` |
| PPP for F5 and Fortinet (`ppp.c`, `f5.c`) | `struct oc_ppp`, control queue, `dtls_state` | negotiation, termination, change of transport | `Ppp` |
| HTTP client (`http.c`, `http-auth.c`) | connection, cookies, redirect, `http_auth`, `proxy_auth` | `do_https_request()`, `process_proxy()`, the methods' state machines | `Http`, `HttpAuth` |
| logins of seven protocols (`auth*.c`, `pulse.c`, `oncp` pages, `f5.c`, `fortinet.c`, `array.c`) | the form, tries, the group, host scan, cookies | each protocol's `obtain_cookie` | `AuthForm`, `LoginBase`, `LoginCstp`, `LoginHtml`, `LoginGp`, `LoginPulse`, `Login` |
| one-time passwords (`oath.c`, `main.c:2955-3032`) | the HOTP counter, where it is stored | lock, generate, store | `Hotp`; counts of tries in `AuthForm` |
| TLS connections and certificates (`gnutls.c`, `ssl.c`, `main.c`) | socket, session, credentials, `peer_cert`, PIN cache, accepted certificates | connect, load the client's certificate, verify the peer, wait, renegotiate | `Tls`, `ClientCert` |
| tun device, vhost-net (`tun.c`, `vhost.c`, `mainloop.c:50`) | descriptors, rings, eventfds | set-up, rings, kicks, calls | `Tun`; set-up in `Client` |
| vpnc-script (`script.c`) | the environment | `prepare_script_env()`, the order of reasons | `ScriptEnv`, `Client` |
| OpenSSL back end, TPMs, tokens' hardware, NTLM/GSSAPI contents, LZS/LZO, other systems' tun devices, JNI, XML, JSON, iconv | | | not modelled: conversions, the work of a library, or not part of a Linux build with GnuTLS; where one of them may fail, stall or refuse, the models that call it have that as a choice |

`PROJECT.json` has the full list with a note for each.

### How they interact

* `openconnect_obtain_cookie()` runs a protocol's login, which makes HTTP requests,
  which open TLS connections, which load the client's certificate. What comes back
  at each border is a small set of results, so each of these is a model of its own
  whose caller chooses among the results that the model below can give:
  `Login` over `Http` over `Tls`.
* `make_cstp_connection` and the set-up of UDP follow, then the loop. It
  calls `udp_mainloop`, `tcp_mainloop` and `tun_mainloop` in this order
  each round, and sleeps when none of them did any work, for the shortest
  timeout any of them set.
* The two transports share `outgoing_queue`, `deflate_pkt` and `dtls_state`: the
  UDP side takes packets when its tunnel is up, the TLS side when it is not.
* `ssl_reconnect()` is called from inside `tcp_mainloop` and calls back
  `tcp_connect`, which for PPP runs the protocol's loop again.
* Commands enter through a pipe that is read in three places: at the foot of
  each round, between attempts to reconnect, and in every wait of an attempt.
* PPP asks the loop for time through `delay_close` and `delay_tunnel_reason`,
  AnyConnect and GlobalProtect through the latter: fields that the loop clears and
  several functions set again.
* The tun device is set up in the loop, by whichever of two processes runs the
  session, and vpnc-script is run with an environment made from the addresses that
  the last connection brought.

### What is hard, and what would be correct

1. *Replay*: no packet is taken twice and no fresh one refused, for any order of
   arrival and at the end of the sequence space.
2. *Commands*: none is missed though the flag is set and cleared without a lock;
   a cancel ends the session whatever the loop is doing; a session is left open on the
   server after a detach, and otherwise only when the system refuses a call of the loop.
3. *Packets across transports*: each packet from the tun device is sent once; a
   TLS write that stalled is repeated with the same bytes; compression streams
   stay in step; none waits for ever.
4. *Timers*: a dead peer is found in time and a live one is kept, although one sleep
   serves all deadlines.
5. *UDP beside TLS*: what the client tells the server agrees with what it does, keys
   that the server has dropped are not used, UDP comes back after a failure, and a
   host check that is due is made.
6. *PPP*: nothing agreed on one connection is used on another, the tun device
   waits for the negotiation, and termination is not skipped.
7. *HTTP*: cookies and requests go to the server they are meant for, responses are
   read to their end before the next request, refused credentials are not repeated,
   and every request ends whose answer is not cut short.
8. *Logins*: no password is posted twice, codes are limited, the group posted is the
   one shown, programs of the server are run once, probes end.
9. *Tokens*: no one-time code is sent twice, through crashes and other programs.
10. *TLS*: data only goes to a server that is known *now*; wrong PINs are not
    repeated; certificates belong to the key and are in order.
11. *The machine*: the script is run in pairs and told what stays true, the pid
    file is right, the loop listens to all it has to, packets keep their order
    through the rings and none is stuck behind a lost wakeup.
12. *MTU*: the search ends with a size that was answered, and with the largest.

The list of hazards in `PROJECT.json` gives the line where each one bites.

## 2. Modules

| module | role |
|---|---|
| `EspSeqno`, `EspReplay`, `OnceOnly` | `verify_packet_seqno()` as operators on a window; one incoming ESP context under a network that repeats and reorders; what a replay filter promises, with unbounded memory, which `EspReplay` implements |
| `MainLoop` | the loop, `ssl_reconnect()` and the pipe with its writers; a protocol is what its `tcp_mainloop` may come back with |
| `CstpConnect` | an AnyConnect tunnel being made: request, answer, DTLS connecting beside the loop's turns, MTU search |
| `CstpDtls` | AnyConnect's two mainloops and the tun device, taken in turn |
| `Keepalive` | the timers of one connection with a clock in seconds |
| `TunnelBase`, `TunnelEsp`, `TunnelNc`, `TunnelPulse`, `TunnelGp`, `TunnelArray` | what four data paths share; `esp_mainloop()`; the steps of each protocol |
| `Tunnels` | composes them: one session of one of the four protocols |
| `Ppp` | `ppp_mainloop()`, its state machine, the two transports below it and the round of the loop above it |
| `HttpAuth`, `Http` | the state machines of the authentication methods as operators; `do_https_request()` with redirects, proxies, connections and retries |
| `AuthForm` | forms, the callback that fills them in, tokens' codes and bodies, as operators |
| `LoginBase`, `LoginCstp`, `LoginHtml`, `LoginGp`, `LoginPulse`, `Login` | the state and the shared steps of a login; the steps of each family of protocols; the composition |
| `Hotp` | HOTP tokens in storage that several programs share |
| `ClientCert`, `Tls` | loading the client's certificate; connections, the peer's certificate, waits |
| `ScriptEnv`, `Client` | the script's environment as operators; the client from its signal handlers to its exit code |
| `Tun`, `PacketPipe` | the loop and the kernel's vhost threads on shared rings, or the loop on the device; what each direction promises to packets, without queues and rings, which `Tun` implements twice |
| `MCParts`, `MCLoop`, `MCCstp`, `MCTls`, `MCTun`, `MCClient` | scenarios and instances for TLC |
| `Parts_proofs` (of `EspReplay`, `Hotp` and `CstpConnect`, as `MCParts` has them, and `Ppp`), `Loop_proofs` (of `MainLoop` and `Keepalive`), `Client_proofs` (of `Client` and `Tun`), `CstpDtls_proofs`, `Tunnels_proofs`, `Http_proofs`, `Login_proofs`, `Tls_proofs` | theorems |

Conventions. `pc` names the place in the code where the (one) thread is; every
action is the code from one such place to the next, with its guards. What the
network, the peer, the server and the user do is chosen by the actions that read,
write, connect, or poll. Variables keep the names of the C fields; those marked
*history* in their declaration record what has happened and are never read by a
guard of the code. Definitions headed *Broken on purpose* (a name with a suffix, such as
`LookAtUsed_Trusts`) are variants of the definition after them with a plausible
bug; nothing uses them, and substituting one for its original makes the run
named in `PROJECT.json` fail, which shows that the property depends on that code.

### From code to model

* `EspReplay`. One step offers the filter one sequence number, as
  `decrypt_esp_packet()` does after the HMAC has been verified. The distance to
  the expected packet is computed modulo 2^32 as in the code (`Behind`), and a
  shift by the width of the word or more clears the backlog, as the code takes
  care of.
* `MainLoop`. The signal handler's `write()` and its setting of
  `need_poll_cmd_fd` are two steps (`WriteCommand`, `SetPollFlag`); so are
  clearing the flag, polling, and reading, in each of the places that do so. A
  round is `Top`, the tun device's set-up, the protocol (`TcpQuiet`,
  `TcpServerQuits`, `TcpLost`), `Poll`, what is obeyed and the sleep. Time in
  `ssl_reconnect()` is the sum of its pauses. Three calls may be refused with no
  `quit_reason` set: what the tun script needs (`TunFails`), the change of user, when the
  device is up already (`ChangeUserFails`), and `epoll_wait()` or `select()` (`SleepFails`);
  the history `refused` names which.
* `CstpConnect`. Headers are kept as what they decide: a session id, an MTU, a base
  MTU, or a wrong one somewhere. `SetUpTun` is the top of the loop's turn, which
  spends one reason to wait per turn. The search keeps `min`, `max`, `cur`, `last`,
  `tries`; `net` holds the sizes whose answers are under way, from which they come
  late, twice, in any order or not at all. Sizes are units with all headers of one or
  two units. `faulty` records that the network lost or delayed something, since only
  then may the search end below the largest size.
* `CstpDtls`. `pc` runs through `dtls_mainloop()` and `cstp_mainloop()`. A packet
  is its number, and grows, shrinks or stays in compression. `deflate_pkt` is the
  packet whose compressed form it holds, so that overwriting it while TLS has to
  repeat a write of it is visible. The deflate stream and the peer's are
  sequences of packets that are emptied when a TLS session is made.
* `Keepalive`. `last_rx`, `last_tx`, `last_dpd` and `last_rekey` are compared as
  in the code. The clock advances only while the loop sleeps, up to the wakeup
  the code has computed: a deadline that does not shorten the sleep is therefore
  late in the model, too.
* `Tunnels`. `proto` selects the steps; those of the others are disabled. Each step of
  `udp_mainloop`, `tcp_mainloop` and `tun_mainloop` is an action; the server's view of
  UDP (`told`) and whether its keys are still good (`keys_valid`) are kept beside the
  client's. Timers are choices, except for the one thing that matters here: whether
  the loop goes to sleep with none set.
* `Ppp`. `struct oc_ppp` keeps the state and the four flags of each protocol that
  the code looks at. Control packets are pairs of a code and a protocol.
  `handle_state_transition()` is split by the state it finds (`Establishing`,
  `Opening`, `NetworkUp`, `StaysUp`, `Terminating`), its three call sites by
  `back`. Whether a deadline has passed is chosen when `ppp_mainloop()` is
  entered, and a second that is over stays over.
* `Http`. The loop of `do_https_request()` is cut at each call that reaches the
  network. `conn` is the server at the other end of the connection, `hostname` the
  one that is meant; `unread` says that a response has not been read to its end.
  A body that the server cuts short is read again and again, each time nothing
  (`BodyCutShort`): that place, `spinning`, has no way out. `HttpAuth` has each method's
  function with the states of `http_auth` (-3 to 4).
* `Login`. A form is the set of things the later code looks at (fields, groups, tokens,
  whether it was shown before), the user's answers are those of `process_auth_form_cb()`
  in `main.c`, and a request may fail or bring anything that the parser takes.
  Typed passwords and codes are numbered, which makes it visible that one is sent again.
* `Hotp`. `do_gen_hotp_code()` is four steps, with a crash of the program possible
  between any two, and with the file of the command line client opened (which empties
  it) and written in separate steps.
* `Tls`. `peer_cert` is the library's copy, `shown` what the server has at this moment;
  whom the library trusts is the CA file (`cafile`) and, unless there are fingerprints
  (`pins`) or it is turned off, the `system`. `validate_peer_cert()`, which looks at the
  fingerprints and asks the user, is called only when the library trusts neither;
  files of certificates are lists of names with an issuer function, so that
  building the chain, looking for the key's certificate and assigning it are steps of
  `ClientCert` with lists as small as real ones.
* `Client`. Two processes share the pipe and the epoll descriptor and have copies of
  everything else. The rounds of the loop are reduced to what they may find, as
  `MainLoop` has them whole.
* `ScriptEnv`. The environment is a function from the variables that are set to their
  values; a route is its family, its network and what stands after the slash. The walk
  over the routes (`Split`) is a recursive function over positions in the list, so
  that it can be proved about.
* `Tun`. Every access to memory shared with the kernel that the barriers of `vhost.c`
  separate is a step of its own: publishing an index and looking at the other side's
  event index, setting one's own and looking at the ring again. The kernel's half
  (`Take`, `GiveBack`, `Call`, `AskForKick`, `LookAgain`, `Kicked`) is external: it
  follows the protocol that `vhost.c` relies on. That the eventfd can be read (`readable`,
  `vhost_r` in the code) is only forgotten when a turn has done no work at all (`EndsTurn`):
  a turn that found something after it had read the eventfd reads it again in the next,
  and may take a call that came meanwhile. `PacketPipe` is mapped to twice: to the
  server, where `asked` packets are put in and come out in `sent`, none lost; and to the
  device, where `received` are put in and come out in `written` but for those `dropped`.

## 3. Runs

| run | instance | distinct states | what it shows |
|---|---|---|---|
| `parts` | ESP: 4 backlog bits, sequence numbers 0..8. HOTP: two programs, 4 codes, 2 crashes. AnyConnect connection: paths of 7 and 9, MTU 8, minimum 2, 2 tries per size, 2 further connections | 3.1 M | the window is exact and implements `OnceOnly`; no code is sent twice; the MTU search ends with an answered size, the largest unless something was lost |
| `loop` | the main loop: 3 commands of any kind, 1 loss, 3 units of reconnect time, 2 delays. Timers: DPD 4 s, keepalive 3 s, rekey 10 s, 22 s of TLS and of DTLS | 1.2 M | commands are read, a cancel ends, reconnection is bounded, only a detach or a refused call keeps the session; dead peers found, live ones kept |
| `cstp_dtls` | 2 packets with deflate on TLS and LZS on DTLS, rekeying by a new tunnel; 3 packets without compression, rekeying in place; queue of 2 | 171 k | each packet once, stalled writes repeated, streams in step, and without compression everything is sent in the end |
| `tunnels` | each of four protocols with 1 packet, 1 repeated probe, 1 key message, 2 checks of the host, 1 loss of TLS or pause, 1 retry | 94 k | the server not misled, GlobalProtect's keys valid, nothing stuck, UDP comes back, a host check that is due is made unless the loop sleeps without a timer |
| `ppp` | both network protocols, with and without DTLS, any number of losses, pauses and attempts | 8.7 M | tun device and data wait for the negotiation on the connection in use; TERMREQ before a cancel is obeyed |
| `http` | 2 hosts, 2 requests, 2 redirects, servers that want Negotiate (and Bearer on request), proxies that want any of NTLM, Digest and Basic, or none | 824 k | cookies and requests with their host, connections in step, refused credentials not repeated, requests end but for bodies cut short |
| `login` | seven protocols, 3 groups, 2 typed passwords, 3 codes | 702 k | passwords once, codes limited, one host scan, the group kept, probes end |
| `tls` | 2 hosts, 2 certificates, 2 addresses, 3 connections, 2 wrong PINs; a CA file or a system that vouches for one of them, or neither | 1.3 M | the peer is known, secrets not repeated, the chain fits |
| `client` | 3 protocols, 2 signals, 1 loss, every option that changes the life of the processes; and one session with every short list of routes | 2.8 M | the script in pairs and told the truth, routes numbered, the pid file right, the loop hears |
| `tun` | rings of 2, indexes modulo 4, 3 packets in one direction or 1 in each, 1 refusal | 596 k | packets in order, each direction a pipe that loses only what the device refuses, all delivered |
| `client_nbns` | one AnyConnect session | 1 k | the first finding of section 5 |
| `tls_servercert` | as `tls` | 30 k | the second finding of section 5 |

`parts` is one run for three modules that share nothing, each far too small for a run
of its own, and `loop` one for two that share nothing but the loop's time; the others
answer one question each. The type invariants of
`EspReplay`, `MainLoop`, `CstpDtls`, `Keepalive`, `Tunnels`, `Hotp` and `Ppp` are proved, that
of `Tun` (`Typed`, `Queues`) is part of its inductive invariant; those of
`Http`, `Login`, `Client` and `Tls` (`TypeOK`) hold over the whole
state space of the run when it is checked with them as the invariant.

### Bounds, and why they are enough

* `parts`. ESP: a jump of less than, exactly and more than the width, a late
  packet at every position, both ends of the sequence space, and the wrapped
  distance (`seq = MaxSeq + 1`) all occur; the theorems are for every width. HOTP: two
  programs give every interleaving of two, and a third code after a crash; the theorem
  is for any number. MTU: between 2 and 8 the search halves three times, rounds both
  ways, and meets a path that is larger, as large as, and smaller than what it tries;
  the two tries stand for six. A later connection finds the path changed.
* `loop`, the main loop: three commands give every pair with one to come after it, in the
  pipe or half written; a reconnect time of three intervals with a limit of two
  lets the interval grow, reach its limit, and the time be exceeded. Two delays
  are one for the tun device and one for the close, or two closes.
* `cstp_dtls`: a queue of two is filled, with one more being written.
  Losses, stalls, rekeyings and DTLS attempts are not bounded; `MaxSid` bounds
  the new session ids the server gives out, one of which is enough to make
  the old one stale.
* `loop`, the timers: 22 seconds are two rekey periods and five DPD periods. The periods
  are pairwise different and not multiples, so that every order of deadlines
  occurs. A stall of a second, a delay of a second and one lost packet are what
  the given DPD period tolerates (`Answerable`); the proofs are for all values
  that satisfy it.
* `tunnels`: one packet is enough for "lost or stuck", these being about each packet
  by itself. One key message and one loss may happen at any point against each other,
  which is where the state they share goes wrong; a second loss starts from a state
  that the first has reached. Two checks of the host, since what the first one leaves
  behind decides whether the second is made: after one over HTTPS the loop may sleep
  without a timer (section 5), which is the case `HipRechecked` excepts by name.
* `ppp`: no counters. `MaxControl` bounds the control queue: with one packet in
  it, no other packet arrives that is answered and no request is repeated, and
  with two no connection is lost or paused; `ppp_reset()` leaves the queue alone,
  so without a bound it grows over connections that take nothing. With one
  packet left over every kind of stale packet is met on every new connection.
* `http`: two redirects are there and back, two requests show what the first leaves
  behind; methods that take several rounds (Negotiate, NTLM) and one round (Digest,
  Basic) take part, and the three of the proxy are enough for one to fail, one to be
  used, and one to be left. The theorems are for every choice of methods.
* `login`: three groups, one without fields of its own, are "the one shown", "the one
  asked for" and "the one that leads elsewhere". Two passwords and three codes exceed by
  one what the properties allow, where they limit something.
* `tls`: three connections are one to leave something behind, one to another host, and
  one back. The scenarios of `MCTls` vary the server or the client's
  certificate, not both: they meet only in whether there are credentials.
* `client`: two signals are one to each process, or two to one; one loss is enough for
  other addresses. Lists of routes have up to three entries of both families.
* `tun`: rings of two are full with one packet more on its way; the indexes of the ring
  that is read wrap during the run. From the VPN come fewer packets than there are
  indexes (65 536 in the code): with as many the order is lost (section 5). The
  theorems have no such bound: their condition is the meaning of `avail_event`.

### Fairness

* `MainLoop`: the thread runs while it is not asleep and a writer that has
  written its byte sets the flag. Nothing is assumed to wake a sleeping loop,
  except after a command has been put off: PPP's deadline of a second then limits
  the sleep (`ppp.c:994`). That holds from the second call on; the branch that
  queues the first TERMREQ sets no deadline of its own and relies on the packet
  being written. If that write stalls, it is the socket or DPD that wakes the
  loop.
* `CstpDtls` (`MCCstp` for the uncompressed instance): the loop runs and a device with
  packets is read; strong fairness only for rounds without DPD or keepalive due, which
  exist since those come seconds apart, and for a repeated write to work, which is what
  a connection left alone means. Sending is claimed only if losses, failures and pauses
  cease.
* `Tunnels`: likewise, with a new attempt due some time after the last, GlobalProtect's
  five seconds passing, and a probe of an attempt without end answered in the end. One condition of strong
  fairness stands for two, Array's connecting and the probes of the others, since no
  protocol has both.
  `UdpComesBack` assumes that the loop is woken again and again, because its own
  timer does not always do so (section 5). `NoneStuck` leaves out two situations in which
  GlobalProtect's packets do wait, `Kept` and `Overslept`, described there.
* `Http`: the client does not stop within a request and the network reports every
  failure. `RequestEnds` leaves out the one place where the code spins. `Login`: users
  answer, requests end (which `Http` shows, but for that). `ProbeEnds` leaves
  out servers that ask for several certificates.
* `Client`: both processes run; its properties are safety properties.
* `Tun`: the kernel runs its threads and the loop's; nobody has to send.
  Timeouts of the loop do not help: `TunPoll` has no timer.
* `Keepalive`, `Ppp`, `Tls`, `Hotp`, `EspReplay`, `CstpConnect` have no fairness; their
  properties are safety properties, and bounds on time.

## 4. Proofs

| theorem | states |
|---|---|
| `BacklogExact`, `NoPacketTakenTwice`, `NoFreshPacketLost`, `WindowImplementsOnceOnly` | each bit of the backlog tells whether its packet was received; no packet is taken twice; no fresh one within the window is refused; the window implements the filter with unbounded memory |
| `SleepsBounded`, `SessionsAreClosed` | `ssl_reconnect()` pauses for less than its timeout and one interval; a session whose device is up is left unclosed by a detach or a refused call, and by nothing else |
| `CstpDtls_proofs!TypeCorrect`, `StalledWritesRetried`, `StreamsStayInStep`, `DtlsIsReplaced` | types, with the bound on the queue; a stalled write is repeated; the deflate streams agree; DTLS with a replaced id is about to be made anew |
| `KeepaliveType`, `DeadPeersAreFound`, `TimersAreKept`, `LivePeersAreKept` | a silent peer is given up in two and a half periods; keepalives and rekeyings are on time; a peer that is `Answerable` is kept |
| `PacketsAreKept` | each packet from the tun device is queued, being written or sent, once, over any number of losses of either transport |
| `PeersAreKnown`, `SecretsAreNotRepeated`, `ChainsFit` | data goes only to a peer that is known now: one that `--servercert` names, that the CA file vouches for or, without `--servercert`, that the system vouches for or the user accepted; the library offers no refused passphrase or PIN again; the chain starts with the key's certificate and each other one has signed the one before it |
| `ScriptsArePaired`, `PidsAreTrue`, `LoopsHear` | the script's reasons in pairs and in order; the pid file names the process that has the session; a sleeping loop watches all it has to |
| `RoutesAreNumbered` | for any lists of routes of both families, some of them discarded, the script is told of each good one under the next number, and of as many as there are |
| `WhatWasToldStaysTrue` | what the script was told of the addresses is true of the session as long as the device is up, over any number of offers from a server that names no netmask without an address when it is connected to again |
| `CookiesStay`, `ResponsesAreRead`, `RejectedIsNotRepeated` | requests and cookies go to the server that is meant; none is written after a response half read; refused credentials are not sent to the proxy again |
| `RequestsAreBounded` | every step of a request lowers its `Rank`, a natural number of at most `Longest`, so that after no more steps than that it has ended or is left in a body cut short, for any servers, proxies, methods and number of redirects |
| `Tunnels_proofs!TypeCorrect`, `ServersAreNotMisled`, `GpKeysAreValid` | types, with the bound on the queue; a server that sends over UDP is told when the client gives it up; no key is used that the gateway has dropped |
| `PasswordsArePostedOnce`, `CodesAreLimited`, `HostScansAreRunOnce`, `GroupsAreKept` | in every protocol but for the cases `NotPostedTwice` names, a configured password is posted once; no more codes of a token are made than its mode allows; the host scan runs once for a ticket; the group that is posted is the one that was asked for, if the form has it |
| `NothingRunsAhead`, `CancelsAreAnnounced`, `PppTypes` | no tun device is set up and no data is sent over PPP before the protocols wanted are agreed on the connection in use; a cancel is obeyed after a TERMREQ; types |
| `PipesFollowEvents` | each direction of the device implements `PacketPipe`, however many packets come, as long as an index equal to `avail_event` means that the kernel has nothing left: what happens to the rings and queues is a packet put in, taken next after those before it, lost in its turn, or nothing |
| `OrderFollowsEvents` | under the same condition, what was sent and what waits in the queue to be sent are all packets in order (`PacketsInOrder`) |
| `MtusAreFound` | the MTU search ends with an answered size, the largest one unless something was lost |
| `HotpType`, `NoCodeSentTwice` | types; with a lock, or for one program with a file it can write, no code is sent twice, for any number of programs, codes and crashes |

They rest on the named assumptions on constants only (`WindowAssumption`,
`ProtectAssumption`, `MainLoopAssumption`, `CstpDtlsAssumption`, `KeepaliveAssumption`, `HotpAssumption`,
`ClientCertAssumption`, `HttpAssumption`, `TunnelAssumption`, `AuthFormAssumption`, `PartsAssumption`, `PppAssumption`, `TunAssumption`, `ClientAssumption`), which
TLC evaluates in the runs. `OrderFollowsEvents` and `PipesFollowEvents` are about
the behaviours in which `EventMeansIdle` always holds, which is what the code takes for
granted and the kernel does not promise (section 5);
`LivePeersAreKept` also assumes `Answerable`, which says how long a peer may take;
`WhatWasToldStaysTrue` assumes `NetmaskNeedsAddress`, which keeps out the case at the end of
section 5 in which the code compares nothing (`library.c:664-672`), and which the scenarios
of the run satisfy.

How they go:

* *Replay.* `WindowTellsTruth` is inductive with the types. Its step is
  `UpdateTellsTruth`, a lemma on `Update` by the four cases of the code (next
  packet, jump within the word, jump beyond it, late packet);
  `BehindValue` has the arithmetic modulo 2^32, in which `seq = 2^32` and packet
  0 is the case apart. `AncientIffTooOld` relates the distance to the abstract
  filter's memory, and the refinement maps `seen` and `verdict` to themselves.
* *Main loop.* `ReconnectTimeBounded` is not inductive: `BudgetKept` adds that
  what has been slept and what is left are the timeout while the loop
  reconnects, and how far below zero the last pause may take it.
  `OnlyDetachKeepsSession` needs `CommandsGiven` (a flag that is set, a byte in the
  pipe, and `cancel_type` come from a command that was given) and `WaysOut` (the loop
  is left with a reason to quit, on a refused call, or on a detach, and never on two of them).
* *AnyConnect.* `BufferHeld` says when `pending_deflated_pkt`, `current_ssl_pkt` and
  `deflate_pkt` are about the same packet, which is what makes a stalled write
  repeatable (`StalledKept`), what the streams differ by while a write is
  under way (`StreamsInStep`) and why there may be one packet more in the queue than
  `max_qlen` (`QueueBounded`). For `PacketsAreKept` the places where a packet may be are
  counted (`Counted`), those not yet read from the device at none; `TimesAppend` and
  `TimesTail` say what appending and taking the head change in the count.
* *MTU.* `Fitting` and `LowerEnd` keep the lower end answered. `UpperEnd` says that
  above the upper end nothing fits, as long as the network is faultless, but for what
  the kernel rules out by itself; `ProbeOut` that a faultless network has the answer to
  the current probe under way or the probe was too large. Arithmetic on halving
  is in lemmas of its own.
* *UDP beside TLS.* What the server has been told (`ToldHere`) and what the client has
  in its queue to take it back (`Retracted`) are related to `dtls_state` at every place of
  the loop, for which it takes to know what `pc` says of the state (`Probing`, `Places`).
  Each protocol's steps have lemmas of their own.
* *PPP.* `OnConnection` says which connection each place of the round is about. In one
  round DTLS may take over from TLS before TLS is closed: `TakesOver` says that nothing
  has been agreed by then and nothing of TLS is left to write. `UpHere` and `TunWaits`
  relate the network's state and `delay_tunnel_reason` at every place (the reason is set,
  or the network was up), and `CloseWaits` the TERMREQs to the cancel that waits for them.
* *Device.* A ring is seen as a line of its descriptors (`LineOf`), from the first that the
  loop has not looked at: given back, with the kernel, available, free. `Whole` says that
  each descriptor has one place in it, although both halves of the ring name them and
  both sides write; `HeldIn` that those in use have a packet and the free ones none. That is
  inductive by itself, with one lemma for each of the four moves (`TakenWhole`,
  `GivenWhole`, `PublishedWhole`, `ReusedWhole`). On it rest the numbers of the packets
  in line (`Rx`, `Tx`), from which those in the queues go on. Only writing past the ring
  needs more, that the kernel has nothing left: the theorems have that as their condition
  (`EventMeansIdle`). The refinement of `PacketPipe` follows step by step: only the steps that the
  kernel takes from the ring or the loop writes itself, move a packet in the pipe
  (`ServerPipe`, `DevicePipe`), and that it is the next one is what the line says.
* *HTTP.* `Connected` says at each place whose connection is open and whether a response is left
  on it. For the proxy, `WalkEnds` describes a walk through the methods: those before
  the one that answers have failed or are not offered, those after it are untouched.
  `Spent` says that a method that was turned down is not available any more, `InOrder` that one in
  progress has nothing better before it, `Awaited` and `BetweenOpenings` what the proxy was last sent.
  `Rank` counts the redirects left, then the places of one attempt, then what opening its connection
  may still cost: a method that has failed is not tried again (`Lefts`), and each of the others
  has few messages to send (`Costs`; `WalkSpends` says what a walk takes from the
  method it stops at). Leaving the opening lowers the rank whatever it has cost.
  `Counted` adds that no connection is opened for an attempt that may be repeated, on which
  it rests that a write that fails is tried again only once.
* *Logins.* A step of a login by form does one of three things with what the
  properties see: it takes a page (`Paged`), fills a form in (`Filling`) or posts an answer
  (`Answered`); `CstpMoves`, `HtmlMoves` and `PulseMoves` show it for each family of protocols, and
  one lemma for each kind of move shows that it keeps `LoginInv`. That has where the
  configured password still is (`Passwords`), how many codes were made in which mode of the token
  (`Codes`), the group in the form against the one asked for (`Groupings`) and the tickets the scan was
  run for (`Scans`); `BodyGone`, that a request's body is gone when another page is asked for, keeps
  what was posted from being posted again. GlobalProtect's retry with the same
  credentials is a move of its own.
* *TLS.* `PeerLookedAt` tells for each place whether the certificate in hand has been looked
  at, and that with fingerprints the user is never asked. `SecretsKept` relates the cached PIN and the password to what was refused, wherever the
  thread is. `Linked` is `ChainFits` for a chain that still grows. `Place` searches a list:
  that it finds the key's certificate uses the least index that has it (`LeastOf`, from the library's
  well-founded minimum), which is how induction over data goes here without a
  theorem that takes an operator.
* *Client.* `ScriptRun` has the form of the script's history at each place, `TunDown` and
  `Watched` the device and the descriptors, `PidKept` the pid file at each stage of the
  parent's end. For `ToldTruth`, `Untold` names the places where the environment is still
  empty and `Telling` those where it has been made (`ToldInv` keeps the first, and what
  `ip_info` may hold), and `ToldTrue` says that what was told then is true of `ip_info` now. An offer
  that is installed keeps it (`OfferStaysTrue`), since `install_vpn_opts()` has
  compared it with the one before.
  What the environment has in it is settled by lemmas about `ScriptEnv` alone, up to
  `PreparedTells`; the one that walks over the routes (`SplitRoutesTells`) looks at the
  least position at which the walk would count wrongly.
* *Timers.* `WokenInTime` says that the wakeup is no later than any deadline,
  `AskedInTime` that a DPD packet was sent in time for a peer to be given up
  no later, and `Writing` when a write may be stalled. `AnsweredInTime` adds, for the
  live peer, when its answer will be there.
* *Tokens.* That no code was sent twice is not inductive. The strengthening says that
  every code that was sent is below the counter in storage, or below the counter in
  memory of the one program that has the token, at each place between taking the lock
  and giving it back; and that without a lock there is one such program. A crash only
  removes a program, or leaves the file empty, after which there is no token to make a
  code from.

Each invariant is split in parts with
a lemma for the step of each part, and that with one step for each action.

Only model-checked, not proved: liveness, which is beyond the prover. Of `RequestEnds` the
part that needs no fairness is proved (`RequestsAreBounded`): what is left to TLC is that
some step can always be taken until the request ends or spins. Induction over data
takes a detour: where a walk over a list has to be right for every list, the lemma looks at
the least position at which it would be wrong (`LeastOf`, `AllUpTo`), which needs
no theorem that takes an operator.

## 5. Findings

Two runs find what a document or a comment says violated. `client_nbns`: `script.c:366` passes an NBNS address to the script when
`!strcmp(addr, "0.0.0.0")`, that is when it *is* 0.0.0.0, and drops every other; the comment
above it and `www/changelog.xml:73` say that 0.0.0.0 is to be ignored.

`tls_servercert`: the manual says of `--servercert` "Accept server's SSL certificate only if
it matches the provided fingerprint" (`openconnect.8.in:815`). `verify_peer()` calls
`validate_peer_cert()`, which compares fingerprints, only when the library has found a fault
(`gnutls.c:2213-2226`). `--servercert` turns the system's trust off (`main.c:1984`), but
`--cafile` is loaded all the same (`gnutls.c:2335-2348`): with both, a certificate that the
CA file vouches for is used whatever its fingerprint.

The rest are places where the code does not do what one of its comments, or its interface, says, or
may do what nobody meant, seen while modelling and in counterexamples of TLC. No run
claims them; the properties are stated so that they do not cover these cases, and the
models behave as the code does.

*Loop and timers*
* A detach during a reconnection is taken for a cancel: `ssl_reconnect()` returns
  `-EINTR` whatever `cancel_type` is (`ssl.c:1302`), the loop reports that and logs the
  session off, where `mainloop.c:161` promises `-ECONNABORTED` and a session that is kept.
* A DPD period of one second has a half of 0, so the packet just sent is due again
  (`mainloop.c:473-476`); `openconnect_set_dpd()` guards against it (`library.c:1121`), the
  server's `X-CSTP-DPD` does not (`cstp.c:548`).
* `setgid()`, `setgroups()` or `setuid()` failing returns `-EPERM` from `setup_tun_device()`
  with the device up and no `quit_reason`: the client reports a rejected cookie, and the
  session is not logged off (`mainloop.c:134-153`). Nor is it when `epoll_wait()` or
  `select()` fails (`mainloop.c:361-366`, `393-397`). `OnlyDetachKeepsSession` names these
  cases.

*AnyConnect*
* A packet compressed with LZS or LZ4 whose TLS write has stalled survives
  `cstp_reconnect()`, which takes back deflate's only. It is then written to a server
  that may not have agreed to compression ("we only do it if the server agrees",
  `cstp.c:383`), and its buffer is freed if the new MTU is larger (`cstp.c:762`).
* BYE is written while an earlier write is stalled (`cstp.c:1265`), where `cstp.c:1073` asks
  for the same data again.
* `gnutls-dtls.c:474` and `485` compare an address family with `IPPROTO_IPV6`, so the header of
  IPv6 is never taken off.
* Of the lease headers the last wins, not the lowest: a duration is compared with an
  absolute time (`cstp.c:536-545`).
* The MTU search falls back to the negotiated MTU when a write fails below the
  largest size, although that one is known not to work (`dtls.c:531-541`).

*UDP beside TLS*
* After a repeated ESP probe no timer is set for the next one (`esp.c:301`).
* The states a shutdown and new keys leave are below those in which the loop calls
  `esp_mainloop()` (`mainloop.c:216`), so ESP is not used again after a reconnection of
  Network Connect or Pulse; likewise DTLS of Array when its set-up has failed.
* GlobalProtect's loop goes to sleep with queued packets and no timer after a check of the host over HTTPS
  (`gpst.c:1295-1316`, `mainloop.c:198`: a check that is due sets no timeout), so the next
  check, too, may be missed until something else wakes it; and a packet stalled in HTTPS is kept while ESP is in use after a reconnection.
* `pulse_connect()` leaves the connection open when it fails, so that the next attempt
  skips authentication (`pulse.c:2703`).

*PPP*
* TLS lost while DTLS is connected and not yet accepted by the server brings
  `tcp_connect()` into a state it refuses (`ppp.c:1551-1553`); the session is given up.
* `NCP_TERM_REQ_RECEIVED` is overwritten (`ppp.c:817`), so a session ended by the server does not
  return `-EPIPE`, and without a reason in the packet it does not end at all.

*HTTP and logins*
* A body cut short by a connection that is closed is read for ever: `ssl_read` returns 0
  (`gnutls.c:186-192`, or for a clean close), only a negative result is an error
  (`http.c:411-420`, `468-478`), and no command is read meanwhile, so a cancel does not
  end it. `RequestEnds` leaves it out.
* Basic that is disabled by default stops the walk over the other methods (`http-auth.c:150`).
* Basic may be sent to a proxy that has refused it: when a Digest challenge that could not be used at first
  can be used the second time and then fails, the connection to the proxy is made anew and
  `clear_auth_states()` forgets about Basic (`http.c:1368`, `http-auth.c:252`).
  `RejectedNotRepeated` leaves out this case only.
* The token retry limit (`oath.c:451`) is not honoured by Fortinet's and GlobalProtect's logins.
* The limit on probes is tested for equality and skipped (`auth.c:1404`); without XML posts
  the cookies of another host are kept.
* `authgroup_set` prevents the form from being fetched again, which the comment at
  `main.c:2851` describes (`main.c:2864`).
* A host scan that the server asks for late is never run, and empty bodies are posted
  (`auth.c:731-744`).
* The HOTP callback that locks a token is not matched by one that unlocks it on errors
  (`openconnect.h:599-602`, `oath.c:691`).

*Device and script*
* Without the vhost features it wants `setup_vhost()` returns without `shutdown_vhost()`
  (`vhost.c:287`): the file stays open, and the loop works on rings that were never set up
  (`Tun!Crash`).
* With vhost a direct write that the device refuses has the descriptor watched for
  writing (`tun.c:562`), and only `tun_mainloop()` stops watching (`mainloop.c:91`): the loop spins.
* With vhost a packet that comes when few are queued is written to the device at once if
  `next_avail` equals `avail_event` (`vhost.c:548`), which is to mean that the kernel has
  nothing left. The kernel sets `avail_event` only when it runs out of work. While it is busy
  the value stays, and when 65 536 packets later the 16-bit index has come round to
  it, the packet overtakes those in the ring. TLC shows it with a load as long as
  the span (`Loads` with `<<5, 0>>`, a span of 4); `PipesFollowEvents` shows that order is
  lost in no other way.
* A signal to the parent between `fork()` and its exit leaves a byte in the shared
  pipe for which the child has no flag set: it spins.
* F5 frees options that are already installed when the session id is missing
  (`f5.c:625-631`); an IPv6 address that a reconnection brings for the first time is never told
  to the script; the netmask of a Network Connect session without an address is not
  compared (`library.c:664-672`).

## 6. What is left out, and why

* The contents of packets, certificates, cookies and options, the ciphers and the
  libraries below: what may go wrong there is not an order of events.
* The incoming direction of the data paths, beyond what the client reacts to and what
  `Tun` does with packets once they are queued.
* `openssl.c` is the other back end of the calls that `Tls` models with GnuTLS; keys in
  TPMs and PKCS#11 modules are calls that may fail or refuse a PIN in `ClientCert`.
* `Ppp` assumes that a sleeping loop is woken and has F5's connect only: Fortinet
  makes a new `struct oc_ppp` for each connection.
* `TunnelEsp` has one ESP key at a time; the overlap of old and new keys
  (`esp.c:199`) is not modelled, nor is the end of the 32-bit sequence space
  (`esp.c:116`): nothing renews the keys there.
* `CstpConnect` has no compression (`CstpDtls` has), no timers, and failing allocations are
  failing connections. The ten seconds of the MTU search are a choice to give up.
* `Client` has no SSO browser, and the contents of its configuration; pages of the external
  browser are among the answers of forms in `Login`.
* In `Login`, Pulse's fragmentation and its mode flags, and the digests of tokens; in `Http`,
  chunked bodies are bodies.
* Failing allocations on Linux are left out except where the code handles them with
  state of its own.
* Memory: use after free and lengths are for other tools.

## 7. Plan

Done: the replay filter with its abstract specification and proofs; the main loop
and its commands; AnyConnect with its connection and MTU search; the timers; the four
other data paths; PPP; HTTP; the logins; tokens; TLS; the client; the tun device;
inductive invariants for all of their safety properties, and three refinements (the
replay filter, and the two directions of the tun device).

Next, in this order:

1. An abstract outgoing path (a packet is queued, in flight, sent or given up) that
   `CstpDtls` and `Tunnels` both implement.
2. `EspRekey`: two incoming contexts, `old_esp_maxseq` and 32-bit sequence numbers.
3. `calculate_mtu()` and LZS as operators, against reference definitions on short inputs.
