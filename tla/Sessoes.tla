------------------------------ MODULE Sessoes -------------------------------
(***************************************************************************)
(* The Sessão of one Jogador: created by login, rotated by every refresh,  *)
(* ended by logout or by another login (lobby-server sessoes.ts and        *)
(* routes/auth.ts); the tabs that share its cookies (frontend api/client.ts*)
(* and AuthProvider.tsx); and the sockets that carry it, which both servers*)
(* revalidate every few seconds (ws/revalidacao-de-sessao.ts).             *)
(*                                                                         *)
(* A session is a number in order of creation; 0 is none.  One step is one *)
(* command of Redis with the code that runs on its answer, or one message  *)
(* between a tab and a server.  Passwords, tokens and limits of attempts   *)
(* are left out: a login that is asked for is accepted.                    *)
(***************************************************************************)
EXTENDS Naturals, Sequences, FiniteSets, TLC

CONSTANTS
  Abas,           (* Tabs.                                                 *)
  Navegadores,    (* Browsers.                                             *)
  Disposicoes,    (* Which tabs are open in which browser, to start from.  *)
  Canal,          (* The server whose socket each tab keeps.               *)
  MaxSaltos,      (* MAX_SALTOS_ROTACAO, the rotations a sweep follows.    *)
  MaxSessoes,     (* Bound on the sessions created.                        *)
  MaxFalhas       (* Bound on lost answers, dropped sockets and expiries.  *)

Servidores == {"lobby", "jogo"}

ASSUME SessoesAssumption ==
  /\ Canal \in [Abas -> Servidores] /\ Disposicoes \subseteq [Abas -> Navegadores]
  /\ {MaxSaltos, MaxSessoes, MaxFalhas} \subseteq Nat /\ MaxSessoes > 0

VARIABLES
  vivas, mapa,        (* sessao:<id> and sessao:jogador:<jogador>          *)
  marcador,           (* sessao:rotacionada:<id>                           *)
  proxima,            (* The next session to be created.                   *)
  orfas,              (* History: unmapped by a logout while still alive.   *)
  navegador,          (* The browser of each tab: its tabs share cookies.  *)
  acesso, renovacao,  (* The two cookies of each browser.                  *)
  aba,                (* authState of each tab.                            *)
  http,               (* The call each tab waits for.                      *)
  socket,             (* The socket of each tab.                           *)
  varredura,          (* The session the sweep resolves for each socket.   *)
  falhas

redis == <<vivas, mapa, marcador, proxima, orfas>>
cookies == <<navegador, acesso, renovacao>>
vars == <<redis, cookies, aba, http, socket, varredura, falhas>>

Ids == 1 .. MaxSessoes

(***************************************************************************)
(* The store.  Each operation is one script or one command of Redis.       *)
(***************************************************************************)
Rotacionavel(s) == s \in vivas /\ mapa = s

BugCriarSessao ==
  /\ vivas' = vivas \cup {proxima} /\ mapa' = proxima /\ proxima' = proxima + 1
  /\ UNCHANGED <<marcador, orfas>>

(* criarSessaoAtomica: the session the Jogador had is revoked.             *)
CriarSessao ==
  /\ vivas' = (vivas \ {mapa}) \cup {proxima}
  /\ mapa' = proxima /\ proxima' = proxima + 1
  /\ UNCHANGED <<marcador, orfas>>

(* rotacionarSessaoAtomica, which also leaves the marker of the rotation.  *)
RotacionarSessao(s) ==
  /\ vivas' = (vivas \ {s}) \cup {proxima}
  /\ mapa' = proxima /\ proxima' = proxima + 1
  /\ marcador' = [marcador EXCEPT ![s] = proxima]
  /\ UNCHANGED orfas

(* revogarSessao, command by command: the mapping goes, whatever it holds, *)
(* if the session was there; then the session.                             *)
ApagarMapa(s) ==
  /\ mapa' = 0
  /\ orfas' = orfas \cup (vivas \cap {mapa})
  /\ UNCHANGED <<vivas, marcador, proxima>>

ApagarSessao(s) ==
  /\ vivas' = vivas \ {s}
  /\ UNCHANGED <<mapa, marcador, proxima, orfas>>

(***************************************************************************)
(* Sockets.  A server ends a socket with 4401, which the tab takes for the *)
(* end of the session: it forgets the Jogador and does not come back.      *)
(***************************************************************************)
Fora == [fase |-> "fora", sessao |-> 0]
Aberta(a) == socket[a].fase = "aberta"
DoLobby == {a \in Abas : Canal[a] = "lobby" /\ Aberta(a)}

ForaDaVarredura == [inicio |-> 0, sessao |-> 0, saltos |-> 0]

Deslogadas(S) == [a \in Abas |-> IF a \in S THEN "visitante" ELSE aba[a]]
SocketsSem(S, fase) ==
  [a \in Abas |-> IF a \in S THEN [Fora EXCEPT !.fase = fase] ELSE socket[a]]

(* The sockets of S close; `fase` is what their tabs do next.              *)
Fechar(S, fase) ==
  /\ socket' = SocketsSem(S, fase)
  /\ varredura' = [a \in Abas |-> IF a \in S THEN ForaDaVarredura ELSE varredura[a]]

Derrubar(S) == aba' = Deslogadas(S) /\ Fechar(S, "fora")

(* migrarSessaoPorJogador                                                  *)
MigrarSockets(s) ==
  socket' = [a \in Abas |-> IF a \in DoLobby THEN [socket[a] EXCEPT !.sessao = s]
                            ELSE socket[a]]

(***************************************************************************)
(* Calls of a tab, one at a time (refreshEmVoo and sondaEmVoo share those  *)
(* in flight): what for, the step of apiFetch, and how far the call got.   *)
(***************************************************************************)
Nenhuma == [fim |-> "nenhum", passo |-> "nenhum", em |-> "nada", sessao |-> 0,
            status |-> 0, poe |-> <<>>, tentativa |-> 0]

(* What `passo` asks of the server with the cookies it finds.              *)
Chamada(fim, passo, entrada, tentativa) ==
  [Nenhuma EXCEPT !.fim = fim, !.passo = passo, !.em = "ida", !.tentativa = tentativa,
                  !.sessao = IF passo = "refresh" THEN entrada[2] ELSE entrada[1]]

Jarra(a) == <<acesso[navegador[a]], renovacao[navegador[a]]>>
Livre(a) == http[a] = Nenhuma

Pede(h) == CASE h.passo \in {"login", "refresh"} -> h.passo
             [] h.passo = "sonda" -> "eu"
             [] OTHER -> IF h.fim = "sair" THEN "logout" ELSE "eu"

NoServidor(a, pede, em) == http[a].em = em /\ Pede(http[a]) = pede
Avanca(a, em) == http' = [http EXCEPT ![a].em = em]
Responde(a, status, poe) ==
  http' = [http EXCEPT ![a].em = "volta", ![a].status = status, ![a].poe = poe]

(* The handlers of routes/auth.ts, from await to await.  Without sessions  *)
(* left (MaxSessoes) the store fails and the answer is 500.                *)
ServirEu(a) ==
  /\ NoServidor(a, "eu", "ida")
  /\ Responde(a, IF http[a].sessao \in vivas THEN 200 ELSE 401, <<>>)
  /\ UNCHANGED <<redis, cookies, aba, socket, varredura, falhas>>

ServirRefresh(a) ==
  /\ NoServidor(a, "refresh", "ida")
  /\ IF http[a].sessao \in vivas THEN Avanca(a, "rotacao") ELSE Responde(a, 401, <<>>)
  /\ UNCHANGED <<redis, cookies, aba, socket, varredura, falhas>>

BugRotacionar(a) ==
  /\ NoServidor(a, "refresh", "rotacao")
  /\ IF proxima > MaxSessoes
     THEN Responde(a, 500, <<>>) /\ UNCHANGED <<redis, socket>>
     ELSE IF Rotacionavel(http[a].sessao)
     THEN /\ RotacionarSessao(http[a].sessao) /\ MigrarSockets(proxima)
          /\ Responde(a, 200, <<http[a].sessao>>)
     ELSE Responde(a, 401, <<>>) /\ UNCHANGED <<redis, socket>>
  /\ UNCHANGED <<cookies, aba, varredura, falhas>>

Rotacionar(a) ==
  /\ NoServidor(a, "refresh", "rotacao")
  /\ IF proxima > MaxSessoes
     THEN Responde(a, 500, <<>>) /\ UNCHANGED <<redis, socket>>
     ELSE IF Rotacionavel(http[a].sessao)
     THEN /\ RotacionarSessao(http[a].sessao) /\ MigrarSockets(proxima)
          /\ Responde(a, 200, <<proxima>>)
     ELSE Responde(a, 401, <<>>) /\ UNCHANGED <<redis, socket>>
  /\ UNCHANGED <<cookies, aba, varredura, falhas>>

ServirLogin(a) ==
  /\ NoServidor(a, "login", "ida")
  /\ IF proxima > MaxSessoes
     THEN Responde(a, 500, <<>>) /\ UNCHANGED <<redis, aba, socket, varredura>>
     ELSE CriarSessao /\ Derrubar(DoLobby) /\ Responde(a, 200, <<proxima>>)
  /\ UNCHANGED <<cookies, falhas>>

ServirLogout(a) ==
  /\ NoServidor(a, "logout", "ida")
  /\ IF http[a].sessao \in vivas THEN Avanca(a, "revogar") ELSE Responde(a, 401, <<>>)
  /\ UNCHANGED <<redis, cookies, aba, socket, varredura, falhas>>

Revogar(a) ==
  /\ NoServidor(a, "logout", "revogar")
  /\ Avanca(a, IF http[a].sessao \in vivas THEN "mapa" ELSE "sessao")
  /\ UNCHANGED <<redis, cookies, aba, socket, varredura, falhas>>

RevogarMapa(a) ==
  /\ NoServidor(a, "logout", "mapa")
  /\ ApagarMapa(http[a].sessao) /\ Avanca(a, "sessao")
  /\ UNCHANGED <<cookies, aba, socket, varredura, falhas>>

RevogarSessao(a) ==
  /\ NoServidor(a, "logout", "sessao")
  /\ ApagarSessao(http[a].sessao) /\ Derrubar(DoLobby) /\ Responde(a, 200, <<0>>)
  /\ UNCHANGED <<cookies, falhas>>

Servir(a) ==
  \/ ServirEu(a) \/ ServirRefresh(a) \/ Rotacionar(a) \/ ServirLogin(a)
  \/ ServirLogout(a) \/ Revogar(a) \/ RevogarMapa(a) \/ RevogarSessao(a)

(***************************************************************************)
(* The answer in the tab.  Status 0 is an answer that never came.          *)
(***************************************************************************)
Sozinho == {"slide", "reconexao"}   (* refreshes that nobody repeats after *)

(* apiFetch, executarRefreshBruto, executarSondaBruta                      *)
Desfecho(h, status) ==
  CASE h.passo = "login"    -> IF status = 200 THEN "segue" ELSE "falha"
    [] h.passo = "pedido"   -> CASE status = 200 -> "ok" [] status = 401 -> "segue" [] OTHER -> "falha"
    [] h.passo = "refresh"  -> IF h.fim \in Sozinho THEN "ok"
                               ELSE IF status \in {200, 401} THEN "segue" ELSE "transiente"
    [] h.passo = "sonda"    -> IF status = 401 THEN "notifica" ELSE "transiente"
    [] h.passo = "repetido" -> CASE status = 200 -> "ok" [] status = 401 -> "notifica" [] OTHER -> "transiente"

PassoSeguinte(h, status) ==
  CASE h.passo = "login"   -> "pedido"
    [] h.passo = "refresh" -> IF status = 200 THEN "repetido" ELSE "sonda"
    [] OTHER               -> "refresh"

(* The rehydration of AuthProvider tries three times.                      *)
Insiste(h, desfecho) == desfecho = "transiente" /\ h.fim = "sessao" /\ h.tentativa < 2

AbaApos(a, h, desfecho) ==
  CASE desfecho = "notifica" \/ h.fim = "sair"               -> "visitante"
    [] desfecho = "ok" /\ h.fim \in {"sessao", "entrar"}      -> "autenticada"
    [] h.fim = "sessao"                                       -> "visitante"
    [] OTHER                                                  -> aba[a]

(* `jarra` are the cookies once the answer is in.                          *)
Concluir(a, status, jarra) ==
  LET h == http[a]
      desfecho == Desfecho(h, status)
  IN  IF desfecho = "segue" \/ Insiste(h, desfecho)
      THEN /\ http' = [http EXCEPT ![a] =
                         Chamada(IF h.fim = "login" THEN "entrar" ELSE h.fim,
                                 IF desfecho = "segue" THEN PassoSeguinte(h, status) ELSE "pedido",
                                 jarra, IF desfecho = "segue" THEN h.tentativa ELSE h.tentativa + 1)]
           /\ UNCHANGED <<aba, socket, varredura>>
      ELSE /\ http' = [http EXCEPT ![a] = Nenhuma]
           /\ aba' = [aba EXCEPT ![a] = AbaApos(a, h, desfecho)]
           /\ IF aba'[a] = "visitante" THEN Fechar({a}, "fora")
              ELSE IF h.fim = "reconexao" THEN Fechar({a}, "fora")
              ELSE UNCHANGED <<socket, varredura>>

Receber(a) ==
  /\ http[a].em = "volta"
  /\ IF http[a].poe = <<>> THEN UNCHANGED <<acesso, renovacao>>
     ELSE /\ acesso' = [acesso EXCEPT ![navegador[a]] = http[a].poe[1]]
          /\ renovacao' = [renovacao EXCEPT ![navegador[a]] = http[a].poe[1]]
  /\ Concluir(a, http[a].status, <<acesso'[navegador[a]], renovacao'[navegador[a]]>>)
  /\ UNCHANGED <<redis, navegador, falhas>>

(* The call does not reach the server, or its answer is lost or too late.  *)
Perder(a) ==
  /\ http[a].em \in {"ida", "volta"} /\ falhas < MaxFalhas
  /\ falhas' = falhas + 1
  /\ Concluir(a, 0, Jarra(a))
  /\ UNCHANGED <<redis, cookies>>

(***************************************************************************)
(* What a tab starts by itself.                                            *)
(***************************************************************************)
Chamar(a, fim, passo) ==
  /\ Livre(a)
  /\ http' = [http EXCEPT ![a] = Chamada(fim, passo, Jarra(a), 0)]
  /\ UNCHANGED <<redis, cookies, falhas>>

Recarregar(a) ==
  /\ (Jarra(a) # <<0, 0>> \/ aba[a] # "visitante") /\ Chamar(a, "sessao", "pedido")
  /\ aba' = [aba EXCEPT ![a] = "carregando"] /\ Fechar({a}, "fora")

Entrar(a) ==
  /\ aba[a] = "visitante" /\ proxima <= MaxSessoes /\ Chamar(a, "login", "login")
  /\ UNCHANGED <<aba, socket, varredura>>

Sair(a) ==
  /\ aba[a] = "autenticada" /\ Chamar(a, "sair", "pedido")
  /\ UNCHANGED <<aba, socket, varredura>>

(* The slide, every minute and when the tab becomes visible.               *)
Deslizar(a) ==
  /\ aba[a] = "autenticada" /\ Chamar(a, "slide", "refresh")
  /\ UNCHANGED <<aba, socket, varredura>>

(* agendarReconexaoComSlide; in the match also tentarNovamenteComConexao.  *)
Reconectar(a) ==
  /\ aba[a] = "autenticada" /\ socket[a].fase = "caida" /\ Chamar(a, "reconexao", "refresh")
  /\ UNCHANGED <<aba, socket, varredura>>

Conectar(a) ==
  /\ aba[a] = "autenticada" /\ socket[a].fase = "fora"
  /\ socket' = [socket EXCEPT ![a] = [fase |-> "abrindo", sessao |-> Jarra(a)[1]]]
  /\ UNCHANGED <<redis, cookies, aba, http, varredura, falhas>>

(***************************************************************************)
(* Sockets in the servers.  The lobby refuses with 4401, the game server   *)
(* with an HTTP 401, after which the page asks whether to try again.       *)
(***************************************************************************)
Autenticar(a) ==
  /\ socket[a].fase = "abrindo"
  /\ IF socket[a].sessao \in vivas
     THEN /\ socket' = [socket EXCEPT ![a].fase = "admitida"]
          /\ UNCHANGED <<aba, varredura>>
     ELSE IF Canal[a] = "lobby" THEN Derrubar({a})
     ELSE Fechar({a}, "caida") /\ UNCHANGED aba
  /\ UNCHANGED <<redis, cookies, http, falhas>>

Registrar(a) ==
  /\ socket[a].fase = "admitida"
  /\ socket' = [socket EXCEPT ![a].fase = "aberta"]
  /\ UNCHANGED <<redis, cookies, aba, http, varredura, falhas>>

Cair(a) ==
  /\ Aberta(a) /\ falhas < MaxFalhas
  /\ falhas' = falhas + 1
  /\ Fechar({a}, "caida")
  /\ UNCHANGED <<redis, cookies, aba, http>>

(* Both cookies live as long as the session, but the access one.           *)
ExpirarAcesso(n) ==
  /\ acesso[n] # 0 /\ falhas < MaxFalhas
  /\ falhas' = falhas + 1
  /\ acesso' = [acesso EXCEPT ![n] = 0]
  /\ UNCHANGED <<redis, navegador, renovacao, aba, http, socket, varredura>>

(***************************************************************************)
(* revalidarConexoesDeSessao takes the sockets of a server one by one; they*)
(* share nothing, so here each has a sweep of its own, one hop a step.     *)
(* resolverSessaoViva reads a session and then its marker, which is never  *)
(* set once the session is dead; after MaxSaltos hops one more read is the *)
(* last, whatever marker it leads to.                                      *)
(***************************************************************************)
Varrendo(a) == varredura[a] # ForaDaVarredura
Vista(a) == IF Varrendo(a) THEN varredura[a]
            ELSE [inicio |-> socket[a].sessao, sessao |-> socket[a].sessao, saltos |-> 0]

BugSemSaida(v) == marcador[v.sessao] = 0 \/ v.saltos + 1 >= MaxSaltos
SemSaida(v) == marcador[v.sessao] = 0 \/ v.saltos = MaxSaltos

Salto(v) == [v EXCEPT !.sessao = marcador[v.sessao], !.saltos = v.saltos + 1]

BugVarrer(a) ==
  LET v == Vista(a)
  IN  /\ Aberta(a)
      /\ IF v.sessao \in vivas
         THEN /\ socket' = [socket EXCEPT ![a].sessao = v.sessao]
              /\ varredura' = [varredura EXCEPT ![a] = ForaDaVarredura]
         ELSE /\ varredura' = [varredura EXCEPT ![a] =
                   IF SemSaida(v) THEN ForaDaVarredura ELSE Salto(v)]
              /\ UNCHANGED socket
      /\ UNCHANGED <<redis, cookies, aba, http, falhas>>

Varrer(a) ==
  LET v == Vista(a)
  IN  /\ Aberta(a)
      /\ IF v.sessao \in vivas
         THEN /\ socket' = [socket EXCEPT ![a].sessao = v.sessao]
              /\ varredura' = [varredura EXCEPT ![a] = ForaDaVarredura]
              /\ UNCHANGED aba
         ELSE IF SemSaida(v) THEN Derrubar({a})
         ELSE /\ varredura' = [varredura EXCEPT ![a] = Salto(v)]
              /\ UNCHANGED <<aba, socket>>
      /\ UNCHANGED <<redis, cookies, http, falhas>>

Init ==
  /\ vivas = {} /\ mapa = 0 /\ proxima = 1 /\ orfas = {}
  /\ marcador = [s \in Ids |-> 0]
  /\ navegador \in Disposicoes
  /\ acesso = [n \in Navegadores |-> 0] /\ renovacao = acesso
  /\ aba = [a \in Abas |-> "visitante"]
  /\ http = [a \in Abas |-> Nenhuma]
  /\ socket = [a \in Abas |-> Fora]
  /\ varredura = [a \in Abas |-> ForaDaVarredura]
  /\ falhas = 0

Next ==
  \/ \E a \in Abas :
       \/ Servir(a) \/ Receber(a) \/ Perder(a)
       \/ Recarregar(a) \/ Entrar(a) \/ Sair(a) \/ Deslizar(a) \/ Reconectar(a)
       \/ Conectar(a) \/ Autenticar(a) \/ Registrar(a) \/ Cair(a) \/ Varrer(a)
  \/ \E n \in Navegadores : ExpirarAcesso(n)

Spec == Init /\ [][Next]_vars

(* The timers of the revalidation fire.  What the other servers, a person  *)
(* or the network do is left free.                                         *)
SpecJusta ==
  /\ Spec
  /\ \A a \in Abas : WF_vars(Varrer(a))

(***************************************************************************)
(* The store and the tabs only hold sessions that have been created.       *)
(***************************************************************************)
Criadas == 1 .. proxima - 1
TypeOK ==
  /\ proxima \in 1 .. MaxSessoes + 1 /\ vivas \subseteq Criadas /\ orfas \subseteq Criadas
  /\ mapa \in {0} \cup Criadas
  /\ \A s \in Ids : marcador[s] = 0 \/ marcador[s] \in s + 1 .. proxima - 1
  /\ \A n \in Navegadores : {acesso[n], renovacao[n]} \subseteq {0} \cup Criadas
  /\ \A a \in Abas :
       /\ aba[a] \in {"visitante", "carregando", "autenticada"}
       /\ socket[a].fase \in {"fora", "caida", "abrindo", "admitida", "aberta"}
       /\ {socket[a].sessao, http[a].sessao} \subseteq {0} \cup Criadas
  /\ falhas \in 0 .. MaxFalhas

(***************************************************************************)
(* CONTEXT.md: at most one active Sessão for each Jogador, whatever logins *)
(* and refreshes run at once; except one that a logout running beside them *)
(* took out of the mapping (revogarSessao is not atomic).                  *)
(***************************************************************************)
SessaoUnica == vivas \ orfas \subseteq {mapa}

(***************************************************************************)
(* When no call is in flight and none was lost, the cookies of a browser   *)
(* do not hold a session that a refresh has replaced, however many of its  *)
(* tabs refreshed at once: the next refresh is not taken for a reuse.      *)
(***************************************************************************)
JarraEmDia ==
  falhas = 0 => \A n \in Navegadores :
    (\A a \in Abas : navegador[a] = n => Livre(a)) =>
      acesso[n] = renovacao[n] /\ (renovacao[n] # 0 => marcador[renovacao[n]] = 0)

(***************************************************************************)
(* A revalidation ends a socket only when the session it found on it is    *)
(* over, or so many rotations, before or beside the sweep, lead on from it *)
(* that the limit of hops stops short of the living one: never while a     *)
(* living session is at most MaxSaltos rotations away.                     *)
(***************************************************************************)
Fechado(S) == \A x \in S : marcador[x] \in S \cup {0}
Seguintes(s) == {t \in Ids : \A S \in SUBSET Ids : s \in S /\ Fechado(S) => t \in S}

(* The session, or one that its rotations lead to, lives.                  *)
Alcanca(s) == s # 0 /\ Seguintes(s) \cap vivas # {}
AlcancaNoTeto(s) == Alcanca(s) /\ Cardinality(Seguintes(s) \ {s}) <= MaxSaltos

RevalidacaoPreserva ==
  [][\A a \in Abas : Varrer(a) /\ Aberta(a) /\ socket'[a].fase = "fora"
                       => ~AlcancaNoTeto(Vista(a).inicio)]_vars

(***************************************************************************)
(* A tab that goes back to visitor by itself has lost its session.         *)
(***************************************************************************)
LogoutLegitimo ==
  [][\A a \in Abas : aba[a] = "autenticada" /\ aba'[a] = "visitante" /\ http[a].fim # "sair"
                       => ~Alcanca(renovacao[navegador[a]])]_vars

(***************************************************************************)
(* A socket whose session is over is closed, in either server.             *)
(***************************************************************************)
Vencido(a) == Aberta(a) /\ ~Alcanca(socket[a].sessao)
SocketVencidoFecha == \A a \in Abas : Vencido(a) ~> ~Vencido(a)
=============================================================================
