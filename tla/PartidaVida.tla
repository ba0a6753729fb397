---------------------------- MODULE PartidaVida ----------------------------
(***************************************************************************)
(* The life of one match in the game server, between the forwarding of its *)
(* Sala and the return to it: admission and substitution of connections,   *)
(* presence, não-início, the window of reconnection and its conversion     *)
(* into desistência, término, retention, detach and return, over crashes   *)
(* of the process.  (backend/game-server/src: ws, partidas, retorno; the   *)
(* lobby answers as routes/retorno.ts, routes/desistencia.ts and the       *)
(* orphan release of salas/handlers.ts do.)                                *)
(*                                                                         *)
(* The process talks to Redis through one connection.  A command therefore *)
(* takes effect in the order in which commands are issued, and its reply   *)
(* is handled in the same order: the effect of a command belongs to the    *)
(* step that issues it, and "fio" holds the replies on their way, with     *)
(* what each of them read.  Sockets, timers, clients, the lobby and the    *)
(* expiry of keys interleave freely with the replies.                      *)
(*                                                                         *)
(* The game itself is abstracted to who still plays and whether there is a *)
(* result; Partida.tla models it.                                          *)
(***************************************************************************)
EXTENDS Naturals, FiniteSets, Sequences

CONSTANTS Jogadores,   \* players
          Encaminhados, \* the roster of a match that was just forwarded
          Reunidos,    \* the roster of a match that has already started
          Soquetes,    \* the WebSockets the clients may open
          Dono(_),     \* the Jogador whose session opens a socket
          Nada,        \* absence: null, undefined or a key that is not there
          MaxConexoes, \* bound: connections the clients open
          MaxQuedas,   \* bound: crashes of the process
          MaxVoo,      \* bound: replies on their way when the world acts
          MaxOrfaos    \* bound: Membros that leave the Sala as orphans

\* A match with the roster R, and what a return says of it.
Partidas(R) == [estado : {"preparada", "em_andamento"}, vivos : SUBSET R,
                presenca : [R -> {"conectado", "em_reconexao"}],
                terminou : BOOLEAN, prazo : BOOLEAN]
Avisos == [jogadores : SUBSET Jogadores, desistencia : BOOLEAN, termino : BOOLEAN]

ASSUME VidaAssumption ==
  /\ IsFiniteSet(Jogadores) /\ Encaminhados \subseteq Jogadores /\ Reunidos \subseteq Jogadores
  /\ Cardinality(Encaminhados) \in 2..4 /\ Cardinality(Reunidos) \in 2..4
  /\ \A s \in Soquetes : Dono(s) \in Jogadores
  /\ \A j \in Reunidos : \E s \in Soquetes : Dono(s) = j
  /\ Nada \notin Jogadores \cup Soquetes
  /\ Nada \notin Partidas(Encaminhados) \cup Partidas(Reunidos) \cup Avisos
  /\ MaxConexoes \in Nat /\ MaxQuedas \in Nat /\ MaxVoo \in Nat \ {0} /\ MaxOrfaos \in Nat

VARIABLES
  partida,    \* Redis: metadata and engine state of the match, Nada once gone
  janela,     \* Redis: the Jogadores whose window key exists
  pendente,   \* Redis: the pending return, {} or {teveDesistencia}
  conexao,    \* memory: the connection in force of each Jogador
  soquete,    \* each socket: its phase, and the connection it substituted
  naoInicio,  \* memory: the não-início timer, Nada, "dez" or "teto"
  velha,      \* the match is ninety seconds old
  expira,     \* memory: the Jogadores with an expiration timer
  fio,        \* replies of Redis on their way, oldest first
  cadeia,     \* memory: the mutations of the match, the running one first
  devido,     \* memory: the return the running mutation owes, or Nada
  avisos,     \* memory: the Jogadores whose detach callback is on its way
  retornos,   \* memory: the return callbacks on their way
  enviado,    \* memory: callbacksEnviados holds the match
  sala,       \* lobby: the state of the Sala and its active Membros
  orfaos,     \* lobby: the Jogadores that left the Sala as orphans
  roster,     \* lobby: the Membros the Sala was forwarded with
  noAr,       \* the process is up
  quedas,     \* crashes so far
  abertas,    \* connections opened so far
  cedo        \* history: a mutation came while the match was still preparada

redis   == <<partida, janela, pendente>>
memoria == <<conexao, soquete, naoInicio, velha, expira, fio, cadeia, devido, avisos,
             retornos, enviado>>
lobby   == <<sala, orfaos, roster>>
vars    == <<redis, memoria, lobby, noAr, quedas, abertas, cedo>>

-----------------------------------------------------------------------------
(***************************************************************************)
(* Predicates of the match and of the sockets                              *)
(***************************************************************************)
Preparada   == partida # Nada /\ partida.estado = "preparada"
EmAndamento == partida # Nada /\ partida.estado = "em_andamento"
Encerrada   == partida # Nada /\ partida.terminou

\* Bound: once the match has a result the sockets rest, but for the connections
\* that find a pending return after a crash.
EmJogo == ~Encerrada

RosterTodoEmReconexao == \A j \in roster : partida.presenca[j] = "em_reconexao"

\* What janelaExpiradaValida and the guards of the conversion ask for.
Ausente(j) == /\ EmAndamento /\ ~partida.terminou
              /\ j \in partida.vivos /\ partida.presenca[j] = "em_reconexao"

Aberto(s) == soquete[s].fase \in {"registrado", "admitido"}

ComPresenca(j, p) ==
  IF partida = Nada THEN Nada ELSE [partida EXCEPT !.presenca[j] = p]

Resposta(tipo, alvo, lido) == [tipo |-> tipo, alvo |-> alvo, lido |-> lido]

Comeco(estado, presenca) ==
  [estado |-> estado, vivos |-> roster, presenca |-> [j \in roster |-> presenca],
   terminou |-> FALSE, prazo |-> estado = "preparada"]

\* The Sala was just forwarded and nobody arrived.
RecemEncaminhada ==
  /\ roster = Encaminhados
  /\ partida = Comeco("preparada", "em_reconexao")
  /\ conexao = [j \in Jogadores |-> Nada]
  /\ soquete = [s \in Soquetes |-> [fase |-> "livre", anterior |-> Nada]]
  /\ naoInicio = "teto" /\ velha = FALSE /\ abertas = 0

\* Everyone arrived.  Bound: nobody connects again.
JaEmAndamento ==
  /\ roster = Reunidos
  /\ partida = Comeco("em_andamento", "conectado")
  /\ conexao = [j \in Jogadores |->
       IF j \in roster THEN CHOOSE s \in Soquetes : Dono(s) = j ELSE Nada]
  /\ soquete = [s \in Soquetes |->
       [fase     |-> IF conexao[Dono(s)] = s THEN "admitido" ELSE "livre",
        anterior |-> Nada]]
  /\ naoInicio = Nada /\ velha = TRUE /\ abertas = MaxConexoes

Init ==
  /\ RecemEncaminhada \/ JaEmAndamento
  /\ janela = {} /\ pendente = {} /\ expira = {}
  /\ fio = <<>> /\ cadeia = <<>> /\ devido = Nada
  /\ avisos = {} /\ retornos = {} /\ enviado = FALSE
  /\ sala = [estado |-> "encaminhada", ativos |-> roster] /\ orfaos = {}
  /\ noAr = TRUE /\ quedas = 0 /\ cedo = FALSE

-----------------------------------------------------------------------------
(***************************************************************************)
(* Admission (ws.ts).  The handshake reads the match; its reply makes the  *)
(* upgrade, which enters the registry before the transition of presence,   *)
(* so that the close of a substituted socket no longer is a disconnection; *)
(* the reply of the transition concludes.                                  *)
(***************************************************************************)
PedirConexao(s) ==
  /\ noAr /\ Len(fio) < MaxVoo /\ soquete[s].fase = "livre"
  /\ abertas < MaxConexoes /\ abertas' = abertas + 1
  /\ EmJogo \/ quedas > 0
  /\ partida # Nada /\ Dono(s) \in partida.vivos
  /\ soquete' = [soquete EXCEPT ![s].fase = "pedido"]
  /\ fio' = Append(fio, Resposta("conectar", s, Nada))
  /\ UNCHANGED <<redis, conexao, naoInicio, velha, expira, cadeia, devido, avisos,
                 retornos, enviado, lobby, noAr, quedas, cedo>>

\* SCRIPT_TRANSICAO_PRESENCA: the last of the roster starts the match, which
\* then has no expiry.
TransicaoDePresenca(j) ==
  LET nova   == ComPresenca(j, "conectado")
      inicia == /\ nova # Nada /\ nova.estado = "preparada"
                /\ \A k \in roster : nova.presenca[k] = "conectado"
  IN  [partida |-> IF inicia
                   THEN [nova EXCEPT !.estado = "em_andamento", !.prazo = FALSE]
                   ELSE nova,
       estado  |-> IF nova = Nada THEN "nula"
                   ELSE IF inicia THEN "em_andamento" ELSE nova.estado,
       iniciou |-> inicia]

Conectar(s, resto) ==
  \E t \in {TransicaoDePresenca(Dono(s))} :
    /\ conexao' = [conexao EXCEPT ![Dono(s)] = s]
    /\ soquete' = [soquete EXCEPT ![s] = [fase     |-> "registrado",
                                          anterior |-> conexao[Dono(s)]]]
    /\ partida' = t.partida
    /\ fio' = Append(resto, Resposta("concluir", s, [estado  |-> t.estado,
                                                     iniciou |-> t.iniciou]))
    /\ UNCHANGED <<janela, pendente, naoInicio, expira, cadeia, devido, avisos,
                   retornos, enviado>>

\* A socket the server closes: its close event comes later, if it still can.
Fechado(fase) == CASE fase = "admitido"   -> "fechando"
                   [] fase = "registrado" -> "mudo"
                   [] fase = "fantasma"   -> "livre"
                   [] OTHER               -> fase

\* The close listener is attached here: a socket that closed before it ("mudo")
\* never reports its close and stays in the registry ("fantasma").
Listener(s) == CASE soquete[s].fase = "registrado" -> "admitido"
                 [] conexao[Dono(s)] = s           -> "fantasma"
                 [] OTHER                          -> "livre"

\* Mutant: an admission to a match that is gone stays open.
BugLimparAdmissaoFalha(s, resto) ==
  /\ soquete' = [soquete EXCEPT ![s] = [fase |-> Listener(s), anterior |-> Nada]]
  /\ fio' = resto
  /\ UNCHANGED <<redis, conexao, naoInicio, expira, cadeia, devido, avisos,
                 retornos, enviado>>

\* The match is gone: the new connection leaves the registry and the previous
\* one returns to it when its socket is still open.
LimparAdmissaoFalha(s, resto) ==
  LET j == Dono(s)
      a == soquete[s].anterior
  IN  /\ conexao' = [conexao EXCEPT ![j] =
                       IF a # Nada /\ Aberto(a) THEN a
                       ELSE IF @ = s THEN Nada ELSE @]
      /\ soquete' = [soquete EXCEPT ![s] = [fase |-> "livre", anterior |-> Nada]]
      /\ fio' = resto
      /\ UNCHANGED <<redis, naoInicio, expira, cadeia, devido, avisos,
                     retornos, enviado>>

\* Mutant: montarAviso names the roster of the match.
BugAviso(vivos, desistencia) ==
  [jogadores |-> roster, desistencia |-> desistencia, termino |-> TRUE]

\* montarAviso: who is still in the match, and whether the batch that ended it
\* held a desistência.
Aviso(vivos, desistencia) ==
  [jogadores |-> vivos, desistencia |-> desistencia, termino |-> TRUE]

\* Who is admitted to a match with a result looks for the return it still owes:
\* lerSnapshotAtomico, anunciarTurnoAtual and lerRetornoPendente, their reads as
\* one.  A result or a key that comes later is of a mutation of this process, which
\* sends its own return.
PendenciaLida ==
  IF Encerrada /\ ~enviado THEN <<Resposta("pendenteLido", Nada, pendente)>> ELSE <<>>

Concluir(s, t, resto) ==
  LET j == Dono(s)
      a == soquete[s].anterior
  IN  IF t.estado = "nula" THEN LimparAdmissaoFalha(s, resto)
      ELSE
        /\ fio' = resto \o PendenciaLida
        /\ naoInicio' = IF t.iniciou THEN Nada ELSE naoInicio
        /\ expira' = IF t.estado = "em_andamento" THEN expira \ {j} ELSE expira
        /\ janela' = IF t.estado = "em_andamento" THEN janela \ {j} ELSE janela
        /\ soquete' = [x \in Soquetes |->
             IF x = s THEN [fase |-> Listener(s), anterior |-> Nada]
             ELSE IF x = a THEN [soquete[x] EXCEPT !.fase = Fechado(@)]
             ELSE soquete[x]]
        /\ UNCHANGED <<partida, pendente, conexao, cadeia, devido, avisos, retornos, enviado>>

\* tentarCompletarRetornoPendente runs as a mutation.  The chain is free then, but
\* for another of these, after which this one finds the return sent.
LerReenvio(p, resto) ==
  /\ fio' = IF p = {} \/ enviado THEN resto
            ELSE Append(resto, Resposta("reenvioLido", Nada,
                   IF Encerrada THEN {Aviso(partida.vivos, b) : b \in p} ELSE {}))
  /\ UNCHANGED <<redis, conexao, soquete, naoInicio, expira, cadeia, devido, avisos,
                 retornos, enviado>>

\* Mutant: the pending return is read and not sent.
BugReenviar(lidos, resto) ==
  /\ fio' = resto
  /\ UNCHANGED <<redis, conexao, soquete, naoInicio, expira, cadeia, devido, avisos,
                 retornos, enviado>>

\* completarRetornoPendenteDentroDaMutacao, once its reads are in.
Reenviar(lidos, resto) ==
  /\ fio' = resto
  /\ IF ~enviado /\ lidos # {}
     THEN enviado' = TRUE /\ retornos' = retornos \cup lidos
     ELSE UNCHANGED <<enviado, retornos>>
  /\ UNCHANGED <<redis, conexao, soquete, naoInicio, expira, cadeia, devido, avisos>>

-----------------------------------------------------------------------------
(***************************************************************************)
(* Disconnection (ws.ts, marcarDesconexaoEArmarJanela): mark the presence, *)
(* check the não-início, arm the window; one reply between every two.      *)
(***************************************************************************)
\* A close before the listener is attached is heard by nobody.
FecharAntesDoListener(s) ==
  /\ noAr /\ EmJogo /\ soquete[s].fase = "registrado"
  /\ soquete' = [soquete EXCEPT ![s].fase = "mudo"]
  /\ UNCHANGED <<redis, conexao, naoInicio, velha, expira, fio, cadeia, devido, avisos,
                 retornos, enviado, lobby, noAr, quedas, abertas, cedo>>

\* Mutant: the close of a substituted socket counts as a disconnection.
BugFechar(s) ==
  /\ noAr /\ EmJogo /\ Len(fio) < MaxVoo
  /\ soquete[s].fase \in {"admitido", "fechando"}
  /\ soquete' = [soquete EXCEPT ![s].fase = "livre"]
  /\ conexao' = [conexao EXCEPT ![Dono(s)] = IF @ = s THEN Nada ELSE @]
  /\ partida' = ComPresenca(Dono(s), "em_reconexao")
  /\ fio' = Append(fio, Resposta("marcada", Dono(s), Nada))
  /\ UNCHANGED <<janela, pendente, naoInicio, velha, expira, cadeia, devido, avisos,
                 retornos, enviado, lobby, noAr, quedas, abertas, cedo>>

Fechar(s) ==
  /\ noAr /\ EmJogo /\ Len(fio) < MaxVoo
  /\ soquete[s].fase \in {"admitido", "fechando"}
  /\ soquete' = [soquete EXCEPT ![s].fase = "livre"]
  /\ IF conexao[Dono(s)] = s
     THEN /\ conexao' = [conexao EXCEPT ![Dono(s)] = Nada]
          /\ partida' = ComPresenca(Dono(s), "em_reconexao")
          /\ fio' = Append(fio, Resposta("marcada", Dono(s), Nada))
     ELSE UNCHANGED <<conexao, partida, fio>>
  /\ UNCHANGED <<janela, pendente, naoInicio, velha, expira, cadeia, devido, avisos,
                 retornos, enviado, lobby, noAr, quedas, abertas, cedo>>

\* verificarNaoInicioAposDesconexao and armarJanelaSeEmAndamento read the match:
\* one that is left empty gets ten seconds, one that runs opens a window.
Marcada(j, resto) ==
  /\ fio' = Append(resto, Resposta("lida", j,
              [vazia  |-> Preparada /\ RosterTodoEmReconexao,
               emAndamento |-> EmAndamento]))
  /\ UNCHANGED <<redis, conexao, soquete, naoInicio, expira, cadeia, devido,
                 avisos, retornos, enviado>>

Lida(j, p, resto) ==
  /\ naoInicio' = IF p.vazia THEN "dez" ELSE naoInicio
  /\ IF p.emAndamento
     THEN /\ janela' = janela \cup {j}
          /\ fio' = Append(resto, Resposta("janelaPosta", j, Nada))
     ELSE janela' = janela /\ fio' = resto
  /\ UNCHANGED <<partida, pendente, conexao, soquete, expira, cadeia, devido,
                 avisos, retornos, enviado>>

\* Mutant: the window is stored and no timer is armed for it.
BugJanelaPosta(j, resto) ==
  /\ fio' = resto
  /\ UNCHANGED <<redis, conexao, soquete, naoInicio, expira, cadeia, devido,
                 avisos, retornos, enviado>>

JanelaPosta(j, resto) ==
  /\ expira' = expira \cup {j}
  /\ fio' = resto
  /\ UNCHANGED <<redis, conexao, soquete, naoInicio, cadeia, devido, avisos,
                 retornos, enviado>>

-----------------------------------------------------------------------------
(***************************************************************************)
(* Não-início (nao-inicio.ts).  A match that was not completed in 90 s, or *)
(* that stays empty for 10 s, is cancelled by a DEL on the condition that  *)
(* it still is preparada, and its roster goes back to the Sala.            *)
(***************************************************************************)
DispararNaoInicio ==
  /\ noAr /\ naoInicio # Nada
  /\ naoInicio = "teto" => velha
  /\ naoInicio' = Nada
  /\ fio' = Append(fio, Resposta("naoInicioLido", Nada,
              IF ~Preparada THEN "parar"
              ELSE IF RosterTodoEmReconexao \/ velha THEN "cancelar"
              ELSE "reagendar"))
  /\ UNCHANGED <<redis, conexao, soquete, velha, expira, cadeia, devido, avisos,
                 retornos, enviado, lobby, noAr, quedas, abertas, cedo>>

\* Mutant: the cancellation removes the match whatever its state is.
BugCancelavel == partida # Nada

\* SCRIPT_CANCELAR_SE_NAO_INICIADA
Cancelavel == Preparada

\* The look decided; what happened since then is for the condition of the DEL.
NaoInicioLido(decisao, resto) ==
  /\ CASE decisao = "parar"     -> /\ fio' = resto
                                   /\ UNCHANGED <<partida, naoInicio>>
       [] decisao = "reagendar" -> /\ fio' = resto /\ naoInicio' = "teto"
                                   /\ UNCHANGED partida
       [] decisao = "cancelar"  ->
            /\ fio' = Append(resto, Resposta("cancelada", Nada, Cancelavel))
            /\ partida' = IF Cancelavel THEN Nada ELSE partida
            /\ UNCHANGED naoInicio
  /\ UNCHANGED <<janela, pendente, conexao, soquete, expira, cadeia, devido,
                 avisos, retornos, enviado>>

\* Mutant: the outcome of the conditional DEL is not looked at.
BugCancelada(feita, resto) ==
  /\ fio' = resto /\ naoInicio' = Nada
  /\ soquete' = [s \in Soquetes |-> IF soquete[s].fase = "admitido"
                  THEN [soquete[s] EXCEPT !.fase = "fechando"] ELSE soquete[s]]
  /\ retornos' = retornos \cup
       {[jogadores |-> roster, desistencia |-> FALSE, termino |-> FALSE]}
  /\ UNCHANGED <<redis, conexao, expira, cadeia, devido, avisos, enviado>>

Cancelada(feita, resto) ==
  /\ fio' = resto
  /\ IF feita
     THEN /\ naoInicio' = Nada
          /\ soquete' = [s \in Soquetes |-> IF soquete[s].fase = "admitido"
               THEN [soquete[s] EXCEPT !.fase = "fechando"] ELSE soquete[s]]
          /\ retornos' = retornos \cup
               {[jogadores |-> roster, desistencia |-> FALSE, termino |-> FALSE]}
     ELSE naoInicio' = "teto" /\ UNCHANGED <<soquete, retornos>>
  /\ UNCHANGED <<redis, conexao, expira, cadeia, devido, avisos, enviado>>

-----------------------------------------------------------------------------
(***************************************************************************)
(* The chain of mutations of the match (handlers.ts): a command of a       *)
(* player, or the conversion of an expired window into desistência.        *)
(***************************************************************************)
PodeComandar(j) == partida # Nada /\ ~partida.terminou /\ j \in partida.vivos

\* The engine on desistir_da_partida of one of `vivos`: one left ends the match, and
\* with more of them left the match may end too (the others may all be at the gate).
FimDaDesistencia(vivos) == IF Cardinality(vivos) = 2 THEN {TRUE} ELSE BOOLEAN

\* salvarEstadoDaPartida, its TTL and SET as one: a match that is gone is not stored
\* again.
ComEstado(vivos, fim) ==
  IF partida = Nada THEN Nada ELSE [partida EXCEPT !.vivos = vivos, !.terminou = fim]

\* A job of the chain.  A conversion whose turn comes reads state and presence.
Tarefa(j, expirou) == [quem |-> j, expirou |-> expirou]
Leitura(j) == Resposta("conversaoLida", j, Ausente(j))
ProximaLeitura == IF Len(cadeia) > 1 THEN <<Leitura(cadeia[2].quem)>> ELSE <<>>

\* verificarExpiracaoSeNecessario deletes the key once its conversion returned.
JanelaLimpa ==
  IF Head(cadeia).expirou THEN janela \ {Head(cadeia).quem} ELSE janela

\* The state is written, and its reply goes on with the post-batch work: what that
\* owes, Nada without término.
Salvar(vivos, fim, desistencia, resto) ==
  /\ partida' = ComEstado(vivos, fim)
  /\ fio' = Append(resto, Resposta("salva", Nada,
       IF fim THEN Aviso(vivos, desistencia) ELSE Nada))

\* A command that the engine will accept reads the match when the chain is free; the
\* wire takes it in any state of the match, preparada too.
Comandar(j) ==
  /\ noAr /\ cadeia = <<>> /\ Len(fio) < MaxVoo /\ PodeComandar(j)
  /\ \E s \in Soquetes : Dono(s) = j /\ soquete[s].fase = "admitido"
  /\ cadeia' = <<Tarefa(j, FALSE)>>
  /\ fio' = Append(fio, Resposta("comandoLido", j, partida.vivos))
  /\ cedo' = (cedo \/ Preparada)
  /\ UNCHANGED <<redis, conexao, soquete, naoInicio, velha, expira, devido, avisos,
                 retornos, enviado, lobby, noAr, quedas, abertas>>

\* It is judged on what it read: a desistência, or the command that gives the match
\* its result, victory or defeat.
ComandoLido(j, vivos, resto) ==
  /\ \/ \E fim \in FimDaDesistencia(vivos) : Salvar(vivos \ {j}, fim, TRUE, resto)
     \/ Salvar(vivos, TRUE, FALSE, resto)
  /\ UNCHANGED <<janela, pendente, conexao, soquete, naoInicio, expira, cadeia, devido,
                 avisos, retornos, enviado>>

\* A timer is set after its key and outlives it; only a key that was stored
\* again, its reply still on the way, finds the old timer armed.
DispararExpiracao(j) ==
  /\ noAr /\ j \in expira
  /\ j \notin janela \/ \E i \in DOMAIN fio : fio[i] = Resposta("janelaPosta", j, Nada)
  /\ expira' = expira \ {j}
  /\ fio' = Append(fio, Resposta("validadeLida", j,
              IF j \in janela THEN "aberta"
              ELSE IF Ausente(j) THEN "valida" ELSE "invalida"))
  /\ UNCHANGED <<redis, conexao, soquete, naoInicio, velha, cadeia, devido, avisos,
                 retornos, enviado, lobby, noAr, quedas, abertas, cedo>>

\* Mutant: the conversion does not wait for the mutation that runs.
BugVagaNaCadeia == TRUE

VagaNaCadeia == cadeia = <<>>

\* A window that is open again is left alone, and a conversion queues up.
ValidadeLida(j, validade, resto) ==
  /\ cadeia' = IF validade = "valida" THEN Append(cadeia, Tarefa(j, TRUE)) ELSE cadeia
  /\ fio' = IF validade = "valida" /\ VagaNaCadeia THEN Append(resto, Leitura(j))
            ELSE resto
  /\ janela' = IF validade = "invalida" THEN janela \ {j} ELSE janela
  /\ UNCHANGED <<partida, pendente, conexao, soquete, naoInicio, expira, devido,
                 avisos, retornos, enviado>>

\* The presence read inside the chain decides, however old it is by now.
ConversaoLida(j, ausente, resto) ==
  /\ IF ausente
     THEN \E fim \in FimDaDesistencia(partida.vivos) :
            /\ Salvar(partida.vivos \ {j}, fim, TRUE, resto)
            /\ UNCHANGED <<janela, cadeia>>
     ELSE /\ janela' = JanelaLimpa
          /\ fio' = resto \o ProximaLeitura
          /\ cadeia' = Tail(cadeia)
          /\ UNCHANGED partida
  /\ UNCHANGED <<pendente, conexao, soquete, naoInicio, expira, devido, avisos,
                 retornos, enviado>>

\* processarPosLoteDeDesistencia.  With término: retention
\* (SCRIPT_APLICAR_RETENCAO_DE_TERMINO), then the detach of everyone of the roster
\* that no longer plays; without it the detach is sent and nobody waits for it.
Salvo(aviso, resto) ==
  /\ IF aviso # Nada
     THEN /\ partida' = IF partida = Nada THEN Nada
                        ELSE [partida EXCEPT !.prazo = TRUE]
          /\ devido' = aviso
          /\ avisos' = avisos \cup (roster \ aviso.jogadores)
          /\ fio' = resto
          /\ UNCHANGED <<janela, cadeia>>
     ELSE /\ avisos' = avisos \cup {Head(cadeia).quem}
          /\ janela' = JanelaLimpa
          /\ fio' = resto \o ProximaLeitura
          /\ cadeia' = Tail(cadeia)
          /\ UNCHANGED <<partida, devido>>
  /\ UNCHANGED <<pendente, conexao, soquete, naoInicio, expira, retornos, enviado>>

\* Mutant: the return is given up when a detach reached its time limit.
BugDeveEnviar == ~enviado /\ avisos = {}

DeveEnviar == ~enviado

\* The detaches were answered or reached their time limit, which may come at any
\* time: the pending key is stored and the return sent, once by process.
EnviarRetorno ==
  /\ noAr /\ devido # Nada
  /\ IF DeveEnviar
     THEN /\ enviado'  = TRUE
          /\ pendente' = {devido.desistencia}
          /\ retornos' = retornos \cup {devido}
     ELSE UNCHANGED <<enviado, pendente, retornos>>
  /\ devido' = Nada
  /\ janela' = JanelaLimpa
  /\ fio'    = fio \o ProximaLeitura
  /\ cadeia' = Tail(cadeia)
  /\ UNCHANGED <<partida, conexao, soquete, naoInicio, velha, expira, avisos,
                 lobby, noAr, quedas, abertas, cedo>>

\* The reply at the head of the wire is handled.
Responder ==
  /\ noAr /\ fio # <<>>
  /\ LET r     == Head(fio)
         resto == Tail(fio)
     IN  \/ r.tipo = "conectar"      /\ Conectar(r.alvo, resto)
         \/ r.tipo = "concluir"      /\ Concluir(r.alvo, r.lido, resto)
         \/ r.tipo = "marcada"       /\ Marcada(r.alvo, resto)
         \/ r.tipo = "lida"          /\ Lida(r.alvo, r.lido, resto)
         \/ r.tipo = "janelaPosta"   /\ JanelaPosta(r.alvo, resto)
         \/ r.tipo = "naoInicioLido" /\ NaoInicioLido(r.lido, resto)
         \/ r.tipo = "cancelada"     /\ Cancelada(r.lido, resto)
         \/ r.tipo = "validadeLida"  /\ ValidadeLida(r.alvo, r.lido, resto)
         \/ r.tipo = "conversaoLida" /\ ConversaoLida(r.alvo, r.lido, resto)
         \/ r.tipo = "comandoLido"   /\ ComandoLido(r.alvo, r.lido, resto)
         \/ r.tipo = "salva"         /\ Salvo(r.lido, resto)
         \/ r.tipo = "pendenteLido"  /\ LerReenvio(r.lido, resto)
         \/ r.tipo = "reenvioLido"   /\ Reenviar(r.lido, resto)
  /\ UNCHANGED <<velha, lobby, noAr, quedas, abertas, cedo>>

-----------------------------------------------------------------------------
(***************************************************************************)
(* The lobby: it judges detaches and returns, and lets a Membro leave a    *)
(* Sala whose match is an orphan.  An answer may be lost: the client of    *)
(* the callback then asks again.                                           *)
(***************************************************************************)
\* routes/desistencia.ts: no Membro, nothing to do; a Sala that is not
\* encaminhada is a final refusal.
Desvincular(j, chega) ==
  /\ noAr /\ j \in avisos
  /\ sala' = IF sala.estado = "encaminhada"
             THEN [sala EXCEPT !.ativos = @ \ {j}] ELSE sala
  /\ avisos' = IF chega THEN avisos \ {j} ELSE avisos
  /\ UNCHANGED <<redis, conexao, soquete, naoInicio, velha, expira, fio, cadeia,
                 devido, retornos, enviado, orfaos, roster, noAr, quedas, abertas, cedo>>

\* routes/retorno.ts: the remaining Membros are a part of the active ones.
Reabre(r) == /\ sala.estado = "encaminhada"
             /\ r.jogadores # {} /\ r.jogadores \subseteq sala.ativos

\* Asked again about a Sala this return reopened.
JaReaberta(r) == sala.estado = "aberta" /\ sala.ativos = r.jogadores

\* A refusal is final but for a término with desistência (ehRetentavel).
Retornar(r, chega) ==
  /\ noAr /\ r \in retornos
  /\ sala' = IF Reabre(r) THEN [estado |-> "aberta", ativos |-> r.jogadores] ELSE sala
  /\ \E conclui \in {chega /\ (Reabre(r) \/ JaReaberta(r) \/ ~r.desistencia)} :
       /\ retornos' = IF conclui THEN retornos \ {r} ELSE retornos
       /\ pendente' = IF conclui /\ r.termino THEN {} ELSE pendente
  /\ UNCHANGED <<partida, janela, conexao, soquete, naoInicio, velha, expira, fio,
                 cadeia, devido, avisos, enviado, orfaos, roster, noAr, quedas, abertas, cedo>>

\* resolverDecisaoOrfa and revalidarOrfa: the key is gone, or it has an expiry
\* and nobody of the roster is connected.
Orfa == partida = Nada \/ (Preparada /\ partida.prazo /\ RosterTodoEmReconexao)

SairDeOrfa(j) ==
  /\ sala.estado = "encaminhada" /\ j \in sala.ativos /\ Orfa
  /\ Cardinality(orfaos) < MaxOrfaos
  /\ sala' = [sala EXCEPT !.ativos = @ \ {j}]
  /\ orfaos' = orfaos \cup {j}
  /\ UNCHANGED <<redis, memoria, roster, noAr, quedas, abertas, cedo>>

-----------------------------------------------------------------------------
(***************************************************************************)
(* Time, crashes and restarts.  Redis and the lobby survive the process.   *)
(***************************************************************************)
\* Ninety seconds since criadaEm.
Envelhecer ==
  /\ ~velha /\ (Preparada \/ naoInicio = "teto")
  /\ velha' = TRUE
  /\ UNCHANGED <<redis, conexao, soquete, naoInicio, expira, fio, cadeia, devido,
                 avisos, retornos, enviado, lobby, noAr, quedas, abertas, cedo>>

ExpirarJanela(j) ==
  /\ j \in janela
  /\ janela' = janela \ {j}
  /\ UNCHANGED <<partida, pendente, memoria, lobby, noAr, quedas, abertas, cedo>>

\* The ten minutes of a match nobody started only pass while the process that
\* should have cancelled it at ninety seconds is down.
ExpirarPreparada ==
  /\ ~noAr /\ Preparada
  /\ partida' = Nada
  /\ UNCHANGED <<janela, pendente, memoria, lobby, noAr, quedas, abertas, cedo>>

Cair ==
  /\ noAr /\ quedas < MaxQuedas
  /\ noAr' = FALSE /\ quedas' = quedas + 1
  /\ conexao' = [j \in Jogadores |-> Nada]
  /\ soquete' = [s \in Soquetes |-> [fase |-> "livre", anterior |-> Nada]]
  /\ naoInicio' = Nada /\ expira' = {}
  /\ fio' = <<>> /\ cadeia' = <<>> /\ devido' = Nada
  /\ avisos' = {} /\ retornos' = {} /\ enviado' = FALSE
  /\ UNCHANGED <<redis, velha, lobby, abertas, cedo>>

\* Mutant: the boot looks only at the windows.
BugNaoInicioRearmado == Nada

\* rearmarNaoInicioAposRestart
NaoInicioRearmado == IF ~Preparada THEN Nada
                     ELSE IF RosterTodoEmReconexao THEN "dez" ELSE "teto"

\* The windows that are still open and valid get their timers back
\* (rearmarReconexaoEmAndamentoAposRestart); those that closed are not seen.
Voltar ==
  /\ ~noAr /\ noAr' = TRUE
  /\ naoInicio' = NaoInicioRearmado
  /\ expira' = {j \in janela : Ausente(j)}
  /\ janela' = {j \in janela : Ausente(j)}
  /\ UNCHANGED <<partida, pendente, conexao, soquete, velha, fio, cadeia, devido,
                 avisos, retornos, enviado, lobby, quedas, abertas, cedo>>

-----------------------------------------------------------------------------
Next ==
  \/ \E s \in Soquetes : PedirConexao(s) \/ FecharAntesDoListener(s) \/ Fechar(s)
  \/ \E j \in Jogadores : \/ Comandar(j)
                          \/ DispararExpiracao(j) \/ ExpirarJanela(j)
                          \/ SairDeOrfa(j)
                          \/ \E chega \in BOOLEAN : Desvincular(j, chega)
  \/ \E r \in retornos, chega \in BOOLEAN : Retornar(r, chega)
  \/ DispararNaoInicio \/ Responder \/ EnviarRetorno
  \/ Envelhecer \/ ExpirarPreparada \/ Cair \/ Voltar

\* Replies come, timers fire, keys expire, time passes, the process is started
\* again and the lobby answers at last.  Nothing is asked of clients.
Fairness ==
  /\ WF_vars(Responder) /\ WF_vars(DispararNaoInicio) /\ WF_vars(EnviarRetorno)
  /\ WF_vars(Envelhecer) /\ WF_vars(Voltar)
  /\ WF_vars(\E r \in retornos : Retornar(r, TRUE))
  /\ WF_vars(\E j \in Jogadores : DispararExpiracao(j))
  /\ WF_vars(\E j \in Jogadores : ExpirarJanela(j))

Spec == Init /\ [][Next]_vars /\ Fairness

-----------------------------------------------------------------------------
(***************************************************************************)
(* Properties                                                              *)
(***************************************************************************)
\* Types; the connection in force is a socket of its Jogador; and the chain runs
\* one mutation at a time (enfileirarMutacao): one reply of a mutation is on its
\* way, or the running one waits for its detaches, exactly when it is not empty.
EmCurso == {i \in DOMAIN fio :
              fio[i].tipo \in {"comandoLido", "conversaoLida", "salva"}}

TypeOK ==
  /\ partida \in {Nada} \cup Partidas(roster)
  /\ janela \subseteq Jogadores /\ expira \subseteq Jogadores
  /\ avisos \subseteq Jogadores /\ pendente \subseteq BOOLEAN
  /\ \A j \in Jogadores : conexao[j] # Nada =>
       conexao[j] \in Soquetes /\ Dono(conexao[j]) = j
  /\ \A s \in Soquetes : soquete[s].fase \in
       {"livre", "pedido", "registrado", "mudo", "admitido", "fantasma", "fechando"}
  /\ naoInicio \in {Nada, "dez", "teto"}
  /\ Cardinality(EmCurso) + (IF devido = Nada THEN 0 ELSE 1)
       = IF cadeia = <<>> THEN 0 ELSE 1

\* While the process lives, the presence kept in Redis is that of the registry:
\* a Jogador is conectado exactly when a connection of his is in force, however
\* closes, substitutions and their replies interleave.
PresencaSegueRegistro ==
  quedas = 0 /\ partida # Nada =>
    \A j \in roster : partida.presenca[j] = "conectado" <=> conexao[j] # Nada

\* A Sala is open again only when its match is gone or has a result: nobody gets
\* to choose another match while one he plays in goes on.
SalaAbertaSemPartida ==
  sala.estado = "aberta" => partida = Nada \/ partida.terminou

\* Once the return of a término was concluded, the Sala is open and holds exactly
\* those who were still in the match, whatever the order in which the detaches
\* and the return reached the lobby.
RetornoReabre ==
  enviado /\ retornos = {} /\ orfaos = {} /\ ~cedo =>
    sala = [estado |-> "aberta", ativos |-> partida.vivos]

\* When a match was cancelled and no reply is on its way, no admitted connection
\* is left waiting in it: the broadcast closed those it knew, and those that
\* came later were refused.
NinguemEmPartidaCancelada ==
  noAr /\ partida = Nada /\ fio = <<>> =>
    \A s \in Soquetes : soquete[s].fase # "admitido"

\* A pending return that survived a crash waits for somebody to be admitted to
\* the finished match, and then is sent or on its way through the replies of
\* Redis that lead to the lobby.
PendenteParado == /\ noAr /\ pendente # {} /\ Encerrada
                  /\ \E s \in Soquetes : soquete[s].fase = "admitido"

Retomada == {i \in DOMAIN fio : fio[i].tipo \in {"pendenteLido", "reenvioLido"}
                                /\ fio[i].lido # {}}

PendenteACaminho == PendenteParado => enviado \/ Retomada # {}

\* It is delivered: the Sala has it, unless the process died once more or the
\* lobby will not have it because somebody left as an orphan.
PendenteNaoEspera ==
  PendenteParado ~> pendente = {} \/ ~noAr \/ orfaos # {} \/ cedo

\* A match that started is never removed by the não-início, even when the last
\* admission comes between the look of the timer and the removal.
EmAndamentoNaoCancela == [][EmAndamento => partida' # Nada]_vars

\* A match does not stay preparada: it starts or it is cancelled, with crashes
\* and with connections that come and go.
PreparadaResolve == Preparada ~> ~Preparada

\* A Jogador that left a running match comes back or is converted: he is not
\* absent from some moment on.  The one exception is a crash that left no window
\* of his in Redis.
AusenciaConverte ==
  \A j \in Jogadores :
    []<>(Ausente(j) => quedas > 0 /\ j \notin janela \cup expira)

\* A match with a result gives its players back to the Sala, unless the process
\* died on the way or somebody left as an orphan.
TerminoReabre ==
  Encerrada ~>
    sala.estado = "aberta" \/ quedas > 0 \/ orfaos # {} \/ cedo
=============================================================================
