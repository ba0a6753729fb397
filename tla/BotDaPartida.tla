---------------------------- MODULE BotDaPartida ----------------------------
(***************************************************************************)
(* The strategy of the bots, packages/engine/src/bot.ts: at each point of  *)
(* a turn acoesValidasDaSubfase enumerates what the bot may do and one of  *)
(* the actions is drawn.  executarTurnoDoBot turns a drawn encaixe into    *)
(* zero to two turns of the piece and the encaixe; the turn of a bot is    *)
(* its own, so the sequence is one step here.  An action is a tuple that   *)
(* begins with the name of the command.                                    *)
(***************************************************************************)
EXTENDS Partida

CONSTANT Bots     (* the Players that are bots                             *)

ASSUME BotsAssumption == Bots \subseteq 1..NumeroDeJogadores

VARIABLE passos   (* actions drawn in the turn of the bot                  *)

vars == <<varsDaPartida, passos>>

MaxAcoesPorTurno == 20     (* MAX_ACOES_POR_TURNO_DO_BOT                   *)

-----------------------------------------------------------------------------
(* What is enumerated, sub-phase by sub-phase.                             *)

Conecta(t, r) == ConectaNaVaga(r, t.recebidas[r].orientacao, t.recebidas[r].vaga)
Fixadas == {r \in Pendentes(tab) : tab.recebidas[r].vaga # Nada}

(* A piece that has its edge: encaixe if it is connected, else turns.      *)
(* Mutant: the bot does not turn the piece of a dead edge (issue #349).    *)
BugAcoesDaFixada(r) ==
  IF Conecta(tab, r) THEN {<<"posicionar_peca", r, tab.recebidas[r].alvo>>} ELSE {}

AcoesDaFixada(r) ==
  IF Conecta(tab, r) THEN {<<"posicionar_peca", r, tab.recebidas[r].alvo>>}
  ELSE IF tab.selecionada = r THEN {<<"girar_peca", r, passo>> : passo \in Giros}
  ELSE {}

VagaElegivel(j, r, b) ==
  LET celula == Vizinha(CelulaDe(tab, NaPeca(j)), b)
  IN  IF tab.recebidas[r].alvo # Nada THEN celula = tab.recebidas[r].alvo
      ELSE jogadores[j].baixa => celula \notin iluminadas

AcoesDasPendentes(j) ==
  {<<"escolher_vaga_da_peca_recebida", x[1], x[2]>> :
     x \in {y \in Pendentes(tab) \X VagasDisponiveis(tab, NaPeca(j)) :
              VagaElegivel(j, y[1], y[2])}}

AcoesDoPrimeiroTurno(j) ==
  LET inicial == <<"inicial", j>>
  IN  IF inicial \notin Mesa(tab)
      THEN IF tab.selecionada # inicial THEN {<<"selecionar_peca", inicial>>}
           ELSE {<<"posicionar_peca", inicial, c>> :
                   c \in {d \in CelulasDeInicio : Vazia(tab, d)}}
      ELSE IF NaPeca(j) = Nada
      THEN IF tab.peao # j THEN {<<"selecionar_peao">>} ELSE {<<"posicionar_peao", inicial>>}
      ELSE {<<"encerrar_turno">>}

Destinos(j) ==
  {p \in VizinhasConectadas(tab, NaPeca(j)) :
     /\ ~EhMonstro(p)
     /\ turno.atravessou /\ turno.travessia # Nada => p = turno.travessia
     /\ Cardinality(Ocupantes(tab, p)) < TetoOcupacao(tab, jogadores, p)}

CelulasEscuras(j) ==
  {Vizinha(CelulaDe(tab, NaPeca(j)), b) : b \in VagasDisponiveis(tab, NaPeca(j))}
    \ Luz(tab, jogadores)

(* Mutant: the bot stays on a piece in its graça.                          *)
BugPermaneceria(j) == turno.atravessou => TravessiaEmMonstro

Permaneceria(j) ==
  NaPeca(j) \notin graca /\ (turno.atravessou => TravessiaEmMonstro)

AcoesSobreOInicio(j) ==
  {<<"mover_peao", p>> : p \in Destinos(j)}
  \cup (IF jogadores[j].baixa /\ ~turno.atravessou /\ tab.caixa # <<>>
        THEN {<<"atravessar_o_escuro", c>> : c \in CelulasEscuras(j)} ELSE {})
  \cup (IF Permaneceria(j) THEN {<<"permanecer">>} ELSE {})

AcoesValidasDaSubfase(j) ==
  IF resultado # Nada \/ j # turno.ativo THEN {}
  ELSE IF Fixadas # {} THEN UNION {AcoesDaFixada(r) : r \in Fixadas}
  ELSE IF tab.recebidas # <<>> THEN AcoesDasPendentes(j)
  ELSE IF jogadores[j].primeiroTurno THEN AcoesDoPrimeiroTurno(j)
  ELSE IF turno.confirmada THEN {<<"encerrar_turno">>}
  ELSE IF tab.peao # j THEN {<<"selecionar_peao">>}
  ELSE IF NaPeca(j) # turno.inicio THEN {<<"confirmar_posicao_do_peao">>}
  ELSE AcoesSobreOInicio(j)

(* What aplicarComandoDePartida answers to an action of the bot.           *)
Aceita(j, a) ==
  CASE a[1] = "posicionar_peca" /\ EhInicial(a[2]) -> PodePosicionarAInicial(j, a[2], a[3])
    [] a[1] = "posicionar_peca" /\ ~EhInicial(a[2]) -> PodePosicionarARecebida(j, a[2], a[3])
    [] a[1] = "girar_peca" -> PodeGirarAPeca(j, a[2], a[3])
    [] a[1] = "escolher_vaga_da_peca_recebida" -> PodeEscolherAVaga(j, a[2], a[3])
    [] a[1] = "selecionar_peca" -> PodeSelecionarAPeca(j, a[2])
    [] a[1] = "selecionar_peao" -> PodeSelecionarOPeao(j)
    [] a[1] = "posicionar_peao" -> PodePosicionarOPeao(j, a[2])
    [] a[1] = "mover_peao" -> PodeMoverOPeao(j, a[2])
    [] a[1] = "atravessar_o_escuro" -> PodeAtravessar(j, a[2])
    [] a[1] = "permanecer" -> PodePermanecerNaPeca(j)
    [] a[1] = "confirmar_posicao_do_peao" -> PodeConfirmar(j)
    [] a[1] = "encerrar_turno" -> PodeEncerrar(j)

-----------------------------------------------------------------------------
(* The steps of a bot.                                                     *)

(* expandirPosicionamentoDoBot: some turns of the piece and the encaixe.   *)
(* A piece with four open edges is not turned.                             *)
Viradas(p, o) ==
  IF BordasBase(Tipo(p)) = Bordas THEN {o}
  ELSE {o} \cup {Rotacionar(o, passo) : passo \in Giros}
           \cup {Rotacionar(o, passo + passo) : passo \in Giros}

EncaixarInicialDoBot(j, p, c) ==
  /\ PodePosicionarAInicial(j, p, c)
  /\ \E o \in Viradas(p, tab.iniciais[p]) :
       DelegarAoTabuleiro(PosicionarInicial([tab EXCEPT !.iniciais[p] = o], p, c))

EncaixarRecebidaDoBot(j, r, c) ==
  \E o \in Viradas(r, tab.recebidas[r].orientacao) :
    LET girado == [Adotada(tab, j) EXCEPT !.recebidas[r].orientacao = o]
    IN  /\ PodePosicionarARecebida(j, r, c)
        /\ Conecta(girado, r)
        /\ tab' = PosicionarRecebida(girado, r, c)
        /\ turno' = IF turno.atravessou THEN [turno EXCEPT !.travessia = r] ELSE turno
        /\ UNCHANGED <<jogadores, iluminadas, graca, geradores, cartao>>
        /\ AvaliarTermino

Executa(j, a) ==
  \/ a[1] = "posicionar_peca" /\ EhInicial(a[2]) /\ EncaixarInicialDoBot(j, a[2], a[3])
  \/ a[1] = "posicionar_peca" /\ ~EhInicial(a[2]) /\ EncaixarRecebidaDoBot(j, a[2], a[3])
  \/ a[1] = "girar_peca" /\ GirarAPeca(j, a[2], a[3])
  \/ a[1] = "escolher_vaga_da_peca_recebida" /\ EscolherAVaga(j, a[2], a[3])
  \/ a[1] = "selecionar_peca" /\ SelecionarAPeca(j, a[2])
  \/ a[1] = "selecionar_peao" /\ SelecionarOPeao(j)
  \/ a[1] = "posicionar_peao" /\ PosicionarOPeao(j, a[2])
  \/ a[1] = "mover_peao" /\ MoverOPeao(j, a[2])
  \/ a[1] = "atravessar_o_escuro" /\ AtravessarOEscuro(j, a[2])
  \/ a[1] = "permanecer" /\ Permanecer(j)
  \/ a[1] = "confirmar_posicao_do_peao" /\ ConfirmarPosicao(j)
  \/ a[1] = "encerrar_turno" /\ EncerrarTurno(j)

MesmoTurno == turno'.ativo = turno.ativo /\ turno'.rodada = turno.rodada

(* The failsafe of the loop (no action, or the last one) only tries        *)
(* encerrar_turno, refused in every state that gets there: a bot without   *)
(* an action is one shut in on a graça piece (BotSoTravaNaGraca). It then  *)
(* gives its turn up and changes nothing, so it has no disjunct.           *)
JogadaDoBot(j) ==
  /\ passos < MaxAcoesPorTurno
  /\ \E a \in AcoesValidasDaSubfase(j) : Executa(j, a)
  /\ passos' = IF MesmoTurno THEN passos + 1 ELSE 0

NextComBots ==
  \/ \E j \in Jogadores \ Bots : Jogada(j) /\ passos' = 0
  \/ \E j \in Bots : JogadaDoBot(j)
  \/ \E j \in Desistentes : Desistir(j) /\ passos' = IF MesmoTurno THEN passos ELSE 0

InitComBots == Init /\ passos = 0

SpecComBots == InitComBots /\ [][NextComBots]_vars

-----------------------------------------------------------------------------
(* Properties.                                                             *)

(***************************************************************************)
(* Every action the bot enumerates is one the match accepts: the mirror of *)
(* the guards in bot.ts is exact in every sub-phase.                       *)
(***************************************************************************)
BotExato ==
  ElencoCompleto =>
    \A j \in Bots \cap DOMAIN jogadores : \A a \in AcoesValidasDaSubfase(j) : Aceita(j, a)

(***************************************************************************)
(* A bot whose turn it is has an action and its failsafe never cuts a turn *)
(* short, so its turn ends; but for a bot on a piece in its graça all of   *)
(* whose neighbours are taken.                                             *)
(***************************************************************************)
BotSoTravaNaGraca ==
  LET j == turno.ativo
  IN  resultado = Nada /\ ElencoCompleto /\ j \in Bots =>
        /\ passos < MaxAcoesPorTurno
        /\ AcoesValidasDaSubfase(j) # {} \/ (NaPeca(j) \in graca /\ Destinos(j) = {})
=============================================================================
