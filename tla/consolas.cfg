SPECIFICATION FairSpecS
CONSTANTS
  c1 = c1
  c2 = c2
  c3 = c3
  General = General
  Consolas = {c1, c2}
  EsperanAlKernel = FALSE
  MaxSegmentos = 3
  NoExiste = NoExiste
  Guiones <- GuionesMC
CHECK_DEADLOCK FALSE
INVARIANT SinSolaparCadaUnoLaSuya
INVARIANT UnaRespuestaPorPedido
INVARIANT FinDeCadaUna
INVARIANT GuionEntero
PROPERTY TodasTerminan
PROPERTY GeneralVuelve
