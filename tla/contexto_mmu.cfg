SPECIFICATION SpecC
CONSTANTS
  p1 = p1
  p2 = p2
  p3 = p3
  Procesos = {p1, p2}
  TamMemoria = 4
  TamSegmento0 = 2
  AlgoritmoAsignacion = "FIRST"
  Tamanios = {1}
  Terminan = {p1, p2}
  MaxSegmentos = 2
  Modulo = 1024
  Basura <- BasuraMC
  Instrucciones = {"SET", "MOV_OUT", "CREATE_SEGMENT"}
  MaxInstrucciones = 4
  Valores = {7, 8}
  ValorInicial = 7
  Tiempos = {1}
CHECK_DEADLOCK FALSE
SYMMETRY Simetria
INVARIANT LeeLoUltimo
