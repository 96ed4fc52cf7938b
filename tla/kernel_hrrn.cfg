SPECIFICATION Spec
CONSTANTS
  p1 = p1
  p2 = p2
  p3 = p3
  p4 = p4
  r1 = r1
  r2 = r2
  Nadie = Nadie
  Procesos = {p1, p2, p3}
  Recursos = {r1}
  Instancias <- UnaInstancia
  Grado = 2
  Algoritmo = "HRRN"
  MaxInstancias = 2
  MaxReady = 3

CHECK_DEADLOCK FALSE
INVARIANT ListasConPermiso
PROPERTY RecursosConservados
SYMMETRY Simetria
